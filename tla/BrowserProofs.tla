---------------------------- MODULE BrowserProofs ----------------------------
(***************************************************************************)
(* For any folders, names and number of listings on their way: the listing *)
(* cache is never older than an acknowledged write of this page; bytes     *)
(* decrypted from a vault are held only while it is open on screen; the    *)
(* selection stands for rows on screen; a batch takes what was chosen; and *)
(* once nothing is awaited the screen shows the truth of what was asked.   *)
(***************************************************************************)
EXTENDS Page, FiniteSetTheorems, SequenceTheorems, TLAPS

----------------------------------------------------------------------------
(* The listing cache *)

IsOp(op) == DOMAIN op = {"kind", "path", "seq", "gen", "from", "id", "reply"}

IsBatch(b) == DOMAIN b = {"kind", "todo", "dest", "sent", "reply", "dir", "chosen", "done"}

CacheType ==
  /\ writes \in Nat /\ acked \in Nat /\ listingGen \in Nat
  /\ cache = [p \in Server |-> cache[p]]
  /\ \A op \in ops : IsOp(op) /\ op.gen \in Nat
  /\ batch # None => IsBatch(batch)

\* A write whose reply is still to land is one the server has carried out and the page has not noted.
Counted ==
  /\ acked <= writes
  /\ batch # None /\ batch.reply # None /\ batch.reply = "ok" => acked < writes

\* A listing is new enough when it shows every write acknowledged so far.
NewEnough(listing) == listing.at \in Nat /\ listing.at >= acked

\* Of the answers on their way those of the newest generation are new enough, and so are cached ones.
Current ==
  /\ \A op \in ops : /\ op.gen <= listingGen
                     /\ op.gen = listingGen /\ op.reply # None /\ op.reply # Failed
                          => NewEnough(op.reply)
  /\ \A p \in Server : cache[p] # None => NewEnough(cache[p])

CInv == CacheType /\ Counted /\ Current

LEMMA CInvInit == BrowserInit => CInv
BY DEF BrowserInit, CInv, CacheType, Counted, Current

\* Steps that add a request, or change nothing the cache depends on.
LEMMA AskKeeps ==
  ASSUME CInv, UNCHANGED <<writes, acked, cacheVars>>,
         batch' = batch \/ (batch' # None => IsBatch(batch') /\ batch'.reply = None),
         \A op \in ops' : op \in ops \/ (IsOp(op) /\ op.gen = listingGen /\ op.reply = None)
  PROVE  CInv'
<1> USE DEF cacheVars
<1>1. \A op \in ops' : IsOp(op) /\ op.gen \in Nat
  BY DEF CInv, CacheType
<1>2. CacheType'
  BY <1>1 DEF CInv, CacheType
<1>3. Counted'
  BY DEF CInv, Counted
<1>4. Current'
  <2>1. \A op \in ops' : /\ op.gen <= listingGen
                         /\ op.gen = listingGen /\ op.reply # None /\ op.reply # Failed
                              => NewEnough(op.reply)
    BY DEF CInv, Current, CacheType
  <2> QED
    BY <2>1 DEF CInv, Current, NewEnough
<1> QED
  BY <1>2, <1>3, <1>4 DEF CInv

LEMMA OpIsOp ==
  ASSUME NEW kind, NEW p, NEW from
  PROVE  LET op == Op(kind, p, from) IN IsOp(op) /\ op.gen = listingGen /\ op.reply = None
BY DEF Op, IsOp

LEMMA GoAsks ==
  ASSUME NEW p, NEW kind, NEW v, NEW chosen, Go(p, kind, v, chosen)
  PROVE  \A op \in ops' : op \in ops \/ (IsOp(op) /\ op.gen = listingGen /\ op.reply = None)
<1>1. CASE UNCHANGED <<navSeq, ops>>
  BY <1>1
<1>2. CASE \E from : Ask(Op(kind, p, from))
  <2>1. PICK from : ops' = ops \cup {Op(kind, p, from)}
    BY <1>2 DEF Ask
  <2> QED
    BY <2>1, OpIsOp
<1> QED
  BY <1>1, <1>2 DEF Go

LEMMA AnswerKeeps == ASSUME NEW op \in ops, CInv, Answer(op) PROVE CInv'
<1> DEFINE listing == [names |-> files[op.path], at |-> writes]
<1>1. PICK answer : /\ answer = IF op.path = VaultDeep THEN Failed ELSE listing
                    /\ ops' = (ops \ {op}) \cup {[op EXCEPT !.reply = answer]}
  BY DEF Answer
<1>2. LET new == [op EXCEPT !.reply = answer]
      IN  IsOp(new) /\ new.gen = op.gen /\ new.reply = answer
  BY DEF CInv, CacheType, IsOp
<1>3. UNCHANGED <<writes, acked, cacheVars, batch>>
  BY DEF Answer, serverVars
<1>4. answer # Failed => NewEnough(answer)
  BY <1>1 DEF CInv, CacheType, Counted, NewEnough
<1>5. CacheType'
  BY <1>1, <1>2, <1>3 DEF CInv, CacheType, cacheVars
<1>6. Counted'
  BY <1>3 DEF CInv, Counted
<1>7. Current'
  BY <1>1, <1>2, <1>3, <1>4 DEF CInv, Current, cacheVars, NewEnough
<1> QED
  BY <1>5, <1>6, <1>7 DEF CInv

LEMMA LandKeeps ==
  ASSUME NEW op \in ops, CInv, LandPrefetch(op) \/ LandListing(op)
  PROVE  CInv'
<1>1. /\ ops' = ops \ {op} /\ UNCHANGED <<writes, acked, listingGen, batch>>
      /\ op.reply # None
  BY DEF LandPrefetch, LandListing, serverVars
<1>2. cache' = cache \/ (/\ cache' = [cache EXCEPT ![op.path] = op.reply]
                         /\ op.gen = listingGen /\ op.reply # Failed)
  BY DEF LandPrefetch, LandListing, CacheListing
<1>3. /\ cache' = [p \in Server |-> cache'[p]]
      /\ \A p \in Server : cache'[p] = cache[p] \/ NewEnough(cache'[p])
  BY <1>1, <1>2 DEF CInv, CacheType, Current
<1>4. CacheType'
  BY <1>1, <1>3 DEF CInv, CacheType
<1>5. Counted'
  BY <1>1 DEF CInv, Counted
<1>6. Current'
  BY <1>1, <1>3 DEF CInv, Current, NewEnough
<1> QED
  BY <1>4, <1>5, <1>6 DEF CInv

LEMMA FailKeeps == ASSUME NEW op \in ops, CInv, Fail(op) \/ LandFailed(op) \/ LandClimb(op) PROVE CInv'
<1>1. UNCHANGED <<writes, acked, cacheVars, batch>>
  BY DEF Fail, LandFailed, LandClimb, serverVars
<1>2. \A new \in ops' : \/ new \in ops
                        \/ /\ IsOp(new) /\ new.gen = op.gen
                           /\ new.reply = None \/ new.reply = Failed
  <2>1. CASE Fail(op)
    <3>1. LET new == [op EXCEPT !.reply = Failed]
          IN  IsOp(new) /\ new.gen = op.gen /\ new.reply = Failed
      BY DEF CInv, CacheType, IsOp
    <3> QED
      BY <2>1, <3>1 DEF Fail
  <2>2. CASE LandFailed(op)
    <3>1. ASSUME NEW up PROVE LET new == [op EXCEPT !.kind = "climb", !.path = up, !.reply = None]
                              IN  IsOp(new) /\ new.gen = op.gen /\ new.reply = None
      BY DEF CInv, CacheType, IsOp
    <3>2. LET new == [op EXCEPT !.kind = "climb", !.path = Parent(op.path), !.reply = None]
          IN  IsOp(new) /\ new.gen = op.gen /\ new.reply = None
      BY <3>1
    <3> QED
      BY <2>2, <3>2 DEF LandFailed
  <2>3. CASE LandClimb(op)
    BY <2>3 DEF LandClimb
  <2> QED
    BY <2>1, <2>2, <2>3
<1>3. CacheType'
  BY <1>1, <1>2 DEF CInv, CacheType, cacheVars
<1>4. Counted'
  BY <1>1 DEF CInv, Counted
<1>5. Current'
  BY <1>1, <1>2 DEF CInv, Current, cacheVars, NewEnough
<1> QED
  BY <1>3, <1>4, <1>5 DEF CInv

LEMMA BatchKeeps == CInv /\ (SendItem \/ ServeItem \/ LandItem) => CInv'
<1> SUFFICES ASSUME CInv, SendItem \/ ServeItem \/ LandItem PROVE CInv'
  OBVIOUS
<1>1. batch # None /\ IsBatch(batch)
  BY DEF SendItem, ServeItem, LandItem, CInv, CacheType
<1>2. CASE SendItem
  <2>1. batch'.reply = batch.reply /\ IsBatch(batch')
    BY <1>1, <1>2 DEF SendItem, IsBatch
  <2>2. UNCHANGED <<writes, acked, cache, listingGen, ops>>
    BY <1>2 DEF SendItem, serverVars, cacheVars
  <2> QED
    BY <1>1, <2>1, <2>2 DEF CInv, CacheType, Counted, Current, NewEnough
<1>3. CASE ServeItem
  <2>1. IsBatch(batch') /\ writes' = IF batch'.reply = "ok" THEN writes + 1 ELSE writes
    BY <1>1, <1>3 DEF ServeItem, IsBatch
  <2>2. UNCHANGED <<acked, cache, listingGen, ops>>
    BY <1>3 DEF ServeItem, cacheVars
  <2>3. CacheType'
    BY <2>1, <2>2 DEF CInv, CacheType
  <2>4. Counted'
    BY <2>1, <2>2 DEF CInv, CacheType, Counted
  <2> QED
    BY <2>2, <2>3, <2>4 DEF CInv, Current, NewEnough
<1>4. CASE LandItem
  <2>1. IsBatch(batch') /\ batch'.reply = None
    BY <1>1, <1>4 DEF LandItem, IsBatch
  <2>2. UNCHANGED <<writes, ops>>
    BY <1>4 DEF LandItem
  <2>3. CASE batch.reply = "ok"
    <3>1. /\ cache' = [p \in Server |-> None] /\ listingGen' = listingGen + 1
          /\ acked' = acked + 1 /\ acked < writes
      BY <1>1, <1>4, <2>3 DEF LandItem, NoteFilesChanged, CInv, Counted
    <3>2. CacheType'
      BY <2>1, <2>2, <3>1 DEF CInv, CacheType
    <3>3. Counted'
      BY <2>1, <2>2, <3>1 DEF CInv, CacheType, Counted
    <3>4. Current'
      BY <2>2, <3>1 DEF CInv, CacheType, Current
    <3> QED
      BY <3>2, <3>3, <3>4 DEF CInv
  <2>4. CASE batch.reply # "ok"
    <3>1. UNCHANGED <<acked, cache, listingGen>>
      BY <1>4, <2>4 DEF LandItem, cacheVars
    <3> QED
      BY <2>1, <2>2, <3>1 DEF CInv, CacheType, Counted, Current, NewEnough
  <2> QED
    BY <2>3, <2>4
<1> QED
  BY <1>2, <1>3, <1>4

\* The rest: navigations and prefetches, what the user does on screen, and the vault.
Other ==
  \/ \E p \in Path, kind \in {"nav", "hash"} : Navigate(p, kind)
  \/ \E p \in Server : PrefetchListing(p)
  \/ \E d \in Plain, n \in Name : ChangedElsewhere(d, n)
  \/ FinishBatch \/ FinishUnlock \/ (\E g \in vault.work : Decrypted(g))
  \/ Select \/ Write \/ UseVault

LEMMA OtherKeeps == CInv /\ Other => CInv'
<1> SUFFICES ASSUME CInv, Other PROVE CInv'
  OBVIOUS
<1> USE DEF serverVars
<1>1. ASSUME NEW p \in Path, NEW kind \in {"nav", "hash"}, Navigate(p, kind) PROVE CInv'
  BY <1>1, AskKeeps, GoAsks DEF Navigate
<1>2. ASSUME NEW p \in Server, PrefetchListing(p) PROVE CInv'
  <2>1. ops' = ops \cup {Op("prefetch", p, None)}
    BY <1>2 DEF PrefetchListing, Ask
  <2>2. UNCHANGED <<writes, acked, cacheVars, batch>>
    BY <1>2 DEF PrefetchListing
  <2> QED
    BY <2>1, <2>2, AskKeeps, OpIsOp
<1>3. CASE FinishBatch
  <2>1. UNCHANGED <<writes, acked, cacheVars>> /\ batch' = None
    BY <1>3 DEF FinishBatch
  <2>2. \A op \in ops' : op \in ops \/ (IsOp(op) /\ op.gen = listingGen /\ op.reply = None)
    BY <1>3, GoAsks DEF FinishBatch
  <2> QED
    BY <2>1, <2>2, AskKeeps
<1>4. CASE FinishUnlock
  <2>1. UNCHANGED <<writes, acked, cacheVars, batch>>
    BY <1>4 DEF FinishUnlock
  <2>2. \A op \in ops' : op \in ops \/ (IsOp(op) /\ op.gen = listingGen /\ op.reply = None)
    BY <1>4, GoAsks DEF FinishUnlock
  <2> QED
    BY <2>1, <2>2, AskKeeps
<1>5. ASSUME NEW kind, NEW todo, NEW dest, StartBatch(kind, todo, dest) PROVE CInv'
  <2>1. UNCHANGED <<writes, acked, cacheVars, ops>> /\ IsBatch(batch') /\ batch'.reply = None
    BY <1>5 DEF StartBatch, IsBatch
  <2> QED
    BY <2>1, AskKeeps
<1>6. CASE Write
  BY <1>5, <1>6 DEF Write, MoveEntriesToDir, CopyEntriesToDir, DeleteEntries, CreateFile, ShowRename
<1>7. CASE \/ \E d \in Plain, n \in Name : ChangedElsewhere(d, n)
           \/ \E g \in vault.work : Decrypted(g)
           \/ Select \/ UseVault
  <2>1. UNCHANGED <<writes, acked, cacheVars, batch, ops>>
    BY <1>7 DEF ChangedElsewhere, Decrypted, Select, Click, SelectAll, Rearrange, UseVault,
                StartUnlock, Lock, AutoLock, VaultBlobUrl
  <2> QED
    BY <2>1, AskKeeps
<1> QED
  BY <1>1, <1>2, <1>3, <1>4, <1>6, <1>7 DEF Other

\* What the browser can do, sorted as the lemmas above have it.
LEMMA BrowserSteps ==
  ASSUME BrowserAsync \/ Browse \/ Select \/ Write \/ UseVault
  PROVE  \/ \E op \in ops : \/ Answer(op) \/ LandPrefetch(op) \/ LandListing(op)
                            \/ Fail(op) \/ LandFailed(op) \/ LandClimb(op)
         \/ SendItem \/ ServeItem \/ LandItem
         \/ Other
BY DEF BrowserAsync, Browse, Other

LEMMA CInvNext == CInv /\ [Next]_pageVars => CInv'
<1> SUFFICES ASSUME CInv, \/ BrowserAsync \/ Browse \/ Select \/ Write \/ UseVault
                          \/ UNCHANGED browserVars
             PROVE  CInv'
  BY DEF Next, InBrowser, InEditor, InViewer, InDialog, WithSongs, InTransfer, pageVars
<1>1. CASE UNCHANGED browserVars
  BY <1>1 DEF browserVars, CInv, CacheType, Counted, Current, NewEnough
<1>2. CASE BrowserAsync \/ Browse \/ Select \/ Write \/ UseVault
  BY <1>2, BrowserSteps, AnswerKeeps, LandKeeps, FailKeeps, BatchKeeps, OtherKeeps
<1> QED
  BY <1>1, <1>2

\* Going back to a folder never brings back a row whose going the server has acknowledged.
THEOREM CacheCurrent == PageSpec => []CacheKeepsUpWithWrites
<1>1. Init => CInv
  BY CInvInit DEF Init
<1>2. CInv => CacheKeepsUpWithWrites
  BY DEF CInv, Current, NewEnough, CacheKeepsUpWithWrites
<1> QED
  BY <1>1, <1>2, CInvNext, PTL DEF PageSpec

----------------------------------------------------------------------------
(* Decrypted bytes *)

IsVault(v) ==
  v \in [open : BOOLEAN, unlocking : BOOLEAN, pending : {None, VaultDeep}, gen : Nat,
         url : BOOLEAN, work : SUBSET Nat]

\* Nothing has been decrypted, or is being, under a generation to come.
Generations(v) ==
  /\ IsVault(v)
  /\ v.work \subseteq 0 .. v.gen

\* Nothing is decrypted, and what is being decrypted will be thrown away.
Empty(v) == ~v.url /\ v.gen \notin v.work

VInv == Generations(vault) /\ (Unlocked \/ Empty(vault))

LEMMA VInvInit == BrowserInit => VInv
BY DEF BrowserInit, VInv, Generations, IsVault, Empty

LEMMA ReleasedEmpty ==
  ASSUME NEW v, Generations(v)
  PROVE  /\ Generations(Released(v)) /\ Empty(Released(v)) /\ Released(v).open = v.open
         /\ IsVault(Released(v))
<1>1. /\ IsVault(Released(v)) /\ Released(v).gen = v.gen + 1 /\ Released(v).work = v.work
      /\ ~Released(v).url /\ Released(v).open = v.open
  <2>1. IsVault(v) /\ v.gen + 1 \in Nat
    BY DEF Generations, IsVault
  <2> QED
    BY <2>1 DEF Released, IsVault
<1>2. v.work \subseteq 0 .. (v.gen + 1) /\ v.gen + 1 \notin v.work
  <2>1. v.gen \in Nat /\ v.work \subseteq 0 .. v.gen
    BY DEF Generations, IsVault
  <2> QED
    BY <2>1
<1> QED
  BY <1>1, <1>2 DEF Generations, Empty

LEMMA ApplyKeepsVault ==
  ASSUME NEW p, NEW names, NEW keepSelection, NEW v,
         Generations(v), ApplyListing(p, names, keepSelection, v)
  PROVE  VInv'
<1>1. (vault' = v /\ inVault' /\ v.open) \/ vault' = Released(v)
  BY DEF ApplyListing
<1> QED
  BY <1>1, ReleasedEmpty DEF VInv, Unlocked, Empty, Generations, IsVault

LEMMA GoKeepsVault ==
  ASSUME NEW p, NEW kind, NEW v, NEW chosen,
         Generations(v), (inVault /\ v.open) \/ Empty(v), Go(p, kind, v, chosen)
  PROVE  VInv'
<1>1. CASE vault' = v /\ inVault' = inVault
  BY <1>1 DEF VInv, Unlocked, Empty, Generations, IsVault
<1>2. CASE \E names : ApplyListing(p, names, FALSE, v)
  BY <1>2, ApplyKeepsVault
<1> QED
  BY <1>1, <1>2 DEF Go, ApplyVaultListing

LEMMA LockKeepsVault == VInv /\ LockVault => VInv'
<1> SUFFICES ASSUME VInv, LockVault PROVE VInv'
  OBVIOUS
<1>1. Generations(Released(vault)) /\ Empty(Released(vault))
  BY ReleasedEmpty DEF VInv
<1>2. /\ vault' = [Released(vault) EXCEPT !.open = FALSE]
      /\ Released(vault) = [Released(vault) EXCEPT !.open = Released(vault).open]
  BY <1>1 DEF LockVault, Generations, IsVault
<1>3. Generations(vault') /\ Empty(vault')
  BY <1>1, <1>2 DEF Generations, IsVault, Empty
<1> QED
  BY <1>3 DEF VInv, Generations, IsVault, Empty

\* What changes neither the vault nor whether it is on screen.
LEMMA ElseKeepsVault == VInv /\ UNCHANGED <<vault, inVault>> => VInv'
BY DEF VInv, Unlocked, Empty, Generations, IsVault

LEMMA LandKeepsVault ==
  ASSUME NEW op \in ops, VInv, LandListing(op) \/ LandClimb(op)
  PROVE  VInv'
<1>1. Generations(vault)
  BY DEF VInv
<1>2. CASE LandListing(op)
  <2>1. CASE UNCHANGED <<screenVars, vault>>
    BY <2>1, ElseKeepsVault DEF screenVars
  <2>2. CASE \E keepSelection : ApplyListing(op.path, op.reply.names, keepSelection, vault)
    BY <1>1, <2>2, ApplyKeepsVault
  <2> QED
    BY <1>2, <2>1, <2>2 DEF LandListing, RefreshListing
<1>3. CASE LandClimb(op)
  <2> DEFINE v == IF vault.open THEN vault ELSE Released(vault)
  <2>1. Generations(v) /\ (v.open \/ Empty(v))
    BY <1>1, ReleasedEmpty
  <2>2. vault' = [v EXCEPT !.pending = VaultDeep] /\ inVault'
    BY <1>3 DEF LandClimb
  <2> HIDE DEF v
  <2>3. Generations(vault') /\ (vault'.open \/ Empty(vault'))
    BY <2>1, <2>2 DEF Generations, IsVault, Empty
  <2> QED
    BY <2>2, <2>3 DEF VInv, Unlocked, Generations, IsVault, Empty
<1> QED
  BY <1>2, <1>3

LEMMA UseKeepsVault == VInv /\ (UseVault \/ FinishUnlock) => VInv'
<1> SUFFICES ASSUME VInv, UseVault \/ FinishUnlock PROVE VInv'
  OBVIOUS
<1>1. Generations(vault)
  BY DEF VInv
<1>2. CASE StartUnlock
  <2>1. vault' = [vault EXCEPT !.unlocking = TRUE] /\ inVault' = inVault
    BY <1>2 DEF StartUnlock, screenVars
  <2> QED
    BY <2>1 DEF VInv, Unlocked, Generations, IsVault, Empty
<1>3. CASE Lock
  BY <1>3, LockKeepsVault DEF Lock
<1>4. CASE AutoLock /\ inVault
  BY <1>4, LockKeepsVault DEF AutoLock
<1>5. CASE AutoLock /\ ~inVault
  <2>1. vault' = [vault EXCEPT !.open = FALSE] /\ Empty(vault)
    BY <1>5 DEF AutoLock, VInv, Unlocked
  <2>2. Generations(vault') /\ Empty(vault')
    BY <1>1, <2>1 DEF Generations, IsVault, Empty
  <2> QED
    BY <2>2 DEF VInv, Generations, IsVault, Empty
<1>6. CASE VaultBlobUrl
  <2>1. /\ vault' = [vault EXCEPT !.work = @ \cup {vault.gen}] /\ Unlocked
        /\ inVault' = inVault
    BY <1>6 DEF VaultBlobUrl, screenVars
  <2>2. Generations(vault') /\ vault'.open = vault.open
    BY <1>1, <2>1 DEF Generations, IsVault
  <2> QED
    BY <2>1, <2>2 DEF VInv, Unlocked, Generations, IsVault
<1>7. CASE FinishUnlock
  <2> DEFINE v == [vault EXCEPT !.open = TRUE, !.unlocking = FALSE, !.pending = None]
  <2>1. Generations(v) /\ v.open /\ (Empty(vault) => Empty(v))
    <3>1. /\ IsVault(v) /\ v.open /\ v.gen = vault.gen /\ v.url = vault.url
          /\ v.work = vault.work
      BY <1>1 DEF Generations, IsVault
    <3> HIDE DEF v
    <3> QED
      BY <1>1, <3>1 DEF Generations, IsVault, Empty
  <2>2. PICK target : Go(target, "nav", v, selected)
    BY <1>7 DEF FinishUnlock
  <2> HIDE DEF v
  <2> QED
    BY <2>1, <2>2, GoKeepsVault DEF VInv, Unlocked
<1> QED
  BY <1>2, <1>3, <1>4, <1>5, <1>6, <1>7 DEF UseVault

LEMMA DecryptedKeepsVault == ASSUME NEW g \in vault.work, VInv, Decrypted(g) PROVE VInv'
<1>1. /\ vault' = [vault EXCEPT !.work = @ \ {g}, !.url = @ \/ g = vault.gen]
      /\ inVault' = inVault
  BY DEF Decrypted, screenVars
<1>2. /\ Generations(vault') /\ vault'.open = vault.open /\ vault'.gen = vault.gen
      /\ vault'.work \subseteq vault.work /\ (vault'.url => vault.url \/ g = vault.gen)
  BY <1>1 DEF VInv, Generations, IsVault
<1> QED
  BY <1>1, <1>2 DEF VInv, Unlocked, Empty, Generations, IsVault

LEMMA VInvNext == VInv /\ [Next]_pageVars => VInv'
<1> SUFFICES ASSUME VInv, \/ BrowserAsync \/ Browse \/ Select \/ Write \/ UseVault
                          \/ UNCHANGED browserVars
             PROVE  VInv'
  BY DEF Next, InBrowser, InEditor, InViewer, InDialog, WithSongs, InTransfer, pageVars
<1>1. ASSUME NEW op \in ops, Answer(op) \/ LandPrefetch(op) \/ LandFailed(op) \/ Fail(op) PROVE VInv'
  BY <1>1, ElseKeepsVault DEF Answer, LandPrefetch, LandFailed, Fail, screenVars
<1>2. CASE SendItem \/ ServeItem \/ LandItem \/ Select \/ Write
  BY <1>2, ElseKeepsVault
  DEF SendItem, ServeItem, LandItem, Select, Click, SelectAll, Rearrange, Write, MoveEntriesToDir,
      CopyEntriesToDir, DeleteEntries, CreateFile, ShowRename, StartBatch, screenVars
<1>3. CASE FinishBatch
  <2>1. CASE UNCHANGED <<screenVars, vault>>
    BY <2>1, ElseKeepsVault DEF screenVars
  <2>2. CASE \E chosen : Go(cur, "nav", vault, chosen)
    BY <2>2, GoKeepsVault DEF VInv, Unlocked
  <2> QED
    BY <1>3, <2>1, <2>2 DEF FinishBatch
<1>4. ASSUME NEW p, NEW kind, Navigate(p, kind) PROVE VInv'
  BY <1>4, GoKeepsVault DEF Navigate, VInv, Unlocked
<1>5. CASE \/ \E p \in Server : PrefetchListing(p)
           \/ \E d \in Plain, n \in Name : ChangedElsewhere(d, n)
  BY <1>5, ElseKeepsVault DEF PrefetchListing, ChangedElsewhere, screenVars
<1>6. CASE BrowserAsync
  BY <1>1, <1>2, <1>3, <1>6, LandKeepsVault, UseKeepsVault, DecryptedKeepsVault DEF BrowserAsync
<1>7. CASE Browse
  BY <1>1, <1>4, <1>5, <1>7 DEF Browse
<1>8. CASE UNCHANGED browserVars
  BY <1>8, ElseKeepsVault DEF browserVars
<1> QED
  BY <1>2, <1>6, <1>7, <1>8, UseKeepsVault

\* However locking, leaving and decrypting interleave, decrypted bytes do not outlive the vault on
\* screen.
THEOREM PlaintextConfined == PageSpec => []NoPlaintextOutsideVault
<1>1. Init => VInv
  BY VInvInit DEF Init
<1>2. VInv => NoPlaintextOutsideVault
  BY DEF VInv, Empty, NoPlaintextOutsideVault
<1> QED
  BY <1>1, <1>2, VInvNext, PTL DEF PageSpec
----------------------------------------------------------------------------
(* Rows *)

At(n) == CHOOSE i \in DOMAIN Order : Order[i] = n

LEMMA NameIsFinite == IsFiniteSet(Name) /\ \A n \in Name : At(n) \in Nat /\ Order[At(n)] = n
<1>1. Order \in [1 .. Len(Order) -> Name] /\ Len(Order) \in Nat
  BY BrowserAssumption DEF Name
<1>2. \A n \in Name : \E i \in DOMAIN Order : Order[i] = n
  BY DEF Name, ToSet
<1>3. \A n \in Name : At(n) \in DOMAIN Order /\ Order[At(n)] = n
  BY <1>2 DEF At
<1>4. Order \in Surjection(1 .. Len(Order), Name)
  BY <1>1, <1>2 DEF Surjection
<1>5. IsFiniteSet(Name)
  BY <1>1, <1>4, FS_Interval, FS_Surjection
<1> QED
  BY <1>1, <1>3, <1>5

\* Different rows have different ranks, from one to the number of rows.
LEMMA Ranks ==
  ASSUME NEW rows \in SUBSET Name, NEW down, NEW n \in rows
  PROVE  /\ Rank(n, rows, down) \in 1 .. Cardinality(rows)
         /\ \A m \in rows : Rank(m, rows, down) = Rank(n, rows, down) => m = n
<1> DEFINE upto(m) == {x \in rows : Before(x, m, down)}
<1>1. IsFiniteSet(rows) /\ Cardinality(rows) \in Nat
  BY NameIsFinite, FS_Subset, FS_CardinalityType
<1>2. \A x, m \in rows : Before(x, m, down) <=> IF down THEN At(x) >= At(m) ELSE At(x) <= At(m)
  BY DEF Before, At
<1>3. \A m \in rows : At(m) \in Nat /\ Order[At(m)] = m
  BY NameIsFinite
<1>4. \A m \in rows : m \in upto(m) /\ upto(m) \in SUBSET rows
  <2>1. \A m \in rows : Before(m, m, down)
    BY <1>2, <1>3
  <2> QED
    BY <2>1
<1>5. \A m \in rows : IsFiniteSet(upto(m)) /\ Cardinality(upto(m)) <= Cardinality(rows)
  BY <1>1, <1>4, FS_Subset
<1>6. \A m \in rows : Cardinality(upto(m)) \in Nat /\ Cardinality(upto(m)) # 0
  BY <1>4, <1>5, FS_CardinalityType, FS_EmptySet
<1>7. ASSUME NEW m \in rows, Cardinality(upto(m)) = Cardinality(upto(n)) PROVE m = n
  <2>1. upto(m) \in SUBSET upto(n) \/ upto(n) \in SUBSET upto(m)
    BY <1>2, <1>3
  <2>2. upto(m) = upto(n)
    BY <1>5, <1>7, <2>1, FS_Subset
  <2>3. Before(m, n, down) /\ Before(n, m, down)
    BY <1>4, <2>2
  <2>4. At(m) = At(n)
    BY <1>2, <1>3, <2>3
  <2> QED
    BY <1>3, <2>4
<1>8. \A m \in rows : Rank(m, rows, down) = Cardinality(upto(m))
  BY DEF Rank
<1> HIDE DEF upto
<1> QED
  BY <1>1, <1>5, <1>6, <1>7, <1>8

\* The rows sorted are a list of them.
LEMMA SortedRows ==
  ASSUME NEW rows \in SUBSET Name, NEW down
  PROVE  Sorted(rows, down) \in Seq(rows)
<1> DEFINE ranks == [n \in rows |-> Rank(n, rows, down)]
           count == Cardinality(rows)
<1>1. IsFiniteSet(rows) /\ count \in Nat
  BY NameIsFinite, FS_Subset, FS_CardinalityType
<1>2. ranks \in Injection(rows, 1 .. count)
  BY Ranks DEF Injection, IsInjective
<1>3. IsFiniteSet(1 .. count) /\ Cardinality(1 .. count) = count
  BY <1>1, FS_Interval
<1>4. ranks \in Surjection(rows, 1 .. count)
  BY <1>2, <1>3, FS_Injection
<1>5. {Rank(n, rows, down) : n \in rows} = 1 .. count
  <2>1. \A n \in rows : ranks[n] = Rank(n, rows, down) /\ ranks[n] \in 1 .. count
    BY <1>2 DEF Injection
  <2>2. \A k \in 1 .. count : \E n \in rows : ranks[n] = k
    BY <1>4 DEF Surjection
  <2> HIDE DEF ranks, count
  <2> QED
    BY <2>1, <2>2
<1>6. \A k \in 1 .. count : (CHOOSE n \in rows : Rank(n, rows, down) = k) \in rows
  BY <1>5
<1>7. Sorted(rows, down) \in [1 .. count -> rows]
  BY <1>5, <1>6 DEF Sorted
<1> QED
  BY <1>1, <1>7, SeqDef

LEMMA EntriesAreRows == \A k \in DOMAIN Entries : Entries[k] \in Rows
BY DEF Entries, Sorted

----------------------------------------------------------------------------
(* The selection *)

\* Steps that paint nothing and select nothing.
LEMMA SameSelection ==
  ASSUME SelectionStandsForRows, UNCHANGED <<cur, all, filter, desc, selected, anchor, anchorName>>
  PROVE  SelectionStandsForRows'
<1>1. Entries' = Entries
  BY DEF Entries, Rows, Sorted, Rank, Before
<1> QED
  BY <1>1 DEF SelectionStandsForRows

LEMMA PaintKeepsSelection ==
  ASSUME NEW p, NEW names, NEW keep, NEW v, SelectionStandsForRows, ApplyListing(p, names, keep, v)
  PROVE  SelectionStandsForRows'
BY DEF ApplyListing, SelectionStandsForRows

LEMMA GoKeepsSelection ==
  ASSUME NEW p, NEW kind, NEW v, NEW chosen, SelectionStandsForRows, Go(p, kind, v, chosen),
         chosen \subseteq selected, UNCHANGED <<filter, desc>>
  PROVE  SelectionStandsForRows'
<1>1. CASE \E names, u : ApplyListing(p, names, FALSE, u)
  BY <1>1, PaintKeepsSelection
<1>2. CASE UNCHANGED <<cur, all, anchor, anchorName>> /\ selected' = chosen
  <2>1. Entries' = Entries
    BY <1>2 DEF Entries, Rows, Sorted, Rank, Before
  <2> QED
    BY <1>2, <2>1 DEF SelectionStandsForRows
<1> QED
  BY <1>1, <1>2 DEF Go, ApplyVaultListing

LEMMA ClickKeepsSelection ==
  ASSUME NEW n \in Name, NEW key \in {"plain", "ctrl", "shift"}, SelectionStandsForRows, Click(n, key)
  PROVE  SelectionStandsForRows'
<1>1. UNCHANGED <<cur, all, filter, desc>>
  BY DEF Click
<1>2. Entries' = Entries
  BY <1>1 DEF Entries, Rows, Sorted, Rank, Before
<1>3. PICK e : e = Entries
  OBVIOUS
<1>4. \E k \in DOMAIN e : e[k] = n
  BY <1>3 DEF Click, ToSet
<1>5. Position(n) \in DOMAIN e /\ e[Position(n)] = n
  BY <1>3, <1>4 DEF Position
<1>6. \A k \in DOMAIN e : e[k] \in all
  BY <1>3, EntriesAreRows DEF Rows
<1>7. selected' \subseteq all
  <2>1. n \in all
    BY <1>4, <1>6
  <2>2. CASE key # "shift"
    <3>1. selected' = {n} \/ selected' = (selected \cup {n}) \ (selected \cap {n})
      BY <2>2 DEF Click
    <3>2. selected \subseteq all
      BY DEF SelectionStandsForRows
    <3> QED
      BY <2>1, <3>1, <3>2
  <2>3. CASE key = "shift"
    <3>1. selected' \subseteq {Entries[k] : k \in DOMAIN Entries}
      BY <2>3 DEF Click
    <3> QED
      BY <1>3, <1>6, <3>1
  <2> QED
    BY <2>2, <2>3
<1>8. \/ anchor' = Position(n) /\ anchorName' = n
      \/ UNCHANGED <<anchor, anchorName>>
  BY DEF Click
<1> QED
  BY <1>1, <1>2, <1>3, <1>5, <1>7, <1>8 DEF SelectionStandsForRows

LEMMA SelectionNext == SelectionStandsForRows /\ [Next]_pageVars => SelectionStandsForRows'
<1> SUFFICES ASSUME SelectionStandsForRows,
                    \/ BrowserAsync \/ Browse \/ Select \/ Write \/ UseVault
                    \/ UNCHANGED browserVars
             PROVE  SelectionStandsForRows'
  BY DEF Next, InBrowser, InEditor, InViewer, InDialog, WithSongs, InTransfer, pageVars
<1> USE DEF screenVars
<1>1. ASSUME NEW op \in ops, Answer(op) \/ LandPrefetch(op) \/ LandFailed(op) \/ Fail(op)
      PROVE  SelectionStandsForRows'
  BY <1>1, SameSelection DEF Answer, LandPrefetch, LandFailed, Fail
<1>2. ASSUME NEW op \in ops, LandListing(op) PROVE SelectionStandsForRows'
  <2>1. CASE UNCHANGED screenVars
    BY <1>2, <2>1, SameSelection DEF LandListing
  <2> QED
    BY <1>2, <2>1, PaintKeepsSelection DEF LandListing, RefreshListing
<1>3. ASSUME NEW op \in ops, LandClimb(op) PROVE SelectionStandsForRows'
  BY <1>3 DEF LandClimb, SelectionStandsForRows
<1>4. CASE SendItem \/ ServeItem \/ LandItem \/ \E g \in vault.work : Decrypted(g)
  BY <1>4, SameSelection DEF SendItem, ServeItem, LandItem, Decrypted
<1>5. CASE FinishBatch
  <2>1. CASE UNCHANGED screenVars
    BY <1>5, <2>1, SameSelection DEF FinishBatch
  <2> QED
    BY <1>5, <2>1, GoKeepsSelection DEF FinishBatch
<1>6. CASE FinishUnlock
  BY <1>6, GoKeepsSelection DEF FinishUnlock
<1>7. CASE Browse
  <2>1. ASSUME NEW p, NEW kind, Navigate(p, kind) PROVE SelectionStandsForRows'
    BY <2>1, GoKeepsSelection DEF Navigate
  <2>2. CASE \/ \E p \in Server : PrefetchListing(p)
             \/ \E d \in Plain, n \in Name : ChangedElsewhere(d, n)
    BY <2>2, SameSelection DEF PrefetchListing, ChangedElsewhere
  <2> QED
    BY <1>1, <1>7, <2>1, <2>2 DEF Browse
<1>8. CASE SelectAll
  <2>1. Entries' = Entries
    BY <1>8 DEF SelectAll, Entries, Rows, Sorted, Rank, Before
  <2> QED
    BY <1>8, <2>1, EntriesAreRows DEF SelectAll, SelectionStandsForRows, ToSet, Rows
<1>9. CASE Rearrange
  BY <1>9 DEF Rearrange, SelectionStandsForRows
<1>10. CASE Write
  BY <1>10, SameSelection
  DEF Write, MoveEntriesToDir, CopyEntriesToDir, DeleteEntries, CreateFile, ShowRename, StartBatch
<1>11. CASE UseVault
  <2>1. CASE UNCHANGED screenVars
    BY <1>11, <2>1, SameSelection DEF UseVault, StartUnlock, Lock, AutoLock, VaultBlobUrl
  <2>2. CASE LockVault
    BY <2>2 DEF LockVault, SelectionStandsForRows
  <2> QED
    BY <1>11, <2>1, <2>2 DEF UseVault, StartUnlock, Lock, AutoLock, VaultBlobUrl
<1>12. CASE UNCHANGED browserVars
  BY <1>12, SameSelection DEF browserVars
<1> QED
  BY <1>1, <1>2, <1>3, <1>4, <1>5, <1>6, <1>7, <1>8, <1>9, <1>10, <1>11, <1>12, ClickKeepsSelection
  DEF BrowserAsync, Select

\* The selection and the anchor of a Shift-click are of the rows on screen, whichever listings were
\* painted in between.
THEOREM SelectionIsOnScreen == PageSpec => []SelectionStandsForRows
<1>1. Init => SelectionStandsForRows
  BY DEF Init, BrowserInit, SelectionStandsForRows
<1> QED
  BY <1>1, SelectionNext, PTL DEF PageSpec
----------------------------------------------------------------------------
(* Batches *)

\* All that a batch is still to do, and does, is to what was chosen.  (A file that is created is not,
\* and nothing is taken for it.)
OfChosen(b) ==
  b.kind # "create" =>
    b.todo \in Seq(b.chosen) /\ (b.sent # None => b.sent.name \in b.chosen)

BatchInv ==
  /\ files = [d \in Server |-> files[d]]
  /\ batch # None => /\ IsBatch(batch) /\ OfChosen(batch)
                     /\ batch.kind \in {"move", "copy", "delete", "create", "rename"}

LEMMA BatchInvInit == BrowserInit => BatchInv
BY DEF BrowserInit, BatchInv

LEMMA ServedFolders ==
  ASSUME NEW kind \in {"move", "copy", "delete", "create", "rename"}, NEW dir, NEW name, NEW dest,
         files = [d \in Server |-> files[d]]
  PROVE  LET new == Served(kind, dir, name, dest)
         IN  /\ new = [d \in Server |-> new[d]]
             /\ \A d \in Server : \A n \in files[d] \ new[d] : d = dir /\ n = name /\ kind # "create"
<1>1. CASE dir \in Server /\ kind = "move"
  BY <1>1 DEF Served
<1>2. CASE dir \in Server /\ kind = "copy"
  BY <1>2 DEF Served
<1>3. CASE dir \in Server /\ kind = "delete"
  BY <1>3 DEF Served
<1>4. CASE dir \in Server /\ kind = "create"
  BY <1>4 DEF Served
<1>5. CASE dir \in Server /\ kind = "rename"
  BY <1>5 DEF Served
<1>6. CASE dir \notin Server
  BY <1>6 DEF Served
<1> QED
  BY <1>1, <1>2, <1>3, <1>4, <1>5, <1>6

LEMMA StartOfChosen ==
  ASSUME NEW kind \in {"move", "copy", "delete", "create", "rename"}, NEW todo, NEW dest, BatchInv,
         StartBatch(kind, todo, dest), kind # "create" => todo \in Seq(selected)
  PROVE  BatchInv'
<1>1. /\ IsBatch(batch') /\ batch'.kind = kind /\ batch'.todo = todo /\ batch'.chosen = selected
      /\ batch'.sent = None
  BY DEF StartBatch, IsBatch
<1>2. UNCHANGED files
  BY DEF StartBatch, serverVars
<1> QED
  BY <1>1, <1>2 DEF BatchInv, OfChosen

LEMMA WriteOfChosen == ASSUME BatchInv, Write PROVE BatchInv'
<1>1. Chosen \in Seq(Rows \cap selected)
  BY SortedRows DEF Chosen, Rows
<1>2. Chosen \in Seq(selected)
  BY <1>1
<1>3. ASSUME NEW dest \in Plain, MoveEntriesToDir(dest) \/ CopyEntriesToDir(dest) PROVE BatchInv'
  BY <1>2, <1>3, StartOfChosen DEF MoveEntriesToDir, CopyEntriesToDir
<1>4. CASE DeleteEntries
  BY <1>2, <1>4, StartOfChosen DEF DeleteEntries
<1>5. ASSUME NEW n, CreateFile(n) PROVE BatchInv'
  BY <1>5, StartOfChosen DEF CreateFile
<1>6. ASSUME NEW n, NEW m, ShowRename(n, m) PROVE BatchInv'
  <2>1. n \in selected
    BY <1>2, <1>6 DEF ShowRename, ToSet
  <2>2. <<n>> \in Seq(selected)
    BY <2>1
  <2> QED
    BY <1>6, <2>2, StartOfChosen DEF ShowRename
<1> QED
  BY <1>3, <1>4, <1>5, <1>6 DEF Write

LEMMA ItemsOfChosen == ASSUME BatchInv, SendItem \/ ServeItem \/ LandItem PROVE BatchInv'
<1>1. batch # None /\ IsBatch(batch) /\ OfChosen(batch)
  BY DEF SendItem, ServeItem, LandItem, BatchInv
<1>2. CASE SendItem
  <2>1. /\ IsBatch(batch') /\ batch'.kind = batch.kind /\ batch'.chosen = batch.chosen
        /\ batch'.todo = Tail(batch.todo)
        /\ batch'.sent = batch.sent \/ batch'.sent.name = Head(batch.todo)
    BY <1>1, <1>2 DEF SendItem, IsBatch
  <2>2. batch.todo # <<>> /\ UNCHANGED files
    BY <1>2 DEF SendItem, serverVars
  <2>3. OfChosen(batch')
    <3> SUFFICES ASSUME batch.kind # "create"
                 PROVE  batch'.todo \in Seq(batch.chosen)
                        /\ (batch'.sent # None => batch'.sent.name \in batch.chosen)
      BY <2>1 DEF OfChosen
    <3>1. Head(batch.todo) \in batch.chosen /\ Tail(batch.todo) \in Seq(batch.chosen)
      BY <1>1, <2>2, HeadTailProperties DEF OfChosen
    <3> QED
      BY <1>1, <2>1, <3>1 DEF OfChosen
  <2> QED
    BY <1>1, <2>1, <2>2, <2>3 DEF BatchInv
<1>3. CASE ServeItem
  <2>1. /\ IsBatch(batch') /\ batch'.kind = batch.kind /\ batch'.chosen = batch.chosen
        /\ batch'.todo = batch.todo /\ batch'.sent = batch.sent
    BY <1>1, <1>3 DEF ServeItem, IsBatch
  <2>2. files' = [d \in Server |-> files'[d]]
    BY <1>1, <1>3, ServedFolders DEF ServeItem, BatchInv
  <2> QED
    BY <1>1, <2>1, <2>2 DEF BatchInv, OfChosen
<1>4. CASE LandItem
  <2>1. /\ IsBatch(batch') /\ batch'.kind = batch.kind /\ batch'.chosen = batch.chosen
        /\ batch'.todo = batch.todo /\ batch'.sent = None /\ UNCHANGED files
    BY <1>1, <1>4 DEF LandItem, IsBatch
  <2> QED
    BY <1>1, <2>1 DEF BatchInv, OfChosen
<1> QED
  BY <1>2, <1>3, <1>4

LEMMA BatchInvNext == BatchInv /\ [Next]_pageVars => BatchInv'
<1> SUFFICES ASSUME BatchInv, \/ BrowserAsync \/ Browse \/ Select \/ Write \/ UseVault
                              \/ UNCHANGED browserVars
             PROVE  BatchInv'
  BY DEF Next, InBrowser, InEditor, InViewer, InDialog, WithSongs, InTransfer, pageVars
<1>1. CASE UNCHANGED <<files, batch>> \/ (UNCHANGED files /\ batch' = None)
  BY <1>1 DEF BatchInv
<1>2. ASSUME NEW d, NEW n, ChangedElsewhere(d, n) PROVE BatchInv'
  BY <1>2 DEF ChangedElsewhere, BatchInv
<1>3. CASE BrowserAsync
  BY <1>1, <1>3, ItemsOfChosen
  DEF BrowserAsync, serverVars, Answer, LandPrefetch, LandListing, LandFailed, LandClimb, FinishBatch,
      FinishUnlock, Decrypted
<1>4. CASE Browse \/ Select \/ UseVault
  BY <1>1, <1>2, <1>4
  DEF Browse, serverVars, Navigate, PrefetchListing, Fail, Select, Click, SelectAll, Rearrange,
      UseVault, StartUnlock, Lock, AutoLock, VaultBlobUrl
<1> QED
  BY <1>1, <1>3, <1>4, WriteOfChosen DEF browserVars

\* As long as its requests go to the folder it was started in, a batch takes nothing from a folder but
\* what was selected there when it started, whatever is selected or painted meanwhile.
THEOREM BatchKeepsToChosen == PageSpec => BatchTakesOnlyChosen
<1> DEFINE Took == \A d \in Server : \A n \in files[d] \ files'[d] :
                     writes' # writes /\ batch.sent.dir = batch.dir
                       => d = batch.dir /\ n \in batch.chosen
<1>1. ASSUME BatchInv, [Next]_pageVars PROVE [Took]_files
  <2>1. CASE ServeItem
    <3>1. /\ files' = Served(batch.kind, batch.sent.dir, batch.sent.name, batch.dest)
          /\ batch.kind \in {"move", "copy", "delete", "create", "rename"}
          /\ batch.sent # None /\ OfChosen(batch)
      BY <1>1, <2>1 DEF ServeItem, BatchInv
    <3>2. \A d \in Server : \A n \in files[d] \ files'[d] :
            d = batch.sent.dir /\ n = batch.sent.name /\ batch.kind # "create"
      BY <1>1, <3>1, ServedFolders DEF BatchInv
    <3> QED
      BY <3>1, <3>2 DEF OfChosen
  <2>2. CASE UNCHANGED files \/ UNCHANGED writes
    BY <2>2
  <2>3. ServeItem \/ UNCHANGED files \/ UNCHANGED writes
    <3> SUFFICES ASSUME BrowserAsync \/ Browse \/ Select \/ Write \/ UseVault
                 PROVE  ServeItem \/ UNCHANGED files \/ UNCHANGED writes
      BY <1>1 DEF Next, InBrowser, InEditor, InViewer, InDialog, WithSongs, InTransfer, pageVars,
                  browserVars
    <3>1. CASE BrowserAsync
      BY <3>1 DEF BrowserAsync, serverVars, Answer, LandPrefetch, LandListing, LandFailed, LandClimb,
                  SendItem, LandItem, FinishBatch, FinishUnlock, Decrypted
    <3>2. CASE Browse \/ Select \/ UseVault
      BY <3>2
      DEF Browse, serverVars, Navigate, PrefetchListing, Fail, ChangedElsewhere, Select, Click,
          SelectAll, Rearrange, UseVault, StartUnlock, Lock, AutoLock, VaultBlobUrl
    <3>3. CASE Write
      BY <3>3 DEF Write, serverVars, MoveEntriesToDir, CopyEntriesToDir, DeleteEntries, CreateFile,
                  ShowRename, StartBatch
    <3> QED
      BY <3>1, <3>2, <3>3
  <2> QED
    BY <2>1, <2>2, <2>3
<1>2. BatchInv /\ [Next]_pageVars => [Took]_files
  BY <1>1
<1>3. Init => BatchInv
  BY BatchInvInit DEF Init
<1> HIDE DEF Took
<1>4. PageSpec => [][Took]_files
  BY <1>2, <1>3, BatchInvNext, PTL DEF PageSpec
<1> QED
  BY <1>4, PTL DEF BatchTakesOnlyChosen, Took
----------------------------------------------------------------------------
(* The screen *)

\* A listing the page was navigated to, is being listed for, or was climbed to from a link.
Nav(op)  == op.kind \in {"nav", "hash", "climb"}
Deep(op) == op.kind = "climb" \/ (op.kind = "hash" /\ op.path = VaultDeep)
Inner(p) == p \in {VaultRoot, VaultDeep}

\* An open vault is listed by no request.
Request(op) ==
  /\ IsOp(op) /\ op.kind \in {"prefetch", "nav", "hash", "climb"} /\ op.seq \in 0 .. navSeq
  /\ op.path \in Path
  /\ op.kind \in {"nav", "prefetch"} => op.path # VaultDeep
  /\ op.kind = "climb" => op.path = VaultRoot
  /\ op.path = VaultDeep => op.reply \in {None, Failed}
  /\ vault.open /\ Nav(op) => ~Inner(op.path)

Requests ==
  /\ navSeq \in Nat
  /\ \A op \in ops : Request(op)
  /\ \A o, p \in ops : Nav(o) /\ Nav(p) /\ o.seq = p.seq => o = p

\* The vault's own rows are not among the server's.
OnScreen ==
  /\ cur \in Path /\ (inVault <=> Inner(cur))
  /\ cur = VaultDeep => vault.open
  /\ inVault => all = {}

BatchForm == selected \subseteq Name /\ (batch # None => batch \in Batches)

\* The batch under way has written, and will list the folder again.
Dirty == batch # None /\ (batch.done > 0 \/ (batch.sent # None /\ batch.reply = "ok"))
UpToDate(names, p) == names = files[p] \/ p \in unseen \/ Dirty

\* The listing the page waits for.
Awaited(op) == Nav(op) /\ op.seq = navSeq
Deeper == \E op \in ops : Deep(op)

\* What is awaited is of the folder asked for and will be true of it, and what it was painted from is
\* on screen; when nothing is awaited, the folder asked for is on screen.  A link into a locked vault
\* ends at the vault whatever is asked meanwhile, and is then awaited wherever the page is.
AwaitedIsAsked ==
  \A op \in ops : Awaited(op) =>
    /\ op.path = asked
    /\ op.from # None => cur = asked /\ (inVault \/ all = op.from.names)
    /\ op.reply \notin {None, Failed} => Inner(asked) \/ UpToDate(op.reply.names, asked)
ShownIsAsked == (\A op \in ops : ~Awaited(op)) => cur = asked /\ (inVault \/ UpToDate(all, cur))
ClimbIsAsked == asked = VaultDeep => \A op \in ops : Awaited(op) /\ ~Deep(op) => op.path = VaultRoot

Bound == IF Deeper THEN ClimbIsAsked ELSE AwaitedIsAsked /\ ShownIsAsked

Settling == Requests /\ OnScreen /\ BatchForm /\ Bound
SettledInv == strayed \/ Settling

LEMMA SettledInvInit == BrowserInit => SettledInv
<1> SUFFICES ASSUME BrowserInit PROVE Settling
  BY DEF SettledInv
<1>1. ops = {} /\ navSeq = 0 /\ cur = Home /\ asked = Home /\ inVault = FALSE /\ selected = {} /\ batch = None
      /\ all = files[Home]
  BY DEF BrowserInit
<1>2. Home \in Path /\ ~Inner(Home)
  BY BrowserAssumption DEF Path, Inner
<1> QED
  BY <1>1, <1>2, BrowserAssumption
  DEF Settling, Requests, OnScreen, BatchForm, Bound, Deeper, AwaitedIsAsked, ShownIsAsked, UpToDate, Inner

LEMMA SettledSuffices == SettledInv => SettledScreenIsTrue
<1> SUFFICES ASSUME Settling, Quiet
             PROVE  cur = asked /\ (cur \notin unseen => all = IF inVault THEN {} ELSE files[cur])
  BY DEF SettledInv, SettledScreenIsTrue, Quiet
<1>1. ops = {} /\ batch = None
  BY DEF Quiet
<1> QED
  BY <1>1 DEF Settling, Bound, Deeper, ShownIsAsked, UpToDate, Dirty, OnScreen

\* Steps at the requests and the screen of which nothing changes.
LEMMA StillSettles ==
  ASSUME Settling, BatchForm', UNCHANGED <<navSeq, ops, cur, inVault, all, asked>>,
         vault'.open => vault.open, cur = VaultDeep => vault'.open,
         \A names : \A p \in Server : UpToDate(names, p) => UpToDate(names, p)'
  PROVE  Settling'
<1>1. Requests'
  <2>1. \A op \in ops : Request(op)'
    BY DEF Settling, Requests, Request, Nav, Inner
  <2> QED
    BY <2>1 DEF Settling, Requests, Nav
<1>2. OnScreen'
  BY DEF Settling, OnScreen, Inner
<1>3. (Deeper' <=> Deeper) /\ (ClimbIsAsked' <=> ClimbIsAsked)
  BY DEF Deeper, Deep, ClimbIsAsked, Awaited, Nav
<1>4. ASSUME AwaitedIsAsked PROVE AwaitedIsAsked'
  <2> SUFFICES ASSUME NEW op \in ops, Awaited(op)
               PROVE  /\ op.path = asked
                      /\ op.from # None => cur = asked /\ (inVault \/ all = op.from.names)
                      /\ op.reply \notin {None, Failed} => Inner(asked) \/ UpToDate(op.reply.names, asked)'
    BY DEF AwaitedIsAsked, Awaited, Nav, Inner
  <2>1. op.path \in Path
    BY DEF Settling, Requests, Request
  <2> QED
    BY <1>4, <2>1 DEF AwaitedIsAsked, Path, Inner
<1>5. ASSUME ShownIsAsked PROVE ShownIsAsked'
  <2>1. inVault \/ cur \in Server
    BY DEF Settling, OnScreen, Path, Inner
  <2> QED
    BY <1>5, <2>1 DEF ShownIsAsked, Awaited, Nav
<1>6. Bound'
  BY <1>3, <1>4, <1>5 DEF Settling, Bound
<1> QED
  BY <1>1, <1>2, <1>6 DEF Settling

\* A request has come one stage further: an answer, a failure, or the climb to the vault.
Further(op, q) ==
  /\ IsOp(q) /\ q.seq = op.seq /\ q.from = op.from
  /\ \/ q.kind = op.kind /\ q.path = op.path
     \/ q.kind = "climb" /\ q.path = VaultRoot /\ op.kind = "hash" /\ op.path = VaultDeep
  /\ q.path = VaultDeep => q.reply \in {None, Failed}
  /\ q.reply \in {None, Failed} \/ Inner(q.path) \/ ~Awaited(op) \/ q.reply.names = files[q.path]

LEMMA AnswerSettles ==
  ASSUME Settling, NEW op \in ops, NEW q, Further(op, q), ops' = (ops \ {op}) \cup {q},
         UNCHANGED <<files, navSeq, cur, inVault, all, selected, vault, asked, batch>>,
         unseen' = unseen \/ (Awaited(op) /\ unseen' = unseen \ {op.path})
  PROVE  Settling'
<1>1. /\ Nav(q) <=> Nav(op)
      /\ Deep(q) <=> Deep(op)
      /\ Awaited(q) <=> Awaited(op)
  BY DEF Further, Nav, Deep, Awaited
<1>2. Request(op)
  BY DEF Settling, Requests
<1>3. Requests'
  <2>1. Request(q)
    BY <1>1, <1>2, BrowserAssumption DEF Request, Further, Nav, Inner, Path
  <2>2. \A o \in ops' : Request(o)
    BY <2>1 DEF Settling, Requests
  <2>3. \A o \in ops' : Request(o)'
    BY <2>2 DEF Request, Nav, Inner
  <2>4. \A o, p \in ops' : Nav(o) /\ Nav(p) /\ o.seq = p.seq => o = p
    BY <1>1 DEF Settling, Requests, Further
  <2> QED
    BY <2>3, <2>4 DEF Settling, Requests, Nav
<1>4. OnScreen' /\ BatchForm'
  BY DEF Settling, OnScreen, BatchForm, Inner
<1>5. Deeper' <=> Deeper
  BY <1>1 DEF Deeper, Deep
<1>6. \A o : Awaited(o)' <=> Awaited(o)
  BY DEF Awaited, Nav
<1>7. ASSUME Deeper, ClimbIsAsked PROVE ClimbIsAsked'
  BY <1>1, <1>6, <1>7 DEF ClimbIsAsked, Further, Deep
<1>8. ASSUME ~Deeper, AwaitedIsAsked PROVE AwaitedIsAsked'
  <2> SUFFICES ASSUME NEW o \in ops', Awaited(o)
               PROVE  /\ o.path = asked
                      /\ o.from # None => cur = asked /\ (inVault \/ all = o.from.names)
                      /\ o.reply \notin {None, Failed} => Inner(asked) \/ UpToDate(o.reply.names, asked)'
    BY <1>6 DEF AwaitedIsAsked, Inner
  <2>1. CASE o = q
    <3>1. Awaited(op) /\ q.path = op.path /\ q.from = op.from
      BY <1>1, <1>8, <2>1 DEF Further, Deeper, Deep
    <3>2. o.reply \notin {None, Failed} => Inner(asked) \/ o.reply.names = files[asked]
      BY <1>8, <2>1, <3>1 DEF Further, AwaitedIsAsked
    <3> QED
      BY <1>8, <2>1, <3>1, <3>2 DEF AwaitedIsAsked, UpToDate
  <2>2. CASE o # q
    <3>1. o \in ops /\ o # op
      BY <2>2
    <3>2. ~Awaited(op)
      BY <3>1 DEF Settling, Requests, Awaited
    <3> QED
      BY <1>8, <3>1, <3>2 DEF AwaitedIsAsked, UpToDate, Dirty
  <2> QED
    BY <2>1, <2>2
<1>9. ASSUME ShownIsAsked PROVE ShownIsAsked'
  <2> SUFFICES ASSUME \A o \in ops' : ~Awaited(o)
               PROVE  cur = asked /\ (inVault \/ UpToDate(all, cur)')
    BY <1>6 DEF ShownIsAsked
  <2>1. ~Awaited(op) /\ \A o \in ops : ~Awaited(o)
    BY <1>1
  <2> QED
    BY <1>9, <2>1 DEF ShownIsAsked, UpToDate, Dirty
<1>10. Bound'
  BY <1>5, <1>7, <1>8, <1>9 DEF Settling, Bound
<1> QED
  BY <1>3, <1>4, <1>10 DEF Settling

\* An answer nobody waits for is done with.
LEMMA ForgottenSettles ==
  ASSUME Settling, NEW op \in ops, ~Awaited(op), ~Deep(op), ops' = ops \ {op},
         UNCHANGED <<files, navSeq, cur, inVault, all, selected, vault, asked, batch, unseen>>
  PROVE  Settling'
<1>1. Requests'
  <2>1. \A o \in ops : Request(o)'
    BY DEF Settling, Requests, Request, Nav, Inner
  <2> QED
    BY <2>1 DEF Settling, Requests, Nav
<1>2. OnScreen' /\ BatchForm'
  BY DEF Settling, OnScreen, BatchForm, Inner
<1>3. Deeper' <=> Deeper
  BY DEF Deeper, Deep
<1>4. \A o : Awaited(o)' <=> Awaited(o)
  BY DEF Awaited, Nav
<1>5. ClimbIsAsked => ClimbIsAsked'
  BY <1>4 DEF ClimbIsAsked, Deep
<1>6. ASSUME AwaitedIsAsked PROVE AwaitedIsAsked'
  <2> SUFFICES ASSUME NEW o \in ops', Awaited(o)
               PROVE  /\ o.path = asked
                      /\ o.from # None => cur = asked /\ (inVault \/ all = o.from.names)
                      /\ o.reply \notin {None, Failed} => Inner(asked) \/ UpToDate(o.reply.names, asked)'
    BY <1>4 DEF AwaitedIsAsked, Inner
  <2> QED
    BY <1>6 DEF AwaitedIsAsked, UpToDate, Dirty
<1>7. ASSUME ShownIsAsked PROVE ShownIsAsked'
  <2>1. (\A o \in ops' : ~Awaited(o)) => \A o \in ops : ~Awaited(o)
    OBVIOUS
  <2> QED
    BY <1>4, <1>7, <2>1 DEF ShownIsAsked, UpToDate, Dirty
<1>8. Bound'
  BY <1>3, <1>5, <1>6, <1>7 DEF Settling, Bound
<1> QED
  BY <1>1, <1>2, <1>8 DEF Settling

LEMMA ApplyPaints ==
  ASSUME NEW p, NEW names, NEW keep, NEW v, IsVault(v), ApplyListing(p, names, keep, v)
  PROVE  /\ cur' = p /\ (inVault' <=> Inner(p)) /\ (Inner(p) \/ all' = names)
         /\ Inner(p) => all' = IF v.open THEN names ELSE {}
         /\ vault'.open = v.open
         /\ selected' \subseteq selected
<1>1. vault' = v \/ vault' = [v EXCEPT !.gen = @ + 1, !.url = FALSE]
  BY DEF ApplyListing, Released
<1>2. vault'.open = v.open
  BY <1>1 DEF IsVault
<1> QED
  BY <1>2 DEF ApplyListing, Inner

\* What an answer that is waited for leaves on screen is what was asked for.
LEMMA LandedIsShown ==
  ASSUME NEW op \in ops, LandListing(op), Settling, VInv, Awaited(op), ~Deep(op)
  PROVE  /\ selected' \subseteq selected /\ vault'.open = vault.open
         /\ \/ cur' = op.path /\ (inVault' <=> Inner(op.path))
               /\ IF Inner(op.path) THEN all' = {} ELSE all' = op.reply.names
            \/ op.from # None /\ UNCHANGED <<cur, inVault, all>>
               /\ (cur # op.path \/ op.reply.names = op.from.names)
<1>1. IsVault(vault) /\ Request(op)
  BY DEF VInv, Generations, Settling, Requests
<1>2. Inner(op.path) => ~vault.open
  BY <1>1 DEF Request, Awaited
<1>3. ASSUME NEW keep, ApplyListing(op.path, op.reply.names, keep, vault)
      PROVE  /\ selected' \subseteq selected /\ vault'.open = vault.open
             /\ cur' = op.path /\ (inVault' <=> Inner(op.path))
             /\ IF Inner(op.path) THEN all' = {} ELSE all' = op.reply.names
  BY <1>1, <1>2, <1>3, ApplyPaints
<1>4. CASE op.from # None
  <2>1. RefreshListing(op.path, op.from.names, op.reply.names)
    BY <1>4 DEF LandListing, Awaited
  <2>2. CASE UNCHANGED <<screenVars, vault>> /\ (cur # op.path \/ op.reply.names = op.from.names)
    BY <1>4, <2>2 DEF screenVars
  <2> QED
    BY <1>3, <2>1, <2>2 DEF RefreshListing
<1>5. CASE op.from = None
  <2>1. ApplyListing(op.path, op.reply.names, FALSE, vault)
    BY <1>5 DEF LandListing, Awaited
  <2> QED
    BY <1>3, <2>1
<1> QED
  BY <1>4, <1>5

LEMMA LandSettles ==
  ASSUME NEW op \in ops, LandListing(op), Settling, VInv
  PROVE  Settling'
<1>1. /\ ops' = ops \ {op} /\ op.reply \notin {None, Failed} /\ op.kind \in {"nav", "hash"}
      /\ UNCHANGED <<files, navSeq, asked, batch, unseen>>
  BY DEF LandListing, serverVars, wishVars
<1>2. Request(op)
  BY DEF Settling, Requests
<1>3. ~Deep(op) /\ op.path \in Server
  BY <1>1, <1>2 DEF Deep, Request, Path
<1>4. CASE ~Awaited(op)
  <2>1. UNCHANGED <<cur, inVault, all, selected, vault>>
    BY <1>1, <1>4 DEF LandListing, screenVars, Awaited, Nav
  <2> QED
    BY <1>1, <1>3, <1>4, <2>1, ForgottenSettles
<1>5. CASE Awaited(op)
  <2>1. /\ selected' \subseteq selected /\ vault'.open = vault.open
        /\ \/ cur' = op.path /\ (inVault' <=> Inner(op.path))
              /\ IF Inner(op.path) THEN all' = {} ELSE all' = op.reply.names
           \/ op.from # None /\ UNCHANGED <<cur, inVault, all>>
              /\ (cur # op.path \/ op.reply.names = op.from.names)
    BY <1>3, <1>5, LandedIsShown
  <2>2. Requests'
    <3>1. \A o \in ops : Request(o)'
      BY <1>1, <2>1 DEF Settling, Requests, Request, Nav, Inner
    <3> QED
      BY <1>1, <3>1 DEF Settling, Requests, Nav
  <2>3. OnScreen'
    BY <1>3, <2>1, BrowserAssumption DEF Settling, OnScreen, Inner, Path
  <2>4. BatchForm'
    BY <1>1, <2>1 DEF Settling, BatchForm
  <2>5. \A o \in ops' : ~Awaited(o)'
    BY <1>1, <1>5 DEF Settling, Requests, Awaited, Nav
  <2>6. Deeper' <=> Deeper
    BY <1>1, <1>3 DEF Deeper, Deep
  <2>7. ASSUME ~Deeper, AwaitedIsAsked PROVE ShownIsAsked'
    <3>1. /\ op.path = asked /\ (op.from # None => cur = asked /\ (inVault \/ all = op.from.names))
          /\ Inner(asked) \/ UpToDate(op.reply.names, asked)
      BY <1>1, <1>5, <2>7 DEF AwaitedIsAsked
    <3>2. cur' = asked /\ (inVault' \/ all' = op.reply.names)
      BY <2>1, <3>1
    <3>3. inVault' <=> Inner(asked)
      BY <2>3, <3>2 DEF OnScreen, Inner
    <3> QED
      BY <1>1, <3>1, <3>2, <3>3 DEF ShownIsAsked, UpToDate, Dirty
  <2>8. Bound'
    BY <2>5, <2>6, <2>7 DEF Settling, Bound, AwaitedIsAsked, ClimbIsAsked
  <2> QED
    BY <2>2, <2>3, <2>4, <2>8 DEF Settling
<1> QED
  BY <1>4, <1>5

\* A climb ends at the vault's own folder, which is then what was asked for.
LEMMA ClimbSettles ==
  ASSUME NEW op \in ops, LandClimb(op), ~strayed', Settling, VInv
  PROVE  Settling'
<1>1. /\ ops' = ops \ {op} /\ op.kind = "climb" /\ asked = VaultDeep /\ asked' = op.path
      /\ cur' = op.path /\ inVault' = TRUE /\ all' = {} /\ selected' = {}
      /\ UNCHANGED <<files, navSeq, batch, unseen>>
  BY DEF LandClimb, serverVars
<1>2. Request(op) /\ op.path = VaultRoot /\ VaultRoot \in Path /\ VaultRoot # VaultDeep /\ Deep(op)
  BY <1>1, BrowserAssumption DEF Settling, Requests, Request, Path, Deep
<1>3. vault'.open = vault.open
  <2> DEFINE v == IF vault.open THEN vault ELSE Released(vault)
  <2>1. IsVault(v) /\ v.open = vault.open
    BY ReleasedEmpty DEF VInv, Generations
  <2>2. vault' = [v EXCEPT !.pending = VaultDeep]
    BY DEF LandClimb
  <2> HIDE DEF v
  <2> QED
    BY <2>1, <2>2 DEF IsVault
<1>4. Requests'
  <2>1. \A o \in ops : Request(o)'
    BY <1>1, <1>3 DEF Settling, Requests, Request, Nav, Inner
  <2> QED
    BY <1>1, <2>1 DEF Settling, Requests, Nav
<1>5. OnScreen' /\ BatchForm'
  BY <1>1, <1>2 DEF Settling, OnScreen, BatchForm, Inner
<1>6. ClimbIsAsked
  BY <1>1, <1>2 DEF Settling, Bound, Deeper
<1>7. ASSUME ~Deeper' PROVE AwaitedIsAsked' /\ ShownIsAsked'
  <2>1. \A o \in ops' : Awaited(o)' => o.path = VaultRoot
    BY <1>1, <1>6, <1>7 DEF ClimbIsAsked, Awaited, Nav, Deeper, Deep
  <2> QED
    BY <1>1, <1>2, <2>1 DEF AwaitedIsAsked, ShownIsAsked, Inner
<1>8. Bound'
  BY <1>1, <1>2, <1>7 DEF Bound, ClimbIsAsked
<1> QED
  BY <1>4, <1>5, <1>8 DEF Settling

\* The page is navigated to a folder that the server is asked for: its cached rows are painted, if any.
LEMMA AskSettles ==
  ASSUME NEW p \in Path, NEW kind \in {"nav", "hash"}, NEW v, NEW chosen, Settling, IsVault(v),
         Go(p, kind, v, chosen), ~(v.open /\ Inner(p)), p \in Server \/ kind = "hash",
         chosen \subseteq selected, batch' \in {batch, None},
         v.open => vault.open \/ ops = {}, v.open \/ cur # VaultDeep,
         ~Deeper => asked' = p,
         asked' = VaultDeep => p \in {VaultRoot, VaultDeep}
  PROVE  Settling'
<1>1. PICK q : q = Op(kind, p, IF p \in Server THEN cache[p] ELSE None)
  OBVIOUS
<1>2. navSeq' = navSeq + 1 /\ ops' = ops \cup {q}
  BY <1>1 DEF Go, Ask, Inner
<1>3. /\ IsOp(q) /\ q.kind = kind /\ q.path = p /\ q.seq = navSeq' /\ q.reply = None
      /\ q.from # None => p \in Server /\ q.from = cache[p]
  BY <1>1 DEF Op, IsOp
<1>4. /\ vault'.open = v.open /\ selected' \subseteq selected
      /\ \/ UNCHANGED <<cur, inVault, all>> /\ q.from = None
         \/ /\ cur' = p /\ (inVault' <=> Inner(p)) /\ p \in Server
            /\ Inner(p) => all' = {}
            /\ Inner(p) \/ all' = q.from.names
  <2>1. CASE p \in Server /\ cache[p] # None
    <3>1. ApplyListing(p, cache[p].names, FALSE, v)
      BY <2>1 DEF Go, Inner
    <3> QED
      BY <1>1, <2>1, <3>1, ApplyPaints DEF Op
  <2>2. CASE ~(p \in Server /\ cache[p] # None)
    BY <1>1, <2>2 DEF Go, Inner, Op
  <2> QED
    BY <2>1, <2>2
<1>5. navSeq \in Nat /\ \A o \in ops : Request(o) /\ o.seq < navSeq'
  BY <1>2 DEF Settling, Requests, Request
<1>6. Nav(q) /\ (Deep(q) <=> p = VaultDeep)
  <2>1. kind # "nav" \/ p # VaultDeep
    BY BrowserAssumption
  <2> QED
    BY <1>3, <2>1 DEF Nav, Deep
<1>7. Requests'
  <2>1. Request(q)'
    BY <1>3, <1>4, <1>5, <1>2, BrowserAssumption DEF Request, Inner, IsOp
  <2>2. ASSUME NEW o \in ops PROVE Request(o)'
    BY <1>2, <1>4, <1>5 DEF Request, Inner, Nav
  <2>3. \A o, r \in ops' : Nav(o) /\ Nav(r) /\ o.seq = r.seq => o = r
    BY <1>2, <1>3, <1>5 DEF Settling, Requests
  <2> QED
    BY <1>2, <1>5, <2>1, <2>2, <2>3 DEF Requests, Nav
<1>8. OnScreen'
  <2>1. p \in Server => p # VaultDeep
    BY BrowserAssumption
  <2> QED
    BY <1>4, <2>1 DEF Settling, OnScreen, Inner
<1>9. BatchForm'
  BY <1>4 DEF Settling, BatchForm
<1>10. \A o \in ops' : Awaited(o)' <=> o = q
  BY <1>2, <1>3, <1>5, <1>6 DEF Awaited, Nav
<1>11. Deeper' <=> Deeper \/ p = VaultDeep
  BY <1>2, <1>6 DEF Deeper, Deep
<1>12. ClimbIsAsked'
  BY <1>3, <1>6, <1>10 DEF ClimbIsAsked, Deep
<1>13. ASSUME ~Deeper' PROVE AwaitedIsAsked' /\ ShownIsAsked'
  <2>1. asked' = p
    BY <1>11, <1>13
  <2>2. q.from # None => cur' = p /\ (inVault' \/ all' = q.from.names)
    BY <1>4
  <2> QED
    BY <1>2, <1>3, <1>10, <2>1, <2>2 DEF AwaitedIsAsked, ShownIsAsked
<1> QED
  BY <1>7, <1>8, <1>9, <1>12, <1>13 DEF Settling, Bound

\* An open vault is shown from its index, with nothing awaited.
LEMMA CoverSettles ==
  ASSUME NEW p, NEW kind, NEW v, NEW chosen, Settling, IsVault(v),
         Go(p, kind, v, chosen), v.open /\ Inner(p), batch' \in {batch, None},
         vault.open \/ ops = {}, asked' = p,
         ~Deeper, \A op \in ops : ~Awaited(op)
  PROVE  Settling'
<1>1. UNCHANGED <<navSeq, ops>> /\ ApplyListing(p, {}, FALSE, v)
  BY DEF Go, ApplyVaultListing, Inner
<1>2. /\ cur' = p /\ inVault' /\ all' = {} /\ vault'.open /\ selected' \subseteq selected
  BY <1>1, ApplyPaints
<1>3. Requests'
  <2>1. \A o \in ops : Request(o)'
    BY <1>1, <1>2 DEF Settling, Requests, Request, Nav, Inner
  <2> QED
    BY <1>1, <2>1 DEF Settling, Requests, Nav
<1>4. OnScreen' /\ BatchForm'
  BY <1>2, BrowserAssumption DEF Settling, OnScreen, BatchForm, Inner, Path
<1>5. ~Deeper' /\ \A op \in ops' : ~Awaited(op)'
  BY <1>1 DEF Deeper, Deep, Awaited, Nav
<1>6. Bound'
  BY <1>2, <1>5 DEF Bound, AwaitedIsAsked, ShownIsAsked
<1> QED
  BY <1>3, <1>4, <1>6 DEF Settling

LEMMA NavigateSettles ==
  ASSUME NEW p \in Path, NEW kind \in {"nav", "hash"}, Navigate(p, kind), ~strayed', Settling, VInv
  PROVE  Settling'
<1>1. /\ Go(p, kind, vault, selected) /\ asked' = p /\ (Covers(p) => ops = {})
      /\ kind = "hash" \/ Covers(p) \/ p \in Server
      /\ UNCHANGED <<files, batch, unseen>>
  BY DEF Navigate, serverVars
<1>2. IsVault(vault)
  BY DEF VInv, Generations
<1>3. Covers(p) <=> vault.open /\ Inner(p)
  BY DEF Covers, Inner
<1>4. CASE Covers(p)
  <2>1. ~Deeper /\ \A op \in ops : ~Awaited(op)
    BY <1>1, <1>4 DEF Deeper
  <2> QED
    BY <1>1, <1>2, <1>3, <1>4, <2>1, CoverSettles
<1>5. CASE ~Covers(p)
  <2>1. vault.open \/ cur # VaultDeep
    BY DEF Settling, OnScreen
  <2> QED
    BY <1>1, <1>2, <1>3, <1>5, <2>1, AskSettles
<1> QED
  BY <1>4, <1>5

LEMMA UnlockSettles ==
  ASSUME FinishUnlock, ~strayed', Settling, VInv
  PROVE  Settling'
<1> DEFINE w == [vault EXCEPT !.open = TRUE, !.unlocking = FALSE, !.pending = None]
<1>1. PICK v : v = w
  OBVIOUS
<1>2. PICK target : target = IF vault.pending # None THEN vault.pending ELSE cur
  OBVIOUS
<1>3. /\ Go(target, "nav", v, selected) /\ asked' = (IF target = VaultDeep THEN target ELSE asked)
      /\ ops = {} /\ UNCHANGED <<files, batch, unseen>>
  BY <1>1, <1>2 DEF FinishUnlock, serverVars
<1>4. IsVault(v) /\ v.open /\ vault.pending \in {None, VaultDeep}
  BY <1>1 DEF VInv, Generations, IsVault
<1>5. ~Deeper /\ (\A op \in ops : ~Awaited(op)) /\ cur = asked
  BY <1>3 DEF Settling, Bound, Deeper, ShownIsAsked
<1>6. asked' = target /\ target \in Path
  BY <1>2, <1>3, <1>4, <1>5 DEF Settling, OnScreen, Path
<1>7. CASE Inner(target)
  BY <1>3, <1>4, <1>5, <1>6, <1>7, CoverSettles
<1>8. CASE ~Inner(target)
  <2>1. target \in Server
    BY <1>6, <1>8 DEF Path, Inner
  <2> QED
    BY <1>3, <1>4, <1>5, <1>6, <1>8, <2>1, AskSettles DEF Inner
<1> QED
  BY <1>7, <1>8

\* The folder that is listed again after a batch is the one asked for, or the vault being climbed to.
LEMMA FinishSettles ==
  ASSUME FinishBatch, ~strayed', Settling, VInv, \/ batch.done > 0
                                                  \/ batch.kind = "delete"
  PROVE  Settling'
<1>1. PICK chosen : Go(cur, "nav", vault, chosen) /\ chosen \subseteq selected
  <2>1. Go(cur, "nav", vault, IF batch.kind \in {"create", "rename"} THEN selected ELSE {})
    BY DEF FinishBatch
  <2> QED
    BY <2>1
<1>2. ~Overtaken(cur) /\ batch' = None /\ asked' = asked
  BY DEF FinishBatch
<1>3. /\ IsVault(vault) /\ cur \in Path
      /\ \A op \in ops : Request(op) /\ (Nav(op) => op.path = cur)
  BY <1>2 DEF VInv, Generations, Settling, OnScreen, Requests, Overtaken, Nav
<1>4. ASSUME ~Deeper PROVE cur = asked
  <2>1. AwaitedIsAsked /\ ShownIsAsked
    BY <1>4 DEF Settling, Bound
  <2> QED
    BY <1>3, <2>1 DEF AwaitedIsAsked, ShownIsAsked, Awaited
<1>5. ASSUME Deeper PROVE Inner(cur) /\ ~vault.open
  BY <1>3, <1>5 DEF Deeper, Deep, Request, Nav, Inner
<1>6. CASE vault.open /\ Inner(cur)
  <2>1. ~Deeper /\ \A op \in ops : ~Awaited(op)
    BY <1>3, <1>5, <1>6 DEF Request, Awaited
  <2> QED
    BY <1>1, <1>2, <1>3, <1>4, <1>6, <2>1, CoverSettles
<1>7. CASE ~(vault.open /\ Inner(cur))
  <2>1. cur # VaultDeep /\ cur \in Server
    BY <1>3, <1>7 DEF Settling, OnScreen, Inner, Path
  <2>2. asked' = VaultDeep => cur \in {VaultRoot, VaultDeep}
    BY <1>2, <1>4, <1>5 DEF Inner
  <2> QED
    BY <1>1, <1>2, <1>3, <1>4, <1>7, <2>1, <2>2, AskSettles
<1> QED
  BY <1>6, <1>7

\* The page is left at the vault's own folder, with nothing on its way.
LEMMA LockSettles ==
  ASSUME LockVault, inVault, inVault' = inVault, ~strayed', Settling, VInv,
         UNCHANGED <<files, navSeq, ops, batch, unseen>>
  PROVE  Settling'
<1>1. /\ ops = {} /\ cur' = VaultRoot /\ asked' = VaultRoot /\ all' = {} /\ selected' = {}
      /\ VaultRoot \in Path /\ VaultRoot # VaultDeep
  BY BrowserAssumption DEF LockVault, Path
<1>2. Requests' /\ OnScreen' /\ BatchForm'
  BY <1>1 DEF Settling, Requests, OnScreen, BatchForm, Inner
<1>3. Bound'
  BY <1>1 DEF Bound, Deeper, AwaitedIsAsked, ShownIsAsked
<1> QED
  BY <1>2, <1>3 DEF Settling

\* What changes nothing but what is on its way, and how far.
LEMMA ReplySettles ==
  ASSUME NEW op \in ops, Answer(op) \/ Fail(op) \/ LandFailed(op) \/ LandPrefetch(op), ~strayed', Settling
  PROVE  Settling'
<1>1. Request(op) /\ IsOp(op)
  BY DEF Settling, Requests, Request
<1>2. UNCHANGED <<files, navSeq, cur, inVault, all, selected, vault, asked, batch>>
  BY DEF Answer, Fail, LandFailed, LandPrefetch, serverVars, screenVars, wishVars
<1>3. CASE Answer(op)
  <2>1. PICK q : q = [op EXCEPT !.reply = IF op.path = VaultDeep THEN Failed
                                          ELSE [names |-> files[op.path], at |-> writes]]
    OBVIOUS
  <2>2. Further(op, q)
    BY <1>1, <2>1 DEF Further, IsOp
  <2>3. unseen' = unseen \/ (Awaited(op) /\ unseen' = unseen \ {op.path})
    BY <1>3 DEF Answer, Awaited, Nav
  <2> QED
    BY <1>2, <1>3, <2>1, <2>2, <2>3, AnswerSettles DEF Answer
<1>4. CASE Fail(op)
  <2>1. PICK q : q = [op EXCEPT !.reply = Failed]
    OBVIOUS
  <2>2. Further(op, q)
    BY <1>1, <2>1 DEF Further, IsOp
  <2> QED
    BY <1>2, <1>4, <2>1, <2>2, AnswerSettles DEF Fail, wishVars
<1>5. CASE LandFailed(op)
  <2>1. PICK q : q = [op EXCEPT !.kind = "climb", !.path = Parent(op.path), !.reply = None]
    OBVIOUS
  <2>2. op.kind = "hash" /\ op.path = VaultDeep /\ ops' = (ops \ {op}) \cup {q} /\ UNCHANGED unseen
    BY <1>5, <2>1 DEF LandFailed, Parent
  <2>3. Further(op, q)
    BY <1>1, <2>1, <2>2 DEF Further, IsOp, Parent
  <2> QED
    BY <1>2, <2>2, <2>3, AnswerSettles
<1>6. CASE LandPrefetch(op)
  BY <1>2, <1>6, ForgottenSettles DEF LandPrefetch, Awaited, Deep, Nav, wishVars
<1> QED
  BY <1>3, <1>4, <1>5, <1>6

LEMMA PrefetchSettles ==
  ASSUME NEW p \in Server, PrefetchListing(p), Settling
  PROVE  Settling'
<1>1. PICK q : q = Op("prefetch", p, None)
  OBVIOUS
<1>2. /\ ops' = ops \cup {q}
      /\ UNCHANGED <<files, navSeq, cur, inVault, all, selected, vault, asked, batch, unseen>>
  BY <1>1 DEF PrefetchListing, Ask, serverVars, screenVars, wishVars
<1>3. /\ IsOp(q) /\ q.kind = "prefetch" /\ q.path = p /\ q.seq = navSeq /\ q.reply = None
      /\ ~Nav(q) /\ ~Deep(q) /\ ~Awaited(q)
  BY <1>1, <1>2 DEF Op, IsOp, Nav, Deep, Awaited
<1>4. Requests'
  <2>1. Request(q)
    BY <1>3, BrowserAssumption DEF Settling, Requests, Request, Path
  <2>2. \A o \in ops' : Request(o)
    BY <1>2, <2>1 DEF Settling, Requests
  <2>3. \A o \in ops' : Request(o)'
    BY <1>2, <2>2 DEF Request, Nav, Inner
  <2> QED
    BY <1>2, <1>3, <2>3 DEF Settling, Requests, Nav
<1>5. OnScreen' /\ BatchForm'
  BY <1>2 DEF Settling, OnScreen, BatchForm, Inner
<1>6. /\ Deeper' <=> Deeper
      /\ \A o : Awaited(o)' <=> Awaited(o)
  BY <1>2, <1>3 DEF Deeper, Deep, Awaited, Nav
<1>7. ClimbIsAsked => ClimbIsAsked'
  BY <1>2, <1>3, <1>6 DEF ClimbIsAsked, Deep
<1>8. ASSUME AwaitedIsAsked PROVE AwaitedIsAsked'
  <2> SUFFICES ASSUME NEW o \in ops', Awaited(o)
               PROVE  /\ o.path = asked
                      /\ o.from # None => cur = asked /\ (inVault \/ all = o.from.names)
                      /\ o.reply \notin {None, Failed} => Inner(asked) \/ UpToDate(o.reply.names, asked)'
    BY <1>2, <1>6 DEF AwaitedIsAsked, Inner
  <2> QED
    BY <1>2, <1>3, <1>8 DEF AwaitedIsAsked, UpToDate, Dirty
<1>9. ASSUME ShownIsAsked PROVE ShownIsAsked'
  <2>1. (\A o \in ops' : ~Awaited(o)) => \A o \in ops : ~Awaited(o)
    BY <1>2
  <2> QED
    BY <1>2, <1>6, <1>9, <2>1 DEF ShownIsAsked, UpToDate, Dirty
<1>10. Bound'
  BY <1>6, <1>7, <1>8, <1>9 DEF Settling, Bound
<1> QED
  BY <1>4, <1>5, <1>10 DEF Settling

\* The batch under way, step by step.
LEMMA WriteSettles == ASSUME Settling, Write PROVE Settling'
<1>1. selected \subseteq Name /\ cur \in Path
  BY DEF Settling, BatchForm, OnScreen
<1>2. Chosen \in Seq(Name)
  <2>1. Chosen \in Seq(Rows \cap selected)
    BY SortedRows DEF Chosen, Rows
  <2> QED
    BY <1>1, <2>1
<1>3. ASSUME NEW kind \in {"move", "copy", "delete", "create", "rename"}, NEW todo \in Seq(Name),
             NEW dest \in Plain \cup Name \cup {None}, StartBatch(kind, todo, dest)
      PROVE  Settling'
  <2>1. batch' = [kind |-> kind, todo |-> todo, dest |-> dest, sent |-> None, reply |-> None,
                  dir |-> cur, chosen |-> selected, done |-> 0]
        /\ cur \in Plain /\ batch = None
    BY <1>3 DEF StartBatch
  <2>2. batch' \in Batches
    BY <1>1, <2>1 DEF Batches
  <2>3. /\ UNCHANGED <<files, navSeq, ops, cur, inVault, all, selected, asked, vault, unseen>>
    BY <1>3 DEF StartBatch, serverVars, screenVars, wishVars
  <2>4. ~Dirty
    BY <2>1 DEF Dirty
  <2>5. BatchForm' /\ (cur = VaultDeep => vault.open)
    BY <1>1, <2>2, <2>3 DEF BatchForm, Settling, OnScreen
  <2>6. \A names : \A p \in Server : UpToDate(names, p) => UpToDate(names, p)'
    BY <2>3, <2>4 DEF UpToDate
  <2> QED
    BY <2>3, <2>5, <2>6, StillSettles
<1>4. ASSUME NEW dest \in Plain, MoveEntriesToDir(dest) \/ CopyEntriesToDir(dest) PROVE Settling'
  BY <1>2, <1>3, <1>4 DEF MoveEntriesToDir, CopyEntriesToDir
<1>5. CASE DeleteEntries
  BY <1>2, <1>3, <1>5 DEF DeleteEntries
<1>6. ASSUME NEW n \in Name, CreateFile(n) PROVE Settling'
  <2>1. <<n>> \in Seq(Name)
    OBVIOUS
  <2> QED
    BY <1>3, <1>6, <2>1 DEF CreateFile
<1>7. ASSUME NEW n \in Name, NEW m \in Name, ShowRename(n, m) PROVE Settling'
  <2>1. <<n>> \in Seq(Name)
    OBVIOUS
  <2> QED
    BY <1>3, <1>7, <2>1 DEF ShowRename
<1> QED
  BY <1>4, <1>5, <1>6, <1>7 DEF Write

LEMMA ItemSettles == ASSUME Settling, BatchInv, SendItem \/ ServeItem \/ LandItem PROVE Settling'
<1>1. batch # None /\ batch \in Batches
  BY DEF SendItem, ServeItem, LandItem, Settling, BatchForm
<1>2. UNCHANGED <<navSeq, ops, cur, inVault, all, selected, asked, vault, unseen>>
  BY DEF SendItem, ServeItem, LandItem, screenVars, wishVars
<1>3. cur \in Path /\ selected \subseteq Name /\ (cur = VaultDeep => vault.open)
  BY DEF Settling, OnScreen, BatchForm
<1>4. /\ batch' \in Batches
      /\ Dirty => Dirty'
      /\ \A p \in Server : files'[p] = files[p] \/ Dirty'
  <2>1. CASE SendItem
    <3>1. batch.todo \in Seq(Name) /\ batch.todo # <<>> /\ batch.sent = None /\ UNCHANGED files
      BY <1>1, <2>1 DEF SendItem, Batches, serverVars
    <3>2. Head(batch.todo) \in Name /\ Tail(batch.todo) \in Seq(Name)
      BY <3>1, HeadTailProperties
    <3>3. PICK dir : dir = IF batch.kind \in {"create", "rename"} THEN batch.dir ELSE cur
      OBVIOUS
    <3>4. dir \in Path
      BY <1>1, <1>3, <3>3 DEF Batches, Plain, Path
    <3>5. PICK rest, item : rest = Tail(batch.todo) /\ item = [dir |-> dir, name |-> Head(batch.todo)]
      OBVIOUS
    <3>6. rest \in Seq(Name) /\ item \in [dir : Path, name : Name]
      BY <3>2, <3>4, <3>5
    <3>7. \/ batch' = [batch EXCEPT !.todo = rest]
          \/ batch' = [batch EXCEPT !.todo = rest, !.sent = item]
      BY <2>1, <3>3, <3>5 DEF SendItem
    <3>8. batch' \in Batches /\ batch'.done = batch.done
      BY <1>1, <3>6, <3>7 DEF Batches
    <3> QED
      BY <3>1, <3>8, NoBatchAssumption DEF Dirty
  <2>2. CASE ServeItem
    <3>1. PICK reply : reply = IF batch.kind = "create" \/ files' # files THEN "ok" ELSE "refused"
      OBVIOUS
    <3>2. batch' = [batch EXCEPT !.reply = reply] /\ batch.sent # None /\ batch.reply = None
      BY <2>2, <3>1 DEF ServeItem
    <3>3. batch' \in Batches /\ batch'.done = batch.done /\ batch'.sent = batch.sent /\ batch'.reply = reply
      BY <1>1, <3>1, <3>2 DEF Batches
    <3>4. files' = files \/ reply = "ok"
      BY <3>1
    <3>5. Dirty => batch.done > 0 \/ batch.kind = "create" \/ reply = "ok"
      BY <3>2, NoBatchAssumption DEF Dirty
    <3> QED
      BY <1>1, <3>1, <3>2, <3>3, <3>4, NoBatchAssumption DEF Dirty
  <2>3. CASE LandItem
    <3>1. PICK done : done = IF batch.reply = "ok" THEN batch.done + 1 ELSE batch.done
      OBVIOUS
    <3>2. batch' = [batch EXCEPT !.sent = None, !.reply = None, !.done = done] /\ UNCHANGED files
      BY <2>3, <3>1 DEF LandItem
    <3>3. batch.done \in Nat /\ done \in Nat
      BY <1>1, <3>1 DEF Batches
    <3>4. batch' \in Batches /\ batch'.done = done
      BY <1>1, <3>2, <3>3 DEF Batches
    <3> QED
      BY <3>1, <3>2, <3>3, <3>4, NoBatchAssumption DEF Dirty
  <2> QED
    BY <2>1, <2>2, <2>3
<1>5. \A names : \A p \in Server : UpToDate(names, p) => UpToDate(names, p)'
  BY <1>2, <1>4 DEF UpToDate
<1>6. BatchForm'
  BY <1>2, <1>3, <1>4 DEF BatchForm
<1> QED
  BY <1>2, <1>3, <1>5, <1>6, StillSettles

\* Steps that touch neither the folders nor the requests.
LEMMA ElseSettles ==
  ASSUME Settling, UNCHANGED <<files, navSeq, ops, cur, inVault, all, asked, unseen>>,
         batch' \in {batch, None}, Dirty => batch' = batch,
         selected' \subseteq Name, vault'.open => vault.open, cur = VaultDeep => vault'.open
  PROVE  Settling'
<1>1. BatchForm'
  BY DEF Settling, BatchForm
<1>2. \A names : \A p \in Server : UpToDate(names, p) => UpToDate(names, p)'
  BY DEF UpToDate, Dirty
<1> QED
  BY <1>1, <1>2, StillSettles

LEMMA SelectSettles == ASSUME Settling, Select PROVE Settling'
<1>1. UNCHANGED <<files, navSeq, ops, cur, inVault, all, asked, unseen, batch, vault>>
  BY DEF Select, Click, SelectAll, Rearrange, serverVars, wishVars
<1>2. selected \subseteq Name /\ (cur = VaultDeep => vault.open)
  BY DEF Settling, BatchForm, OnScreen
<1>3. \A k \in DOMAIN Entries : Entries[k] \in Name
  BY EntriesAreRows DEF Rows
<1>4. selected' \subseteq Name
  <2>1. ASSUME NEW n \in Name, NEW key \in {"plain", "ctrl", "shift"}, Click(n, key)
        PROVE  selected' \subseteq Name
    <3>1. CASE key # "shift"
      <4>1. selected' = {n} \/ selected' = (selected \cup {n}) \ (selected \cap {n})
        BY <2>1, <3>1 DEF Click
      <4> QED
        BY <1>2, <4>1
    <3>2. CASE key = "shift"
      <4>1. selected' \subseteq {Entries[k] : k \in DOMAIN Entries}
        BY <2>1, <3>2 DEF Click
      <4> QED
        BY <1>3, <4>1
    <3> QED
      BY <3>1, <3>2
  <2>2. CASE SelectAll
    BY <1>2, <1>3, <2>2 DEF SelectAll, ToSet
  <2>3. CASE Rearrange
    BY <1>2, <2>3 DEF Rearrange
  <2> QED
    BY <2>1, <2>2, <2>3 DEF Select
<1> QED
  BY <1>1, <1>2, <1>4, ElseSettles

LEMMA VaultSettles == ASSUME Settling, VInv, ~strayed', UseVault \/ \E g \in vault.work : Decrypted(g)
                      PROVE  Settling'
<1>1. IsVault(vault) /\ selected \subseteq Name /\ (cur = VaultDeep => vault.open /\ inVault)
  BY DEF VInv, Generations, Settling, BatchForm, OnScreen, Inner
<1>2. CASE (Lock \/ AutoLock) /\ inVault
  BY <1>2, LockSettles DEF Lock, AutoLock, serverVars
<1>3. CASE AutoLock /\ ~inVault
  <2>1. vault'.open = FALSE
    BY <1>1, <1>3 DEF AutoLock, IsVault
  <2> QED
    BY <1>1, <1>3, <2>1, ElseSettles DEF AutoLock, serverVars, screenVars
<1>4. CASE StartUnlock \/ VaultBlobUrl \/ \E g \in vault.work : Decrypted(g)
  <2>1. vault'.open = vault.open
    BY <1>1, <1>4 DEF StartUnlock, VaultBlobUrl, Decrypted, IsVault
  <2> QED
    BY <1>1, <1>4, <2>1, ElseSettles
    DEF StartUnlock, VaultBlobUrl, Decrypted, serverVars, screenVars, wishVars
<1>5. Lock => inVault
  BY DEF Lock, Unlocked
<1> QED
  BY <1>2, <1>3, <1>4, <1>5 DEF UseVault

LEMMA ElsewhereSettles ==
  ASSUME NEW d \in Plain, NEW n \in Name, ChangedElsewhere(d, n), Settling, BatchInv
  PROVE  Settling'
<1>1. /\ UNCHANGED <<navSeq, ops, cur, inVault, all, selected, asked, vault, batch>>
      /\ unseen' = unseen \cup {d} /\ files' = [files EXCEPT ![d] = (@ \cup {n}) \ (@ \cap {n})]
  BY DEF ChangedElsewhere, screenVars
<1>2. \A p \in Server : p = d \/ files'[p] = files[p]
  BY <1>1 DEF BatchInv
<1>3. \A names : \A p \in Server : UpToDate(names, p) => UpToDate(names, p)'
  BY <1>1, <1>2 DEF UpToDate, Dirty
<1>4. BatchForm' /\ (cur = VaultDeep => vault.open)
  BY <1>1 DEF Settling, BatchForm, OnScreen
<1> QED
  BY <1>1, <1>3, <1>4, StillSettles

LEMMA SettledInvNext ==
  ASSUME SettledInv, VInv, BatchInv, [Next]_pageVars
  PROVE  SettledInv'
<1> SUFFICES ASSUME ~strayed', \/ BrowserAsync \/ Browse \/ Select \/ Write \/ UseVault
                               \/ UNCHANGED browserVars
             PROVE  Settling'
  BY DEF SettledInv, Next, InBrowser, InEditor, InViewer, InDialog, WithSongs, InTransfer, pageVars
<1>1. CASE UNCHANGED browserVars
  <2>1. Settling
    BY <1>1 DEF SettledInv, browserVars
  <2> QED
    BY <1>1, <2>1, ElseSettles DEF browserVars, Settling, BatchForm, OnScreen
<1>2. CASE Select \/ Write
  <2>1. Settling
    BY <1>2 DEF SettledInv, wishVars, Select, Click, SelectAll, Rearrange, Write, MoveEntriesToDir,
                CopyEntriesToDir, DeleteEntries, CreateFile, ShowRename, StartBatch
  <2> QED
    BY <1>2, <2>1, SelectSettles, WriteSettles
<1>3. CASE UseVault
  <2>1. Settling
    BY <1>3 DEF SettledInv, wishVars, UseVault, StartUnlock, Lock, AutoLock, LockVault, VaultBlobUrl
  <2> QED
    BY <1>3, <2>1, VaultSettles
<1>4. CASE Browse
  <2>1. Settling
    BY <1>4 DEF SettledInv, wishVars, Browse, Navigate, PrefetchListing, Fail, ChangedElsewhere
  <2> QED
    BY <1>4, <2>1, NavigateSettles, PrefetchSettles, ReplySettles, ElsewhereSettles DEF Browse
<1>5. CASE BrowserAsync
  <2>1. Settling
    BY <1>5 DEF SettledInv, wishVars, BrowserAsync, Answer, LandPrefetch, LandListing, LandFailed,
                LandClimb, SendItem, ServeItem, LandItem, FinishBatch, FinishUnlock, Decrypted
  <2>2. CASE FinishBatch /\ ~(batch.done > 0 \/ batch.kind = "delete")
    <3>1. batch' = None /\ ~Dirty
      BY <2>2 DEF FinishBatch, Dirty
    <3>2. UNCHANGED <<files, navSeq, ops, cur, inVault, all, asked, unseen, selected, vault>>
      BY <2>2 DEF FinishBatch, serverVars, screenVars
    <3> QED
      BY <2>1, <3>1, <3>2, ElseSettles DEF Settling, BatchForm, OnScreen
  <2> QED
    BY <1>5, <2>1, <2>2, ReplySettles, LandSettles, ClimbSettles, ItemSettles, FinishSettles, UnlockSettles,
       VaultSettles DEF BrowserAsync
<1> QED
  BY <1>1, <1>2, <1>3, <1>4, <1>5

\* Whatever overtook what, once no answer is awaited the page shows the folder the user asked for last
\* and the rows the server has in it (navigate, refreshListing, climbToVault, the batches' own
\* listing), unless the page went somewhere the user had not asked for.
THEOREM ScreenSettlesTrue == PageSpec => []SettledScreenIsTrue
<1>1. Init => SettledInv /\ VInv /\ BatchInv
  BY SettledInvInit, VInvInit, BatchInvInit DEF Init
<1>2. SettledInv /\ VInv /\ BatchInv /\ [Next]_pageVars => (SettledInv /\ VInv /\ BatchInv)'
  BY SettledInvNext, VInvNext, BatchInvNext
<1> QED
  BY <1>1, <1>2, SettledSuffices, PTL DEF PageSpec
==============================================================================
