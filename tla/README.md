# simpledrive in TLA+

Models of the parts of simpledrive that keep state across concurrent requests, answers in any
order, crashes and unreliable connections, checked with TLC on small instances, and theorems
about all of them checked with TLAPS. All definitions are translated from the code under `src/`;
`PROJECT.json` names the lines each one stands for (`map`), the runs, the theorems, the hazards
the properties are for, and the places where the code and what it says of itself part ways
(`findings`).

## The system

A Go server (`internal/`) serves one folder of a machine, and optionally S3 buckets mounted
beside it, to a single-page client (`web/static/js/`). There is no database: the state is the
folder, a few JSON files next to the configuration, and maps in memory. Every request runs
in a goroutine of its own; loops (trash, parts, thumbnails, the limiter's clean-up) and one
transcode worker run beside them. The page is one thread of callbacks: what makes it hard is
what lies between an `await` and its answer.

| Component | State | Operations | Hard part |
|---|---|---|---|
| Resumable upload (`upload.go`, `transfer.js`) | `.uploads/<hash>.part`, the map of part locks; the page's offset and attempt | status, chunk, finish, sweep of old parts; the page's loop | two requests for one part, lost replies, failed writes, the sweep taking a part in use |
| Transcode queue (`jobs.go`) | rows, order, channel, per-job cancel | add, worker, sweep, cancel, list | sections under the lock with channel operations between, cancel racing the run, hung encoder |
| Trash (`trash.go`, delete in `files.go`, `commitEdit` in `resize.go`, undo in `modal.js`) | `.trash`, `trash.json` | delete, restore, undo, replacing edit, permanent delete, sweep | a rename and an index write that are not one step; handlers that ignore `trashMu` |
| Vault (`vault.js`, `vault.go`) | the page's `open` and its index; `index.age` and blobs on the server | unlock, lock, add, save, arrange, remove | awaits between reading `open` and using it; whole-index writes |
| Share links (`shares.go`, `jsoncache.go`) | `shares.json` and its memo | create, label, revoke, retarget after a rename, look up | links stored by path, following targets that move under another lock |
| Sessions, login limiter (`auth/`, `auth.go`) | maps of tokens and of failed attempts | login, logout, middleware, clean-up | check and record are separate |
| Local file handlers (`files.go`) | the folder | list, upload, rename, move, copy, mkdir, write, delete | Stat followed by Rename |
| Bucket mounts (`mounts.go`, `mountfs.go`, `mounthttp.go`) | `mounts.json`, the cache of clients, the buckets | connect, disconnect, rename; move and copy between backends | copy, list again, delete; failures midway |
| S3 client (`s3/`) | none | signed requests, retries, multipart | a retry of a request that was served |
| Thumbnails and metadata (`thumbs.go`, `meta.go`) | cache files by content hash, memos, sidecars | generate, invalidate, update, sweep | memos stored after what they were read from has changed |
| File list (`browser.js`, parts of `init.js`, `modal.js`, `core.js`, `account.js`) | rows, listing cache and generation, selection, batch, the vault on screen | navigate, refresh, prefetch, select, move, copy, delete, create, rename, unlock, lock | answers that overtake each other and the user |
| Editor (`editor.js`) | the document, its text, what was saved | open, type, save, leave | late texts, failing saves, typing meanwhile |
| Viewer (`preview.js`) | the picture, fingers, slides, zoom | open, page, swipe, zoom, leave | two pointer handlers, animations that end after the viewer was left |
| Dialogs (`modal.js`, `search.js`, picker in `browser.js`) | the one dialog and what it shows | search, details, pick a folder | answers that find another dialog |
| Tags and preferences (`tags.js`, `prefs.js`, `prefs.go`) | one blob in the page, on the device and on the server | set, retag, debounced put, re-read | last writer wins, puts that are lost |
| Song player (`audio.js`) | queue, order, song, verdicts, gains | open, skip, end, modes, autotagging, levelling | what was shown as next, what a skip means, late loudness |
| Transfers (`transfer.js`, `account.js`) | planned folders and files, what went in | upload folders, import into a vault | partial failure, names taken meanwhile, walking away |
| Media edits (`resize.go`, `trim.go`, `loudness.go`), parsers (`raw.go`, `mp4meta.go`, `mp3rate.go`) | none of their own | decode, scale, splice | data conversions |
| Search, usage, zip, compression, service worker, set-up | none, or presentation | | |

What makes each correct, in one line: an upload that is reported saved is there and whole; a
queued job is run or refused and its row tells the truth; a deleted file can be restored as it
was until its time is over; what is filed in a vault stays readable until removed; a link leads
to what it was made for or nowhere; a lock after wrong passwords holds and ends; a move loses
nothing; a cached picture is of the file it is shown for; a screen on which nothing is awaited
shows the truth; a text is saved under its own name; a batch takes what was chosen.

The components meet in few places: edits and vault deletes go through the trash
(`moveToTrash`), transcodes run an edit (`commitEdit`) inside the queue, vault writes go
through the upload handler, renames, moves and deletes call `retargetShares` and
`invalidateFolder`, and the parts of the page share one screen (module `Page`).

## Modules: the server

`ResumableUpload` — one file, one destination, hence one part. `Clients` are pages running
`uploadResumable`; `Handlers` are goroutines inside `uploadChunkHandler`; `Mutexes` and
`Inodes` are identities, because the map entry and the part's path can be replaced while
somebody holds the old one. Each step is a system call or a section under a lock: `LookupLock`
and `LockAndOpen` are `partLock`, `mu.Lock` and the open that follows; `Mismatch` and `Match`
compare offsets; `CopyUnit` writes one unit of the chunk; `CopyFails` and `Truncate` are the
error path, which truncates *by path*; `Place`, `Rename`, `RenameFails` and `Drop` are
`finishPart` and `dropPartLock`. `GcFind` to `GcDrop` are `purgePartsOnce`. Content is a
length and the set of positions that hold zeros, since all writers of one part send the same
bytes. `Probe`, `Send`, `Reply...` and `Retry` are the page.

`JobQueue` — `Enter`, `Send`, `SendFull` and `Refuse` are the two sections of `add` and the
`select` between them; `RefusePanics` is the slice expression of line 94 on an empty order,
which panics with `q.mu` held. `Receive`, `Skip`, `Start`, `Finish` and `Sweep` are the worker.
`Wrap`, `Encoded`, `Killed`, `RunFails` and `Commit` are `transcodeVideo` inside `commitEdit`,
with the worker's context (`wctx`) and the run's own (`tctx`) apart. `Wedge` is an encoder
that hangs, `Expire` the timeout, `Age` the retention of rows. `JobLife` is the abstract
specification: what the endpoints promise of each job, without lock, channel, order of rows and
stages of a run. `JobQueue` implements it under the mapping its `Life` instance gives: the jobs
that wait are those in the channel and the one with the worker, in that order (`Waiting`).

`Trash` — one folder and the trash, with a file as an identity that is somewhere or nowhere.
`Reserve`, `MoveIn`, `Stamp` and `Index` are `moveToTrash`, for a delete and for a replacing
edit, which goes on with `Land`. `RestoreReserve`, `RestoreMove` and `Clear` are a restore;
`Undo` is one asked for by the name of the deleted file. `Scan` and `Erase` are
`purgeTrashOnce`. `RenameBegin` and `RenameMove` are rename and move, `Upload` and
`PermanentDelete` what their names say; none of these takes `trashMu`. An edit's write to a
temporary file is folded into `EditBegin`.

`Vault` — pages, each with the session it has open, and calls, each at the await it has
reached. `WriteIndex` and `Sealed` are the two halves of `writeIndex`: its recipient and text
are taken before the encryption, its folder after. `IndexPut` is `saveOverwrite`. The calls are
`AddBegin`/`BlobPut`/`AddFile`, `SaveBegin`/`SaveSealed`/`SaveIndex`, `Arrange` (mkdir, rename,
move) and `Remove`/`Unlink`. A request whose page is gone, or whose connection is lost, has
`page = None` and may still land.

`Shares` — a tree two names deep, the stored list of links and the memo it is read through
(`Loaded` is `load`; each write drops the memo first). A request that moves a target is a
`MoveBegin` (the new path is free), a `MoveRename`, and a `RetargetShares` of its own under
`sharesMu`; a delete and the making of a link (`CreateShare`, `AddShare`) are in two steps as
well. `Relabel`, `Revoke` and `Lookup` are single sections.

`BucketMove` — folders of buckets and of the drive, side by side, over one space of keys. A
request is at `Stat`, `HeadKey`, `List` (or `Walk`, on the drive), `CopyKey`, `Copied`, and for a
move at `HeadKey` and `List` again and `DeleteKey`, or `RemoveAll` on the drive: one request to
the bucket each. `CopyFails` and `RequestFails` are requests that used up their retries; a
`CopyKey` or `DeleteKey` that is not taken off the list is one whose reply was lost and which is
sent again. `Probe` and `UploadPut` are `uniqueS3Key` and the `Put` that follows, `WriteS3` the
editor, `UploadToDrive` a `createUnique`.

`Thumbs` — the pictures of one folder with their dates, the hash memo, the cache files and the
folder's preview memo. A thumbnail is made in `ThumbOfFile`, `ContentHash`, `StoreHash`,
`Ensure`, `Generate`, a folder's through `LookUpChild`, `FindThumbable`, `StoreChild` first:
each reads what the one before saw some time ago. `Upload`, `Replace`, `EditDate`,
`DeletePicture` and `RestorePicture` change pictures, with `Chtimes` and `Invalidate` as steps of
their own. An `upload`
that is `TRUE` is `uploadHandler`; one that is `FALSE` stands for the end of a resumable upload,
which invalidates.

`Logins` — the limiter in ticks of a clock, logins in two steps (`Allow`, then `RecordFail`,
`Reset` or `BadRequest`) with the comparison of the password between them, and `Cleanup` at any
time.

`Serving` holds what the last four share: the goroutines, and `left`, the requests and faults to
come. `Server` composes them: a run watches one part (`part`), chosen at the start, and each
part's steps leave the others' variables alone, as they have no state in common; so a run
explores the sum of the parts. What they do have in common in the code, the request that moves a
file, retargets its links and invalidates its folder, is in each of them as far as it concerns it.

## Modules: the page

`Session` holds what these share: `None` and `Failed`, and `left`, the gestures, faults and
doings of others that remain in a session. Each of the following has its own variables, and
`Page` composes them: a session has an errand, the set of parts it uses, and each part's steps
leave the others' variables alone, as the code's do. So a run explores the union of the
errands.

`Browser` — an answer of a listing is the set of names the server had when it answered, with the
number of the page's own writes it had carried out by then (`at`). `ops` are the requests on
their way, with the `navSeq` and `listingGen` they were sent under; `Answer` is the server,
`LandListing`, `LandPrefetch`, `LandFailed` and `LandClimb` the four ways an answer is taken. A
batch is `StartBatch`, then `SendItem`, `Served`/`ServeItem`, `LandItem` one by one, then
`FinishBatch`; an item whose turn comes while the page is inside a vault is refused. `StartUnlock`
to `Decrypted` are the vault on screen; its rows come from `applyVaultListing`.
`ChangedElsewhere` is another client.

`Editor` — a text is the document it was first loaded from and the edits made to it.
`OpenEditor`, `AnswerLoad`, `LandLoad`; `Type`; `Save`, `ServeSave`, `LandSave`, `FailSave`;
`EditorBack` with or without the user's consent.

`Viewer` — `viewer` is what is shown, `swipe` and `touch` what the two pointer handlers keep,
`slides` the animations under way and `opens` the decryptions. `PointerDown`, `PointerMove` and
`PointerUp` run both handlers, in the order the listeners were added; `PointerCancel` is the
browser's taking the touch for itself. Whether a drag was held far enough to page, and a tap was
short enough to be one, is any.

`Dialog` — one dialog with a number (`id`); `asks` are requests on their way, of the search
(`Run`, with the abort of the one before), the details and the folder picker.

`Tags`, `Player` — the set of files that have a tag, its copy on the device, the timer, the puts
and gets on their way, and the server's; on top of them the queue (`order`, `QueueOf`,
`Neighbors`), the song (`Loaded`, by `token`), the verdict when it is left (`Due`, `Settled`)
and the gains (`LoadTrackGain`, `LandGain`). What the verdicts should come to is kept beside
them, from the README's and the comments' words and not from the code's tests (`fate`,
`Judgement`): which song is the newest of the run is followed there by the songs played
(`ghost.newest`), where the code reads it off a track that a verdict may have cleared.

`Transfer` — a tree of folders and files; a job is an upload of planned folders or an import
(`ScanForVault`, `MakeUploadDir`, `SendFile`, `DeleteOriginal`), one request at a time.

`ResumableUploadProofs`, `JobQueueProofs`, `TrashProofs`, `VaultProofs`, `BucketMoveProofs`,
`ServerProofs` (links, thumbnails, limiter), `BrowserProofs` and `PageProofs` (editor, viewer,
dialogs, songs, transfers) hold the theorems. Some operators are written as functions where a
community operator would be shorter (`Sorted`, `Only`, `Among`): the provers cannot expand
`SortSeq`, `SelectSeq`, `:>` and `@@`.

## Seeded faults

In each module the definitions introduced as a *seeded fault* are not part of the model: each is
a definition of the code with a plausible bug in it, and `PROJECT.json` (`mutants`) pairs it with
the definition it stands in for and the property that then fails. They show that the property
depends on the code.

## Observers

Some variables only record what has happened so that a property can speak of it. The guards of
the code's actions do not depend on them; a bound may (`Shares` bounds the links made by the ids
left in `meant`).

- Where the code's own ordering has broken down: `split` (ResumableUpload), `raced` (JobQueue,
  Trash, Vault, Editor), `crossed` (Vault, Dialog), `early` (Editor), `shared` (Tags), `strayed`
  and `unseen` (Browser), `linksMet` and `missed` (Shares), `exposed` (BucketMove), `replaced` and
  `sure` (Thumbs). Properties that hold only short of that say so in their comment, and the runs
  marked `violation`, *Known deviations* or the hazards show what happens beyond it.
- What was meant or done: `meant`, `revoked` (Shares), `wanted`, `whole` (BucketMove), `until`,
  `lastFail` (Logins), `asked`, `anchorName` (Browser), `went` (Transfer), `ghost`, `fate`
  (Player),
  `filed`, `removing`, `removed`, `unread` (Vault), `early`, `wrong`, `unindexed` (Trash), `missed`
  (JobQueue).

## Runs

| Run | Shows | Bounds |
|---|---|---|
| `upload` | what is saved is whole; acknowledged bytes stay; copies and successes match; no empty file stays; every loop ends | 2 pages, 3 goroutines, 4 mutexes, 5 inodes, a file of 3 units in chunks of 2, 1 retry, 2 faults |
| `upload_serialized` (violation) | the part's lock does not serialize an upload | 3 pages, no fault |
| `jobs` | nothing queued is forgotten or unlisted; a canceled job saves nothing; the queue drains; each job has the life its clients are promised | 4 jobs, channel of 1 |
| `jobs_timeout` (violation) | the timeout does not reach a hung encoder | 1 job |
| `jobs_listing` (violation) | a refused add unlists another job | 2 jobs |
| `trash` | nothing lost, rows true, retention kept, the trash empties | 2 names, 7 files, 2 goroutines, 3 requests, 1 fault |
| `trash_undo` (violation) | undo acts on another file of the same name | 1 name, 4 requests |
| `trash_edit` (violation) | an edit that changes the extension overwrites a neighbour | 2 names, 1 request |
| `vault` | filed stays filed and readable, removed stays gone | 2 pages, 2 vaults, 2 files, 2 calls, 5 operations, 1 fault |
| `vault_unread` (violation) | an index not fetched is replaced by an empty one | 1 page, 1 vault, 1 fault |
| `page` | the screen settles on the truth; batches, saves, tags, verdicts, transfers act on what they were meant for; nothing decrypted outlives its vault | sessions of 3 to 7 gestures (`AnySession`), 3 names, 3 songs, 2 images and a video, 2 fingers, 2 listings on their way, 1 prefetch |
| `server` | links follow and end with their targets; revoked stays revoked; moves lose nothing and are whole; thumbnails show their pictures; the limiter locks and ends | 2 goroutines; links 5, buckets 3, thumbnails 4 requests and faults; 9 ticks of the limiter |

Why the bounds are enough for what they are for.

- Upload: the lock breaks with three requests (one holding, one waiting on the old mutex, one
  with the new), so three goroutines; a file of two chunks, the last one short, has a first, a
  last and a resumed chunk; four mutexes and five inodes are as many as can be referred to at
  once. Two faults cover each pair of kinds.
- Jobs: a channel of one is full with one job running and one waiting, which leaves two more to
  be refused, and to overlap.
- Trash: three requests of two goroutines, two of them at work at once and a third after, reach
  each pair of handlers on one file and the collisions of two names; two suffixes are the longest
  names that many requests make, and what needs a third one waits.
- Vault: two calls at once and five operations are an unlock, an add and a remove on two vaults;
  a third page adds no kind of overlap that two do not have.
- Page: an errand names the parts a session uses and its gestures (what the user, other
  sessions and faults do), so each has as many as it takes to overtake itself twice: two
  navigations and a write, a load and two saves with typing between, two swipes and a page, two
  queries and a change of scope, three songs and a mode, or a song tagged by hand, autotagging
  switched on, and two ways of leaving it. Two listings on their way are as many
  as can overtake one another; `MaxEdits` is one because a second edit is told from the first
  only by being another text, and texts of two documents are.
  In `Transfer` a file whose name and its suffixed twin are both taken waits, and others add only
  names that are free.
- Server: a goroutine that is overtaken and one that overtakes it. Links: a path, a path inside
  it, and another; two links; a move, its retarget, and three things beside it. Buckets: two
  buckets and a folder of the drive, two contents and one written meanwhile, a listing of at
  most two keys, which the third exceeds. Thumbnails: two names, two pictures and two dates,
  where a replaced date can come back. Logins: two addresses, two wrong passwords to a lock, a
  window of two ticks inside a lock of three, nine ticks, so that a lock can end, the window pass
  and a second one begin; nothing else bounds them.

`MaxFaults`, `MaxJobs`, `MaxOps`, `MaxSuffix`, `MaxWrites`, `MaxTime` and the counters `left`
bound what happens in guards; `Calls`, `Handlers`, `Handler`, `MaxInFlight` and
`MAX_PREFETCHES` (this one the code's own) what is under way at once. Deadlock is not checked:
once the bounds are used up, or nobody asks anything, the system rightly stops. Symmetry is used
where no liveness is checked and no definition picks among the permuted values.

### Fairness

Goroutines are scheduled, a mutex or a job reaches its owner in the end, and the loops that
sleep wake up: weak fairness of each handler's own steps, of the page's loop, of the worker,
and of the sweeps. There is none for what users, networks, disks and encoders do: no request,
cancel, fault, restart or repeat has to happen. In `Trash` time passes (`Days`). `QueueDrains`
also assumes, in its own statement, that a hung encoder is canceled by someone, which the
violation run `jobs_timeout` shows to be needed. `Vault`, `Page` and `Server` have no liveness
property. Every call there is finite by its form, and what must be true in the end is stated of
the states in which nothing is on its way any more (`SettledScreenIsTrue`,
`LastTagsReachServer`, `ViewerComesToRest`, `DialogShowsItsOwn`): the code gives no request a
timeout, so nothing stronger is justified.

## Theorems

Every safety invariant and every action property of the passing runs is a theorem; what the runs
show on small instances holds for all values of the constants that meet the assumptions below. All
proof modules follow one plan: an inductive invariant, that it holds initially, that every step
keeps it (one lemma or case for each action), and that it implies the property; the temporal step
combines the three. The invariants were checked with TLC before they were proved. The theorems
about parts of `Page` and `Server` are theorems of the whole: a step of another part leaves the
part's variables alone.

`ResumableUploadProofs`
- `TypeCorrect`: `Spec => []TypeOK`.
- `SavedWhole`: `SavedWholeWhenSerialized`. The property is not inductive: that the next saved file
  is whole depends on what the part holds when the last chunk arrives. `IInv` is `TypeInv` (types,
  `Calls`: which goroutine answers which page), `Alone` (unless `split`, at most one goroutine is at
  work on the part) and `Contents` (while they are serialized, the part has no holes, saved files
  are whole, and the one goroutine at work has the part open, or a file the sweep has unlinked,
  writes at its end, has written no further than its slice, and renames only a whole file).
  `Alone` is where serialization enters; `Contents` follows writes, the truncation of a failed write
  and the sweep.
- `AckedStays`: `AckedBytesKept`. `AcksInv` adds to `IInv` that each acknowledged length is in the
  part, or the file saved; only a slice that has landed raises it.
- `CopiesMatch` (`CopiesMatchSuccesses`) and `BlanksAreTakenBack` (`NoEmptyFileLeftBehind`) need no
  serialization. `CountInv` counts: the copies saved are no fewer than the successes reported and
  the requests past their rename, and no more than those, the lost connections and, for each
  restart, the pages (`Tally`); the placeholders are the requests about to rename, as long as
  nothing restarted (`Blanks`). A step changes each of these sets by one member.

`JobQueueProofs`
- `TypeCorrect`, `NoneForgotten` (`QueuedIsScheduled`), `StatusTruthful` (a row that says done
  has its output in place, one that failed has none), `OutcomeKept` (no step changes an
  outcome), `CanceledNeverStarts`. `IInv` adds to the types: ids not yet given out are absent
  everywhere (`Fresh`), an id in the channel or with the worker was accepted (`Accepted`), the
  job of a running worker is running or canceled (`Worked`), and the output is in place exactly
  when the run says so (`Outputs`).
- `CanceledIsSilent`: `CanceledSavesNothing`. The run's own context is canceled whenever the job is,
  so a cancel is seen at each place the run still looks before the commit.
- `RowsStayListed`: `RowsAreListed`. Map and order hold the same ids, each once: `add` appends an id
  that is in neither, and a refusal takes the last one, which is its own unless adds have
  overlapped (`raced`).
- `JobLifeKept`: `Spec => KeepsJobLife`, the refinement of `JobLife`. Each action is shown to be
  an action of `JobLife` under the mapping, or a stutter. The invariant is strengthened by
  `EndedRows`: a row that a sweep may drop is one whose job is over, so that forgetting it is what
  `JobLife` calls `Forget`.

`TrashProofs`
- `NoFileLost` (`NothingLost`), `RowsTrue` (`RowsTellTruth`), `KeptTillDue` (`RetentionKept`), from
  one `IInv`: a file is in one place (`Placed`); a placeholder belongs to one request (`Own`); a
  name in the trash with a row has the row its file was trashed with (`Indexed`); between the rename
  into the trash and the write of its row, the request itself holds what the row will say
  (`Underway`); and the sweep erases only what was due when it looked, and still is (`Swept`).
  `RetentionKept` needs no exception for races, the other two do.

`VaultProofs`
- `BlobsAreThere` (`IndexNamesBlobs`), `AddedStays` (`FiledStaysFiled`), `RemovedIsGone`
  (`RemovedStaysGone`). `IInv` has the types, the sessions and what each call holds at its await
  (`Basics`), and, as long as no two pages or index writes have met (`Calm`): one page has a vault
  open, and one write of its index is under way, of what that page holds (`Alone`); the blobs of
  what any copy of an index lists are in the folder (`Whole`); a file is listed by one vault
  (`Apart`); the file of an add is unknown until it is filed (`New`); what is removed is in no copy
  (`Gone`), and, unless `unread`, what is filed and not removed is in each of them
  (`Everywhere`). A copy is the stored index, an open one, or the one a write has sealed.

`BucketMoveProofs`
- `NothingIsLost`: `NothingLost`. `BInv`: what a request may do next writes over nothing but its own
  copies, and what the folder it empties holds is still to be copied, is copied, or is not going
  to be deleted (`Safe`); where two requests are at work on the same folders nothing is promised, as
  what is there is `exposed` (`Apart`).
- `FinishedMeansWhole`: `FinishedIsWhole`. `WInv`: a request that met no other (`Met`) finds at its
  end what it found at its start, so what it has done and what is on its list make up what it was
  to do (`Whole`).

`ServerProofs`
- `RevokedStaysRevoked`: `RevokedOpensNothing`. `SInv`: the memo is empty or what is stored, so
  each section under the lock starts from the stored list; a link that is stored was given to its
  owner, an id that was given is not given again, and no section adds any other id.
- `LinksHold`: `LinksKeepTheirTargets`. `HInv` describes the tree (`Tree`: an item is at one path, a
  child's folder is there) and, unless requests met, what each link leads to (`Kept`): the item it
  was made for, or, between a move and its retarget, or a delete and its revocation, a path that one
  request is about to correct (`Carried`); two requests have no path in common nor one inside the
  other (`Apart`); no link leads to where something is about to be moved (`Free`); and where a link
  is about to be made, what was looked at is still there (`Seen`).
- `ThumbsAreTrue` (`ThumbsShowTheirPictures`) and `FolderShowsItsFirst` (`FolderFollowsItsFirst`).
  `TInv`: what a request has read of a picture is true of it, or the picture was replaced since
  (`Pictured`, `Hashed`); a remembered hash is that of the picture with that size and date
  (`Remembered`); a folder's first child read at the folder's present date is its first (`Walked`).
- `LimiterHolds`: `LimiterKeepsItsWord`. `LInv`: a lock given is held against the address or over
  (`Given`), and what is held began no later than the last wrong password, which is the one
  that locked it (`Held`). It needs the window to be shorter than the lockout (in the code 10 and
  15 minutes): otherwise a record could be cleaned up with its lock.

`BrowserProofs`
- `CacheCurrent`: `CacheKeepsUpWithWrites`. `CInv` counts: an answer of the current generation was
  given after every write acknowledged so far, because each acknowledgement starts a new one.
- `PlaintextConfined`: `NoPlaintextOutsideVault`. `VInv`: decryptions on their way belong to
  generations no newer than the vault's, and while it is not unlocked and on screen nothing is
  decrypted and none of them is of the current generation, so what lands is thrown away.
- `SelectionIsOnScreen` (`SelectionStandsForRows`) and `BatchKeepsToChosen`
  (`BatchTakesOnlyChosen`). They rest on what sorting does: `Sorted` places each row by its rank,
  ranks are different, so the sequence has each row once, whatever the order of the sort.
- `ScreenSettlesTrue`: `SettledScreenIsTrue`. `SettledInv` says what each request and the screen
  will come to. At most one listing is awaited; it is of the folder asked for, if it was painted
  from the cache these rows are on screen, and its answer is what the server has
  (`AwaitedIsAsked`). When none is awaited the folder asked for is on screen and true
  (`ShownIsAsked`). A link to inside a locked vault is followed by climbing, during which only the
  climb's end is certain (`ClimbIsAsked`). True means: what the server has, or a batch has just
  changed it and will ask again when it is through (`Dirty`), or someone else has (`unseen`).

`PageProofs`
- `TextsStay`: `TextStaysInItsFile`. `EInv` says that every text, loaded, in the editor, on its
  way in either direction, or on the server, is the text of its own document, unless the document
  was saved early.
- `NothingLostOnLeaving`: `LeavingLosesNothing`. `LInv` adds that a document's load is asked for
  once (`AskedOnce`), that saves are of the open document and begin only once its text is there
  (`InTurn`), and that what is not dirty is on the server, and what counts as saved is, or a newer
  save has been served (`Kept`).
- `ViewerRests` (`ViewerComesToRest`) and `StaysLeft` (`ViewerStaysLeft`). `VInv`: a body out of its
  place, or with its neighbours mounted, has a finger on it or a slide under way that ends there
  (`Resting`). Each opening uses a gesture, so nothing else shows the viewer but the end of a
  decryption.
- `DialogsShowTheirOwn`: `DialogShowsItsOwn`. `DInv`: numbers of dialogs only grow (`Numbered`), and
  for each kind, an answer waited for is of what was asked last (`Searched`, `Detailed`, `Picked`).
- `TagsReach`: `LastTagsReachServer`. `TInv` follows one set of tags from the page to the timer,
  to the put, to the server.
- `LevelIsTheSongs`: `GainIsTheSongs`. `GInv`: the answers waited for carry the token of the song
  they were asked for.
- `VerdictsEarned`: `VerdictsAreEarned`. `Judging`: a song at the player that is still to be judged
  is the track a verdict would be of, not set by hand and not left; one that is judged, or was set by
  hand, has no track, or one no verdict overrules. So each playing is judged once, and `VerdictFits`
  shows for each way a song is left that `settleTagging`, told of it by its two arguments, comes to
  the tag the song ought to have.
- `PeekedIsNext`: `NextIsTheOnePeeked`. `PInv`: once a song was shown as next, every song the queue
  could pick is that one (`Peeked`), because showing it dealt it into the order, which nothing short
  of what the property names changes. It rests on lemmas about `Only`, the subsequence of a
  sequence that lies in a set.
- `FoldersStayApart`: `FoldersAreNotMerged`. `FInv`: the folders a job knows the place of are the one
  it brings its files to and those it made (`Placed`).
- `OriginalsAreKept`: `OriginalsGoOnlyWhenImported`. `OInv` has the tree (`Grown`: each path in
  folders that are there) and, until the user walks on, where each file that was inside the chosen
  entries is: in a folder still to be listed (`Scanning`), found and on the list, in the vault, or
  of an entry that is broken (`Carrying`); so what is deleted at last is in the vault (`Deleting`).
  The step of a scan is the one that needs the tree: a file in a listed folder is in its listing or
  inside one of the folders in it.

What the proofs assume of the constants, each where it is declared and evaluated by TLC: numbers
are naturals, and bounds that have to be are positive (a chunk is smaller than the file,
`SizesAssumption`); `None` is none of the values it stands beside; clients, thumbnails' names and
the tree at the start of a transfer are finite, as the proofs count or list them
(`ClientsAssumption`, `ThumbsAssumption`, `TransferAssumption`); there are folders and files
(`SharesAssumption`), two names in a bucket's folder (`BucketAssumption`), different files for
different names (`BoundsAssumption` of `Trash`); paths, the order of names and the folder of
pictures are sequences (`BrowserAssumption`, `DialogAssumption`, `ViewerAssumption`); a tree has the
folders its paths are in (`TransferAssumption`); the window is shorter than the lockout
(`LoginsAssumption`).

Model-checked only: liveness (`UploadsEnd`, `QueueDrains`, `TrashEmpties`), which needs fairness
and `ENABLED` and is out of this prover's reach. What a recursive definition computes for every
input is out of its reach too; there is none in the models. `SetToSeq` and `SetToSortSeq` are used of
finite sets, and only that `SetToSeq` lists the set is relied on (`ListsAll`).

## Known deviations

`findings` in `PROJECT.json` has those that a run of their own shows. The following were met in
the same way, in states the passing runs reach and whose properties except them (the observers
name the states).

- A link is made for a path that was looked at before `sharesMu` was taken (`shares.go:234`).
  If the file is deleted and another takes its name before the link is stored, the link shares
  the new file, although `retargetShares` is there "so no new file inherits their old path"
  (`shares.go:112`). The same holds of a delete whose trash index cannot be written
  (`files.go:859`): it answers an error before the links are revoked, with the file gone.
- A move between backends lists again, or removes the whole folder, to delete (`mountfs.go:393`,
  `mountfs.go:404`): what was put there after the first listing is deleted uncopied.
- A move of a bucket folder into a folder inside it copies it there and deletes both; the copy
  has the check (`mountfs.go:427`) and the move has none (`mountfs.go:379`). The page's picker does
  not offer it. Folders inside one another are not part of `BucketMove`.
- An error of the look at a destination is taken for its absence (`mountfs.go:381`,
  `mountfs.go:419`): what is there is written over.
- A listing stops at `maxS3Objects` keys (`mountfs.go:246`): moves and deletes of larger folders
  do the first and report success.
- A thumbnail made after its picture was replaced is cached under the hash of the one before
  (`thumbs.go:265`, `thumbs.go:672`), and a hash taken after a replacement is remembered under the
  size and date of the one before (`thumbs.go:535`), which answers for it once it is restored.
- An upload dates its file after it has landed and drops no memo (`files.go:396`); a folder
  looked at in between keeps the wrong picture until its own date changes. So does one whose walk
  began before an edit's date was set and is stored after the edit's `invalidateFolder`
  (`thumbs.go:419`): the invalidate reaches what is stored and not a walk under way.
- A move into a vault deletes an original by its name in whichever folder is on screen by then
  (`account.js:413`): after walking to another folder during the import, a file of that name there
  goes to the trash, although it was neither chosen nor imported. A vault nested in a chosen
  folder is passed over by the scan and deleted with the folder.
- The viewer comes back when a vault file finishes decrypting after it was left
  (`preview.js:130`).
- Replies of the picker's listings and of the details' size are not told from those of a request
  before (`browser.js:891`, `modal.js:494`): the last to land is shown.
- In the player, a verdict clears the track (`audio.js:145`), and the step that follows compares that
  null with the head: always in the bar (`audio.js:464`), and in the viewer after a song has ended
  with autoplay off (`preview.js:371`). So the run does not grow off its newest song, although "Only a
  step off the newest song extends the run" (`preview.js:370`), the next song counts as chosen, and
  skipped early it keeps a tag that Autotag "removes ... if you skip early" (`README.md:151`). A read
  of the song before the first deals again, and counts as played. `Player` has these as they are.
- A batch makes the path of each item from the folder on screen when its turn comes
  (`browser.js:766`, `modal.js:201`): after walking on while it is under way, what is left of it is
  moved, copied or deleted in the other folder, if names there are the same.

## Not modelled

- Uploads: several destinations and parts (they share only the map), mtimes of saved files,
  drop links, `uploadOne` for buckets.
- Jobs: progress, the listing's sort, which file the run edits (that is `Trash`), the panel that
  polls them.
- Trash: directories, writes in place, uploads into the trash, a failing `Chtimes`, an index
  with broken JSON, a negative `trash_days`, an edit's litter after a crash.
- Vault: the awaits inside an unlock (`vault.js:280`), which is one step: what they would let in,
  index writes under way on the same vault, is what the properties except (`raced`, `crossed`);
  making a vault and changing its password, reading, the recovery document, the names and
  folders inside an index, v1 indexes; the order of the crypto worker, which is any.
- Shares: a link's mode and what a request under it may do, what visitors have open when a link
  ends, links to buckets (retargeted by the same calls).
- Buckets: markers of empty folders, multipart upload and its abort, `mounts.json` and the
  cache of clients, listings and downloads.
- Thumbnails: what happens inside a walk (`findThumbable` is one step; a date that changes inside it
  is met by the properties as one that changes right after it, `late`); sidecars and other metadata, screen-sized copies (kept in the same way), what
  `singleflight` saves, thumbnails of buckets.
- Logins: the store of sessions (random tokens in a map under its lock), levels of access.
- The page: contents of files in `Browser`, drawing, dragging, pull to refresh, the undo toast
  apart from `Trash`, downloads, dialogs of shares and mounts, the trail of played songs, songs in
  a vault, equaliser and media keys, the geometry of zoom; the upload panel and its cancel.
- Components without a module: see `PROJECT.json`. Signing, parsers, scaling and compression
  are functions on data with fixture tests; search, usage and zip keep no state on the server;
  the service worker and set-up are wiring.

## Plan

1. Done: `ResumableUpload`, `JobQueue` with `JobLife`, `Trash`, `Vault`; the page; the server's
   links, moves, thumbnails and limiter; a theorem for every safety property of the runs.
2. Next, abstract specifications to be refined as `JobLife` is: for the trash (a file is in the
   drive, in the trash, or gone after its time), refined by `Trash`; for the links (a table kept by
   target), refined by `Shares` as long as requests do not meet; for an upload (bytes acknowledged
   one after another, then one file), refined by `ResumableUpload` while serialized. Their proofs
   can start from `IInv` and `HInv` as they are.
3. Models still worth writing: `mounts.json` with its client cache, multipart upload, sidecars,
   the service worker's cache, the panel that polls the jobs.
