------------------------------ MODULE JobQueue ------------------------------
(***************************************************************************)
(* The queue of video transcodes (internal/handler/jobs.go): handlers that *)
(* add and cancel jobs, the one worker goroutine, its sweep of old rows,   *)
(* and the run of a resize-video job (commitEdit around transcodeVideo,    *)
(* internal/handler/resize.go).                                            *)
(*                                                                         *)
(* Each step below is what runs between two points where another goroutine *)
(* can get in: a section under q.mu, a channel operation, or a stage of a  *)
(* job's run.  Progress, sizes, names and error texts are left out.        *)
(***************************************************************************)
EXTENDS Integers, FiniteSets, SequencesExt

CONSTANTS
  MaxJobs,    \* bound: jobs ever submitted
  QueueCap    \* maxQueuedJobs, the capacity of q.ch

ASSUME SizesAssumption == MaxJobs \in Nat /\ QueueCap \in Nat \ {0}

Ids == 1..MaxJobs
NoId == 0

VARIABLES
  nextID,   \* q.nextID
  jobs,     \* q.jobs: id -> status, "absent" when the map has no such id
  ended,    \* id -> whether Ended is set, and whether it is older than jobRetention
  order,    \* q.order
  ch,       \* q.ch
  adds,     \* id -> where the add call that made it is
  worker,   \* the worker goroutine and the id it took
  run,      \* the run of the worker's job: its stage and its two contexts
  saved,    \* jobs with a row whose output has been put in place
  raced,    \* observer: a refused add has taken another job's id off q.order
  missed    \* observer: jobs whose cancel or timeout no encoder could hear

vars == <<nextID, jobs, ended, order, ch, adds, worker, run, saved, raced, missed>>

Finished == {"done", "failed", "canceled"}
Status == {"absent", "queued", "running"} \cup Finished
Stage == {"none", "probe", "encode", "commit", "ok", "err"}

\* wctx and tctx: the worker's context and transcodeVideo's own have been canceled.
\* expired: transcodeTimeout has passed on the worker's.  wedged: ffmpeg hangs.
NoRun == [stage |-> "none", wctx |-> FALSE, tctx |-> FALSE, expired |-> FALSE, wedged |-> FALSE]
Idle == [pc |-> "idle", id |-> NoId]

Init ==
  /\ nextID = 0
  /\ jobs = [j \in Ids |-> "absent"]
  /\ ended = [j \in Ids |-> "no"]
  /\ order = <<>>
  /\ ch = <<>>
  /\ adds = [j \in Ids |-> "none"]
  /\ worker = Idle
  /\ run = NoRun
  /\ saved = {}
  /\ raced = FALSE
  /\ missed = {}

\* q.mu can be taken: no add has panicked while it held the lock.
LockFree == \A j \in Ids : adds[j] # "panicked"

----------------------------------------------------------------------------
(* add: two sections under q.mu with a channel operation between them *)

\* A request enters its row.
Enter ==
  /\ LockFree
  /\ nextID < MaxJobs
  /\ LET j == nextID + 1
     IN /\ nextID' = j
        /\ jobs' = [jobs EXCEPT ![j] = "queued"]
        /\ order' = Append(order, j)
        /\ adds' = [adds EXCEPT ![j] = "sending"]
  /\ UNCHANGED <<ended, ch, worker, run, saved, raced, missed>>

\* The select: the id goes into the channel,
Send(j) ==
  /\ adds[j] = "sending"
  /\ Len(ch) < QueueCap
  /\ ch' = Append(ch, j)
  /\ adds' = [adds EXCEPT ![j] = "accepted"]
  /\ UNCHANGED <<nextID, jobs, ended, order, worker, run, saved, raced, missed>>

\* or finds it full.
SendFull(j) ==
  /\ adds[j] = "sending"
  /\ Len(ch) >= QueueCap
  /\ adds' = [adds EXCEPT ![j] = "full"]
  /\ UNCHANGED <<nextID, jobs, ended, order, ch, worker, run, saved, raced, missed>>

\* Seeded fault (see the README): the refused row stays in the map.
RefuseKeepingRow(j) ==
  /\ LockFree
  /\ adds[j] = "full" /\ order # <<>>
  /\ order' = Front(order)
  /\ adds' = [adds EXCEPT ![j] = "refused"]
  /\ UNCHANGED <<nextID, jobs, ended, ch, worker, run, saved, raced, missed>>

\* The refused row is taken back: its map entry, and whatever id is last in the order.
Refuse(j) ==
  /\ LockFree
  /\ adds[j] = "full" /\ order # <<>>
  /\ jobs' = [jobs EXCEPT ![j] = "absent"]
  /\ order' = Front(order)
  /\ adds' = [adds EXCEPT ![j] = "refused"]
  /\ raced' = (raced \/ Last(order) # j)
  /\ UNCHANGED <<nextID, ended, ch, worker, run, saved, missed>>

\* order[:len(order)-1] of an empty order panics; net/http recovers, and q.mu stays locked.
RefusePanics(j) ==
  /\ LockFree
  /\ adds[j] = "full" /\ order = <<>>
  /\ jobs' = [jobs EXCEPT ![j] = "absent"]
  /\ adds' = [adds EXCEPT ![j] = "panicked"]
  /\ UNCHANGED <<nextID, ended, order, ch, worker, run, saved, raced, missed>>

----------------------------------------------------------------------------
(* cancel *)

\* Seeded fault: only the worker's context is canceled.
CancelWorkerContextOnly(j) ==
  /\ LockFree
  /\ jobs[j] = "running"
  /\ jobs' = [jobs EXCEPT ![j] = "canceled"]
  /\ run' = [run EXCEPT !.wctx = TRUE]
  /\ missed' = IF run.stage = "encode" THEN missed ELSE missed \cup {j}
  /\ UNCHANGED <<nextID, ended, order, ch, adds, worker, saved, raced>>

\* The running job: j.cancel is the worker's until transcodeVideo has wrapped it.
CancelRunning(j) ==
  /\ LockFree
  /\ jobs[j] = "running"
  /\ jobs' = [jobs EXCEPT ![j] = "canceled"]
  /\ run' = [run EXCEPT !.wctx = TRUE, !.tctx = run.stage # "probe"]
  /\ missed' = IF run.stage = "encode" THEN missed ELSE missed \cup {j}
  /\ UNCHANGED <<nextID, ended, order, ch, adds, worker, saved, raced>>

\* A queued job: its id stays in the channel.
CancelQueued(j) ==
  /\ LockFree
  /\ jobs[j] = "queued"
  /\ jobs' = [jobs EXCEPT ![j] = "canceled"]
  /\ ended' = [ended EXCEPT ![j] = "recent"]
  /\ UNCHANGED <<nextID, order, ch, adds, worker, run, saved, raced, missed>>

----------------------------------------------------------------------------
(* worker *)

Receive ==
  /\ worker.pc = "idle" /\ ch # <<>>
  /\ worker' = [pc |-> "received", id |-> Head(ch)]
  /\ ch' = Tail(ch)
  /\ UNCHANGED <<nextID, jobs, ended, order, adds, run, saved, raced, missed>>

\* The row is gone or was canceled before the worker reached it.
Skip ==
  /\ LockFree
  /\ worker.pc = "received" /\ jobs[worker.id] # "queued"
  /\ worker' = Idle
  /\ UNCHANGED <<nextID, jobs, ended, order, ch, adds, run, saved, raced, missed>>

\* Seeded fault: the row is run whatever its status.
StartAnything ==
  /\ LockFree
  /\ worker.pc = "received" /\ jobs[worker.id] # "absent"
  /\ jobs' = [jobs EXCEPT ![worker.id] = "running"]
  /\ worker' = [worker EXCEPT !.pc = "run"]
  /\ run' = [NoRun EXCEPT !.stage = "probe"]
  /\ UNCHANGED <<nextID, ended, order, ch, adds, saved, raced, missed>>

Start ==
  /\ LockFree
  /\ worker.pc = "received" /\ jobs[worker.id] = "queued"
  /\ jobs' = [jobs EXCEPT ![worker.id] = "running"]
  /\ worker' = [worker EXCEPT !.pc = "run"]
  /\ run' = [NoRun EXCEPT !.stage = "probe"]
  /\ UNCHANGED <<nextID, ended, order, ch, adds, saved, raced, missed>>

\* j.run has returned: the outcome goes into the row.
Finish ==
  /\ LockFree
  /\ worker.pc = "run" /\ run.stage \in {"ok", "err"}
  /\ LET outcome == IF run.wctx \/ run.expired \/ jobs[worker.id] = "canceled" THEN "canceled"
                    ELSE IF run.stage = "err" THEN "failed" ELSE "done"
     IN jobs' = [jobs EXCEPT ![worker.id] = outcome]
  /\ ended' = [ended EXCEPT ![worker.id] = "recent"]
  /\ worker' = [worker EXCEPT !.pc = "sweep"]
  /\ run' = NoRun
  /\ UNCHANGED <<nextID, order, ch, adds, saved, raced, missed>>

\* The elements of s that are in K, in their order (SelectSeq, as a function a proof can expand).
Among(s, K) ==
  LET kept[i \in 0..Len(s)] ==
        IF i = 0 THEN <<>>
        ELSE IF s[i] \in K THEN Append(kept[i - 1], s[i]) ELSE kept[i - 1]
  IN kept[Len(s)]

\* sweep: ids with no row, and rows past jobRetention, leave; the old rows leave the map too.
\* A row that is not in the order is never looked at.
Old == {j \in ToSet(order) : jobs[j] # "absent" /\ ended[j] = "old"}
Kept == {j \in ToSet(order) : jobs[j] # "absent"} \ Old

\* Seeded fault: a row's age is not looked at for its own sake, only whether it has ended.
SweepEverythingEnded ==
  /\ LockFree
  /\ worker.pc = "sweep"
  /\ order' = Among(order, {j \in Ids : jobs[j] # "absent" /\ ended[j] = "no"})
  /\ worker' = Idle
  /\ UNCHANGED <<nextID, jobs, ended, ch, adds, run, saved, raced, missed>>

Sweep ==
  /\ LockFree
  /\ worker.pc = "sweep"
  /\ jobs' = [j \in Ids |-> IF j \in Old THEN "absent" ELSE jobs[j]]
  /\ order' = Among(order, Kept)
  /\ worker' = Idle
  /\ saved' = saved \ Old /\ missed' = missed \ Old
  /\ UNCHANGED <<nextID, ended, ch, adds, run, raced>>

\* jobRetention passes for the rows that have finished: no add call takes that long.
Age ==
  /\ \E j \in Ids : ended[j] = "recent"
  /\ \A j \in Ids : adds[j] \notin {"sending", "full"}
  /\ ended' = [j \in Ids |-> IF ended[j] = "recent" THEN "old" ELSE ended[j]]
  /\ UNCHANGED <<nextID, jobs, order, ch, adds, worker, run, saved, raced, missed>>

----------------------------------------------------------------------------
(* j.run: commitEdit around transcodeVideo *)

Running(stage) == worker.pc = "run" /\ run.stage = stage
OnlyRun == UNCHANGED <<nextID, jobs, ended, order, ch, adds, worker, raced>>

\* ffprobe has answered: transcodeVideo makes its own context and wraps j.cancel.  The new
\* context comes from context.Background(), whatever has happened to the worker's.
Wrap ==
  /\ LockFree
  /\ Running("probe")
  /\ run' = [run EXCEPT !.stage = "encode"]
  /\ OnlyRun /\ UNCHANGED <<saved, missed>>

Encoded ==
  /\ Running("encode") /\ ~run.tctx /\ ~run.wedged
  /\ run' = [run EXCEPT !.stage = "commit"]
  /\ OnlyRun /\ UNCHANGED <<saved, missed>>

\* Seeded fault: a hanging ffmpeg is not killed.
KilledUnlessWedged ==
  /\ Running("encode") /\ run.tctx /\ ~run.wedged
  /\ run' = [run EXCEPT !.stage = "err"]
  /\ OnlyRun /\ UNCHANGED <<saved, missed>>

\* CommandContext kills ffmpeg once its own context is done, even a hanging one.
Killed ==
  /\ Running("encode") /\ run.tctx
  /\ run' = [run EXCEPT !.stage = "err"]
  /\ OnlyRun /\ UNCHANGED <<saved, missed>>

\* The temporary file, ffmpeg, or putting the output in place fails.
RunFails ==
  /\ \/ Running("probe") \/ Running("commit")
     \/ Running("encode") /\ ~run.wedged
  /\ run' = [run EXCEPT !.stage = "err"]
  /\ OnlyRun /\ UNCHANGED <<saved, missed>>

\* commitEdit puts the output in place.
Commit ==
  /\ Running("commit")
  /\ run' = [run EXCEPT !.stage = "ok"]
  /\ saved' = saved \cup {worker.id}
  /\ OnlyRun /\ UNCHANGED missed

\* ffmpeg hangs.
Wedge ==
  /\ Running("encode") /\ ~run.wedged
  /\ run' = [run EXCEPT !.wedged = TRUE]
  /\ OnlyRun /\ UNCHANGED <<saved, missed>>

\* transcodeTimeout passes, which only an encoder takes long enough for: the worker's context
\* is done, and nothing in the run looks at it.
Expire ==
  /\ Running("encode") /\ ~run.expired
  /\ run' = [run EXCEPT !.expired = TRUE]
  /\ missed' = missed \cup {worker.id}
  /\ OnlyRun /\ UNCHANGED saved

----------------------------------------------------------------------------

AddStep(j) == Send(j) \/ SendFull(j) \/ Refuse(j) \/ RefusePanics(j)
WorkerStep == Receive \/ Skip \/ Start \/ Finish \/ Sweep
RunStep == Wrap \/ Encoded \/ Killed \/ Commit

Next ==
  \/ Enter
  \/ \E j \in Ids : AddStep(j) \/ CancelRunning(j) \/ CancelQueued(j)
  \/ Age \/ WorkerStep \/ RunStep \/ RunFails \/ Wedge \/ Expire

Spec == Init /\ [][Next]_vars

\* Goroutines are scheduled, ffprobe and a healthy ffmpeg end, and time passes.  Nobody
\* has to submit or cancel anything.
Fairness ==
  /\ \A j \in Ids : WF_vars(AddStep(j))
  /\ WF_vars(WorkerStep) /\ WF_vars(RunStep) /\ WF_vars(Expire)

FairSpec == Spec /\ Fairness

----------------------------------------------------------------------------
(* Properties *)

\* Every variable but q.order has its type.
TypeOK ==
  /\ nextID \in 0..MaxJobs
  /\ jobs \in [Ids -> Status]
  /\ ended \in [Ids -> {"no", "recent", "old"}]
  /\ ch \in Seq(Ids)
  /\ Len(ch) <= QueueCap
  /\ adds \in [Ids -> {"none", "sending", "full", "accepted", "refused", "panicked"}]
  /\ worker \in [pc : {"idle", "received", "run", "sweep"}, id : Ids \cup {NoId}]
  /\ (worker.pc = "idle") <=> (worker.id = NoId)
  /\ run \in [stage : Stage, wctx : BOOLEAN, tctx : BOOLEAN, expired : BOOLEAN, wedged : BOOLEAN]
  /\ saved \subseteq Ids
  /\ raced \in BOOLEAN
  /\ missed \subseteq Ids

\* No job is forgotten: a row that says "queued" is on its way to the worker.  Its id is in
\* the channel or in the worker's hands, or its add call has not come to an end.
QueuedIsScheduled ==
  \A j \in Ids : jobs[j] = "queued" =>
    \/ adds[j] \in {"sending", "full"}
    \/ j \in ToSet(ch)
    \/ worker = [pc |-> "received", id |-> j]

\* The status the client polls tells the truth about the file: a job that is done has put
\* its output in place, and one that failed or is still queued has not.
StatusMatchesOutput ==
  \A j \in Ids :
    /\ jobs[j] = "done" => j \in saved
    /\ jobs[j] \in {"queued", "failed"} => j \notin saved

\* The queue keeps what JobLife promises a client.  What waits is in the channel, and in front of
\* it the id the worker has taken from there and not yet looked at.
Waiting == IF worker.pc = "received" THEN <<worker.id>> \o ch ELSE ch
Active  == IF worker.pc = "run" THEN worker.id ELSE NoId

Life == INSTANCE JobLife WITH Job <- Ids, Nobody <- NoId, used <- 1..nextID, status <- jobs,
                              todo <- Waiting, active <- Active, output <- saved

\* Every step of the queue is one of a JobLife, or one its client does not see: whatever handlers,
\* worker, cancels and sweeps do in between, jobs run one at a time and in the turn they were
\* accepted, none twice, none after it was refused or canceled, and outcomes are true and final.
KeepsJobLife == Life!Spec

\* A finished row is never given another outcome, nor brought back to life; it only leaves.
FinishedIsFinal ==
  [][\A j \in Ids : jobs[j] \in Finished => jobs'[j] \in {jobs[j], "absent"}]_vars

\* "A job canceled before a worker reached it never starts" (jobs.go:104).
CanceledBeforeStartNeverRuns ==
  [][\A j \in Ids : jobs[j] = "canceled" /\ worker # [pc |-> "run", id |-> j]
                      => worker' # [pc |-> "run", id |-> j]]_vars

\* A job canceled while its encoder runs puts no output in place.  (One canceled before
\* transcodeVideo wrapped j.cancel, or after the encoder ended, or by the timeout, may.)
CanceledSavesNothing ==
  \A j \in Ids : jobs[j] = "canceled" /\ worker.id # j => j \notin saved \/ j \in missed

\* Map and order agree: each row is listed once and each listed id has a row, as long as
\* no refused add has overlapped another add.
RowsAreListed ==
  ~raced =>
    /\ \A j \in Ids : jobs[j] # "absent" =>
         Cardinality({i \in DOMAIN order : order[i] = j}) = 1
    /\ \A i \in DOMAIN order : jobs[order[i]] # "absent"

\* Once nobody submits any more the queue drains: each job has been refused or has come to
\* an end.  A hung encoder holds it up only until it is canceled, and overlapping refusals
\* only if one of them panics.
Drained == \A j \in Ids : jobs[j] \in Finished \cup {"absent"}
HungRunsAreCanceled == []<>(run.wedged => run.tctx)
QueueDrains == HungRunsAreCanceled => []<>(Drained \/ ~LockFree)

\* "the worker's timeout context still bounds the whole job" (jobs.go:297): a run whose
\* timeout has passed comes to an end.
TimeoutBoundsJob == [](run.expired => <>(worker.pc # "run"))

\* GET /api/jobs "returns the queue, running and recently finished" (jobs.go:194), which it
\* walks q.order for: a job whose add succeeded is in the list until it is swept.
ListShowsQueue ==
  \A j \in Ids : adds[j] = "accepted" /\ jobs[j] # "absent" => j \in ToSet(order)
============================================================================
