--------------------------- MODULE JobQueueProofs ---------------------------
(***************************************************************************)
(* For any number of jobs and any size of the channel: a queued row is     *)
(* always on its way to the worker, a row's status agrees with its output, *)
(* a finished row keeps its outcome, a job canceled before the worker      *)
(* reached it never starts and one canceled under its encoder saves        *)
(* nothing, and the rows are those that are listed.                        *)
(***************************************************************************)
EXTENDS JobQueue, SequenceTheorems, FiniteSetTheorems, WellFoundedInduction, TLAPS

----------------------------------------------------------------------------
(* The inductive invariant *)

\* An id is handed out once: nothing is known of those to come.
Fresh == \A j \in Ids : j > nextID => jobs[j] = "absent" /\ adds[j] = "none"

\* The worker only ever meets ids whose add went through.
Accepted ==
  /\ \A j \in ToSet(ch) : adds[j] = "accepted"
  /\ worker.pc # "idle" => adds[worker.id] = "accepted"
  /\ \A j \in Ids : adds[j] # "accepted" => jobs[j] \in {"absent", "queued", "canceled"}

\* A running row is the worker's, and the worker's row can only have been canceled.
Worked ==
  /\ \A j \in Ids : jobs[j] = "running" => worker.pc = "run" /\ worker.id = j
  /\ worker.pc = "run" => jobs[worker.id] \in {"running", "canceled"}
  /\ worker.pc = "run" <=> run.stage # "none"

\* Where outputs come from: a run that is through, and rows that came out of one.
Outputs ==
  /\ \A j \in Ids : jobs[j] = "done" => j \in saved
  /\ \A j \in Ids : jobs[j] \in {"absent", "queued", "failed"} => j \notin saved
  /\ \A j \in Ids : adds[j] # "accepted" => j \notin saved
  /\ worker.pc = "run" => (worker.id \in saved <=> run.stage = "ok")

IInv == TypeOK /\ Fresh /\ Accepted /\ Worked /\ Outputs /\ QueuedIsScheduled

----------------------------------------------------------------------------
(* The channel *)

\* Appending an id adds it to what is in the channel.
LEMMA AppendElements ==
  ASSUME NEW S, NEW s \in Seq(S), NEW e \in S
  PROVE  /\ Append(s, e) \in Seq(S) /\ Len(Append(s, e)) = Len(s) + 1
         /\ ToSet(Append(s, e)) = ToSet(s) \cup {e}
<1>1. /\ Append(s, e) \in Seq(S) /\ Len(Append(s, e)) = Len(s) + 1
      /\ \A i \in 1..Len(s) : Append(s, e)[i] = s[i]
      /\ Append(s, e)[Len(s) + 1] = e
  BY AppendProperties
<1>2. DOMAIN s = 1..Len(s) /\ DOMAIN Append(s, e) = 1..(Len(s) + 1) /\ Len(s) \in Nat
  BY <1>1, LenProperties
<1>3. \A x : x \in ToSet(Append(s, e)) <=> x \in ToSet(s) \/ x = e
  BY <1>1, <1>2 DEF ToSet
<1> QED
  BY <1>1, <1>3

\* Taking the head leaves every other id in the channel.
LEMMA TailElements ==
  ASSUME NEW S, NEW s \in Seq(S), s # <<>>
  PROVE  /\ Head(s) \in S /\ Head(s) \in ToSet(s)
         /\ Tail(s) \in Seq(S) /\ Len(Tail(s)) = Len(s) - 1
         /\ ToSet(Tail(s)) \subseteq ToSet(s)
         /\ ToSet(s) \subseteq ToSet(Tail(s)) \cup {Head(s)}
<1>1. /\ Head(s) \in S /\ Tail(s) \in Seq(S) /\ Len(Tail(s)) = Len(s) - 1
      /\ \A i \in 1..Len(Tail(s)) : Tail(s)[i] = s[i + 1]
  BY HeadTailProperties
<1>2. /\ DOMAIN s = 1..Len(s) /\ DOMAIN Tail(s) = 1..Len(Tail(s))
      /\ Len(s) \in Nat /\ Len(s) > 0 /\ Head(s) = s[1]
  BY <1>1, LenProperties, EmptySeq
<1>3. Head(s) \in ToSet(s)
  BY <1>2 DEF ToSet
<1>4. ToSet(Tail(s)) \subseteq ToSet(s)
  BY <1>1, <1>2 DEF ToSet
<1>5. ASSUME NEW i \in DOMAIN s PROVE s[i] \in ToSet(Tail(s)) \cup {Head(s)}
  <2>1. CASE i = 1
    BY <1>2, <2>1
  <2>2. CASE i # 1
    <3>1. i - 1 \in DOMAIN Tail(s) /\ Tail(s)[i - 1] = s[i]
      BY <1>1, <1>2, <2>2
    <3> QED
      BY <3>1 DEF ToSet
  <2> QED
    BY <2>1, <2>2
<1> QED
  BY <1>1, <1>3, <1>4, <1>5 DEF ToSet

LEMMA ElementsType == ASSUME NEW S, NEW s \in Seq(S) PROVE ToSet(s) \subseteq S
BY ElementOfSeq, LenProperties DEF ToSet

LEMMA EmptyElements == ToSet(<<>>) = {}
BY DEF ToSet

----------------------------------------------------------------------------
(* Initially *)

LEMMA IInvInit == Init => IInv
<1> SUFFICES ASSUME Init PROVE IInv
  OBVIOUS
<1>1. /\ nextID = 0 /\ ch = <<>> /\ saved = {} /\ missed = {}
      /\ worker.pc = "idle" /\ worker.id = NoId /\ run.stage = "none"
      /\ \A j \in Ids : jobs[j] = "absent" /\ adds[j] = "none"
  BY DEF Init, Idle, NoRun
<1>2. TypeOK
  <2>1. nextID \in 0..MaxJobs
    BY <1>1, SizesAssumption
  <2>2. /\ jobs \in [Ids -> Status] /\ ended \in [Ids -> {"no", "recent", "old"}]
        /\ adds \in [Ids -> {"none", "sending", "full", "accepted", "refused", "panicked"}]
    BY DEF Init, Status
  <2>3. ch \in Seq(Ids) /\ Len(ch) <= QueueCap
    BY <1>1, SizesAssumption
  <2>4. worker \in [pc : {"idle", "received", "run", "sweep"}, id : Ids \cup {NoId}]
    BY DEF Init, Idle
  <2>5. run \in [stage : Stage, wctx : BOOLEAN, tctx : BOOLEAN, expired : BOOLEAN,
                 wedged : BOOLEAN]
    BY DEF Init, NoRun, Stage
  <2>6. raced \in BOOLEAN
    BY DEF Init
  <2> QED
    BY <1>1, <2>1, <2>2, <2>3, <2>4, <2>5, <2>6 DEF TypeOK
<1> QED
  BY <1>1, <1>2, EmptyElements
  DEF IInv, Fresh, Accepted, Worked, Outputs, QueuedIsScheduled

----------------------------------------------------------------------------
(* add and cancel *)

LEMMA EnterKeeps == IInv /\ Enter => IInv'
<1> SUFFICES ASSUME IInv, Enter PROVE IInv'
  OBVIOUS
<1> DEFINE j == nextID + 1
<1>1. /\ j \in Ids /\ nextID' = j
      /\ jobs' = [jobs EXCEPT ![j] = "queued"] /\ adds' = [adds EXCEPT ![j] = "sending"]
      /\ UNCHANGED <<ended, ch, worker, run, saved, raced, missed>>
  BY SizesAssumption DEF Enter, IInv, TypeOK, Ids
<1>2. jobs[j] = "absent" /\ adds[j] = "none"
  BY <1>1 DEF IInv, Fresh, TypeOK
<1>3. TypeOK'
  BY <1>1, SizesAssumption DEF IInv, TypeOK, Status, Ids
<1>4. Fresh'
  BY <1>1 DEF IInv, TypeOK, Fresh, Ids
<1>5. Accepted'
  BY <1>1, <1>2 DEF IInv, TypeOK, Accepted
<1>6. Worked'
  BY <1>1, <1>2 DEF IInv, TypeOK, Worked
<1>7. Outputs'
  BY <1>1, <1>2 DEF IInv, TypeOK, Outputs
<1>8. QueuedIsScheduled'
  BY <1>1 DEF IInv, TypeOK, QueuedIsScheduled
<1> QED
  BY <1>3, <1>4, <1>5, <1>6, <1>7, <1>8 DEF IInv

LEMMA SendKeeps ==
  ASSUME IInv, NEW j \in Ids, Send(j) \/ SendFull(j)
  PROVE  IInv'
<1>1. /\ adds[j] = "sending"
      /\ UNCHANGED <<nextID, jobs, ended, order, worker, run, saved, raced, missed>>
  BY DEF Send, SendFull
<1>2. \/ /\ ch' \in Seq(Ids) /\ Len(ch') <= QueueCap /\ ToSet(ch') = ToSet(ch) \cup {j}
         /\ adds' = [adds EXCEPT ![j] = "accepted"]
      \/ ch' = ch /\ adds' = [adds EXCEPT ![j] = "full"]
  <2>1. CASE Send(j)
    <3>1. ch \in Seq(Ids) /\ Len(ch) \in Nat /\ Len(ch) < QueueCap
      BY <2>1, LenProperties DEF IInv, TypeOK, Send
    <3> QED
      BY <2>1, <3>1, AppendElements, SizesAssumption DEF Send
  <2>2. CASE SendFull(j)
    BY <2>2 DEF SendFull
  <2> QED
    BY <2>1, <2>2
<1>3. TypeOK'
  BY <1>1, <1>2 DEF IInv, TypeOK
<1>4. Fresh'
  BY <1>1, <1>2 DEF IInv, TypeOK, Fresh
<1>5. Accepted'
  <2>1. ToSet(ch) \subseteq Ids
    BY ElementsType DEF IInv, TypeOK
  <2>2. \A k \in ToSet(ch) : adds[k] = "accepted" /\ k # j
    BY <1>1 DEF IInv, Accepted
  <2>3. \A k \in ToSet(ch') : adds'[k] = "accepted"
    BY <1>2, <2>1, <2>2 DEF IInv, TypeOK
  <2>4. worker.pc # "idle" => adds'[worker.id] = "accepted"
    BY <1>1, <1>2 DEF IInv, TypeOK, Accepted
  <2>5. \A k \in Ids : adds'[k] # "accepted" => jobs[k] \in {"absent", "queued", "canceled"}
    BY <1>1, <1>2 DEF IInv, TypeOK, Accepted
  <2> QED
    BY <1>1, <2>3, <2>4, <2>5 DEF Accepted
<1>6. Worked'
  BY <1>1 DEF IInv, Worked
<1>7. Outputs'
  BY <1>1, <1>2 DEF IInv, TypeOK, Outputs
<1>8. QueuedIsScheduled'
  BY <1>1, <1>2 DEF IInv, TypeOK, QueuedIsScheduled
<1> QED
  BY <1>3, <1>4, <1>5, <1>6, <1>7, <1>8 DEF IInv

LEMMA RefuseKeeps ==
  ASSUME IInv, NEW j \in Ids, Refuse(j) \/ RefusePanics(j)
  PROVE  IInv'
<1>1. /\ adds[j] = "full" /\ jobs' = [jobs EXCEPT ![j] = "absent"]
      /\ UNCHANGED <<nextID, ended, ch, worker, run, saved, missed>>
      /\ \E how \in {"refused", "panicked"} : adds' = [adds EXCEPT ![j] = how]
  BY DEF Refuse, RefusePanics
<1>2. raced' \in BOOLEAN
  BY Zenon DEF Refuse, RefusePanics, IInv, TypeOK
<1>3. TypeOK'
  BY <1>1, <1>2 DEF IInv, TypeOK, Status
<1>4. Fresh'
  BY <1>1 DEF IInv, TypeOK, Fresh
<1>5. Accepted'
  BY <1>1 DEF IInv, TypeOK, Accepted
<1>6. Worked'
  BY <1>1 DEF IInv, TypeOK, Worked, Accepted
<1>7. Outputs'
  BY <1>1 DEF IInv, TypeOK, Outputs
<1>8. QueuedIsScheduled'
  BY <1>1 DEF IInv, TypeOK, QueuedIsScheduled
<1> QED
  BY <1>3, <1>4, <1>5, <1>6, <1>7, <1>8 DEF IInv

LEMMA CancelKeeps ==
  ASSUME IInv, NEW j \in Ids, CancelRunning(j) \/ CancelQueued(j)
  PROVE  IInv'
<1>1. /\ jobs[j] \in {"running", "queued"} /\ jobs' = [jobs EXCEPT ![j] = "canceled"]
      /\ UNCHANGED <<nextID, order, ch, adds, worker, saved, raced>>
  BY DEF CancelRunning, CancelQueued
<1>2. /\ run' \in [stage : Stage, wctx : BOOLEAN, tctx : BOOLEAN, expired : BOOLEAN,
                   wedged : BOOLEAN]
      /\ run'.stage = run.stage
  BY DEF CancelRunning, CancelQueued, IInv, TypeOK
<1>3. ended' \in [Ids -> {"no", "recent", "old"}] /\ missed' \subseteq Ids
  BY DEF CancelRunning, CancelQueued, IInv, TypeOK
<1>4. TypeOK'
  BY <1>1, <1>2, <1>3 DEF IInv, TypeOK, Status, Finished
<1>5. Fresh'
  BY <1>1 DEF IInv, TypeOK, Fresh
<1>6. Accepted'
  BY <1>1 DEF IInv, TypeOK, Accepted
<1>7. Worked'
  BY <1>1, <1>2 DEF IInv, TypeOK, Worked
<1>8. Outputs'
  BY <1>1, <1>2 DEF IInv, TypeOK, Outputs
<1>9. QueuedIsScheduled'
  BY <1>1 DEF IInv, TypeOK, QueuedIsScheduled
<1> QED
  BY <1>4, <1>5, <1>6, <1>7, <1>8, <1>9 DEF IInv

----------------------------------------------------------------------------
(* The worker *)

LEMMA ReceiveKeeps == IInv /\ Receive => IInv'
<1> SUFFICES ASSUME IInv, Receive PROVE IInv'
  OBVIOUS
<1> DEFINE id == Head(ch)
<1>1. /\ worker.pc = "idle" /\ worker' = [pc |-> "received", id |-> id] /\ ch' = Tail(ch)
      /\ UNCHANGED <<nextID, jobs, ended, order, adds, run, saved, raced, missed>>
  BY DEF Receive
<1>2. /\ id \in Ids /\ id \in ToSet(ch) /\ ch' \in Seq(Ids) /\ Len(ch') <= QueueCap
      /\ ToSet(ch') \subseteq ToSet(ch) /\ ToSet(ch) \subseteq ToSet(ch') \cup {id}
  <2>1. ch \in Seq(Ids) /\ ch # <<>> /\ Len(ch) <= QueueCap /\ Len(ch) \in Nat
    BY LenProperties DEF Receive, IInv, TypeOK
  <2> QED
    BY <1>1, <2>1, TailElements, SizesAssumption
<1>3. worker'.pc = "received" /\ worker'.id = id
  BY <1>1
<1>4. TypeOK'
  BY <1>1, <1>2 DEF IInv, TypeOK, Ids, NoId
<1>5. Fresh'
  BY <1>1 DEF IInv, Fresh
<1>6. Accepted'
  BY <1>1, <1>2, <1>3 DEF IInv, Accepted
<1>7. Worked'
  BY <1>1, <1>3 DEF IInv, Worked
<1>8. Outputs'
  BY <1>1, <1>3 DEF IInv, Outputs
<1>9. QueuedIsScheduled'
  BY <1>1, <1>2 DEF IInv, QueuedIsScheduled
<1> QED
  BY <1>4, <1>5, <1>6, <1>7, <1>8, <1>9 DEF IInv

LEMMA SkipKeeps == IInv /\ Skip => IInv'
<1> SUFFICES ASSUME IInv, Skip PROVE IInv'
  OBVIOUS
<1>1. /\ worker.pc = "received" /\ jobs[worker.id] # "queued"
      /\ worker' = [pc |-> "idle", id |-> NoId] /\ worker'.pc = "idle" /\ worker'.id = NoId
      /\ UNCHANGED <<nextID, jobs, ended, order, ch, adds, run, saved, raced, missed>>
  BY DEF Skip, Idle
<1>2. TypeOK'
  BY <1>1 DEF IInv, TypeOK
<1>3. Fresh' /\ Accepted'
  BY <1>1 DEF IInv, Fresh, Accepted
<1>4. Worked' /\ Outputs'
  BY <1>1 DEF IInv, Worked, Outputs
<1>5. QueuedIsScheduled'
  BY <1>1 DEF IInv, QueuedIsScheduled
<1> QED
  BY <1>2, <1>3, <1>4, <1>5 DEF IInv

\* The two steps that write the status of the worker's own row.
LEMMA StartKeeps == IInv /\ Start => IInv'
<1> SUFFICES ASSUME IInv, Start PROVE IInv'
  OBVIOUS
<1> DEFINE id == worker.id
<1>1. /\ worker.pc = "received" /\ jobs[id] = "queued"
      /\ jobs' = [jobs EXCEPT ![id] = "running"]
      /\ UNCHANGED <<nextID, ended, order, ch, adds, saved, raced, missed>>
  BY DEF Start
<1>2. worker'.pc = "run" /\ worker'.id = id /\ id \in Ids
  BY <1>1 DEF Start, IInv, TypeOK
<1>3. /\ worker' \in [pc : {"idle", "received", "run", "sweep"}, id : Ids \cup {NoId}]
      /\ id # NoId
  BY <1>1 DEF Start, IInv, TypeOK
<1>4. run'.stage = "probe"
  BY DEF Start, NoRun
<1>5. run' \in [stage : Stage, wctx : BOOLEAN, tctx : BOOLEAN, expired : BOOLEAN,
                wedged : BOOLEAN]
  BY DEF Start, NoRun, Stage
<1>6. TypeOK'
  BY <1>1, <1>2, <1>3, <1>5 DEF IInv, TypeOK, Status
<1>7. Fresh'
  BY <1>1, <1>2 DEF IInv, TypeOK, Fresh
<1>8. Accepted'
  BY <1>1, <1>2 DEF IInv, TypeOK, Accepted
<1>9. Worked'
  BY <1>1, <1>2, <1>4 DEF IInv, TypeOK, Worked
<1>10. Outputs'
  BY <1>1, <1>2, <1>4 DEF IInv, TypeOK, Outputs
<1>11. QueuedIsScheduled'
  BY <1>1, <1>2 DEF IInv, TypeOK, QueuedIsScheduled
<1> QED
  BY <1>6, <1>7, <1>8, <1>9, <1>10, <1>11 DEF IInv

LEMMA FinishKeeps == IInv /\ Finish => IInv'
<1> SUFFICES ASSUME IInv, Finish PROVE IInv'
  OBVIOUS
<1> DEFINE id == worker.id
<1>1. /\ worker.pc = "run" /\ run.stage \in {"ok", "err"} /\ run' = NoRun
      /\ UNCHANGED <<nextID, order, ch, adds, saved, raced, missed>>
  BY DEF Finish
<1>2. \E outcome \in Finished :
        /\ jobs' = [jobs EXCEPT ![id] = outcome]
        /\ outcome = "done" => run.stage = "ok"
        /\ outcome = "failed" => run.stage = "err"
  BY <1>1 DEF Finish, Finished
<1>3. worker'.pc = "sweep" /\ worker'.id = id /\ id \in Ids
  BY <1>1 DEF Finish, IInv, TypeOK
<1>4. /\ worker' \in [pc : {"idle", "received", "run", "sweep"}, id : Ids \cup {NoId}]
      /\ id # NoId
  BY <1>1 DEF Finish, IInv, TypeOK
<1>5. /\ run' \in [stage : Stage, wctx : BOOLEAN, tctx : BOOLEAN, expired : BOOLEAN,
                   wedged : BOOLEAN]
      /\ run'.stage = "none"
  BY <1>1 DEF NoRun, Stage
<1>6. ended' \in [Ids -> {"no", "recent", "old"}]
  BY DEF Finish, IInv, TypeOK
<1>7. TypeOK'
  <2>1. jobs' \in [Ids -> Status]
    BY <1>2 DEF IInv, TypeOK, Status
  <2>2. (worker'.pc = "idle") <=> (worker'.id = NoId)
    BY <1>3, <1>4
  <2> QED
    BY <1>1, <1>4, <1>5, <1>6, <2>1, <2>2 DEF IInv, TypeOK
<1>8. Fresh'
  BY <1>1, <1>2, <1>3 DEF IInv, TypeOK, Fresh, Worked
<1>9. Accepted'
  BY <1>1, <1>2, <1>3 DEF IInv, TypeOK, Accepted
<1>10. Worked'
  BY <1>1, <1>2, <1>3, <1>5 DEF IInv, TypeOK, Worked, Finished
<1>11. Outputs'
  BY <1>1, <1>2, <1>3 DEF IInv, TypeOK, Outputs, Finished
<1>12. QueuedIsScheduled'
  BY <1>1, <1>2, <1>3 DEF IInv, TypeOK, QueuedIsScheduled, Finished
<1> QED
  BY <1>7, <1>8, <1>9, <1>10, <1>11, <1>12 DEF IInv

LEMMA SweepKeeps == IInv /\ Sweep => IInv'
<1> SUFFICES ASSUME IInv, Sweep PROVE IInv'
  OBVIOUS
<1>1. /\ worker.pc = "sweep" /\ worker' = [pc |-> "idle", id |-> NoId]
      /\ worker'.pc = "idle" /\ worker'.id = NoId
      /\ saved' = saved \ Old /\ missed' = missed \ Old
      /\ UNCHANGED <<nextID, ended, ch, adds, run, raced>>
  BY DEF Sweep, Idle
<1>2. jobs' = [j \in Ids |-> IF j \in Old THEN "absent" ELSE jobs[j]]
  BY DEF Sweep
<1> HIDE DEF Old
<1>3. TypeOK'
  BY <1>1, <1>2 DEF IInv, TypeOK, Status
<1>4. Fresh'
  BY <1>1, <1>2 DEF IInv, TypeOK, Fresh
<1>5. Accepted'
  BY <1>1, <1>2 DEF IInv, TypeOK, Accepted
<1>6. Worked'
  BY <1>1, <1>2 DEF IInv, TypeOK, Worked
<1>7. Outputs'
  BY <1>1, <1>2 DEF IInv, TypeOK, Outputs
<1>8. QueuedIsScheduled'
  BY <1>1, <1>2 DEF IInv, TypeOK, QueuedIsScheduled
<1> QED
  BY <1>3, <1>4, <1>5, <1>6, <1>7, <1>8 DEF IInv

LEMMA AgeKeeps == IInv /\ Age => IInv'
BY DEF IInv, Age, TypeOK, Fresh, Accepted, Worked, Outputs, QueuedIsScheduled

----------------------------------------------------------------------------
(* The run *)

\* A run moves from stage to stage; only Commit puts an output in place, on its way to "ok".
LEMMA RunKeeps ==
  ASSUME IInv, RunStep \/ RunFails \/ Wedge \/ Expire
  PROVE  IInv'
<1>1. /\ worker.pc = "run" /\ run.stage \in {"probe", "encode", "commit"}
      /\ UNCHANGED <<nextID, jobs, ended, order, ch, adds, worker, raced>>
  BY DEF RunStep, Wrap, Encoded, Killed, Commit, RunFails, Wedge, Expire, Running, OnlyRun
<1>2. worker.id \in Ids
  BY <1>1 DEF IInv, TypeOK
<1>3. run' \in [stage : Stage, wctx : BOOLEAN, tctx : BOOLEAN, expired : BOOLEAN,
                wedged : BOOLEAN]
  BY DEF RunStep, Wrap, Encoded, Killed, Commit, RunFails, Wedge, Expire, Stage, IInv, TypeOK
<1>4. /\ run'.stage \in {"probe", "encode", "commit", "ok", "err"}
      /\ run'.stage = "ok" => saved' = saved \cup {worker.id}
      /\ run'.stage # "ok" => saved' = saved
  BY <1>1 DEF RunStep, Wrap, Encoded, Killed, Commit, RunFails, Wedge, Expire, Running,
              OnlyRun, IInv, TypeOK
<1>5. missed' \subseteq Ids
  BY <1>2 DEF RunStep, Wrap, Encoded, Killed, Commit, RunFails, Wedge, Expire, OnlyRun,
              IInv, TypeOK
<1>6. TypeOK'
  BY <1>1, <1>2, <1>3, <1>4, <1>5 DEF IInv, TypeOK
<1>7. Fresh' /\ Accepted'
  BY <1>1 DEF IInv, Fresh, Accepted
<1>8. Worked'
  BY <1>1, <1>4 DEF IInv, Worked
<1>9. Outputs'
  BY <1>1, <1>2, <1>4 DEF IInv, TypeOK, Outputs, Accepted, Worked
<1>10. QueuedIsScheduled'
  BY <1>1 DEF IInv, QueuedIsScheduled
<1> QED
  BY <1>6, <1>7, <1>8, <1>9, <1>10 DEF IInv

----------------------------------------------------------------------------
(* The theorems *)

LEMMA IInvNext == IInv /\ [Next]_vars => IInv'
<1>1. IInv /\ UNCHANGED vars => IInv'
  BY DEF vars, IInv, TypeOK, Fresh, Accepted, Worked, Outputs, QueuedIsScheduled
<1> QED
  BY <1>1, EnterKeeps, SendKeeps, RefuseKeeps, CancelKeeps, ReceiveKeeps, SkipKeeps,
     StartKeeps, FinishKeeps, SweepKeeps, AgeKeeps, RunKeeps
  DEF Next, AddStep, WorkerStep

LEMMA Inductive == Spec => []IInv
BY IInvInit, IInvNext, PTL DEF Spec

\* Every reachable state has its type: in particular the channel never holds more than its
\* capacity.
THEOREM TypeCorrect == Spec => []TypeOK
<1>1. IInv => TypeOK
  BY DEF IInv
<1> QED
  BY <1>1, Inductive, PTL

\* However adds, refusals, cancels and the worker interleave, no queued row is forgotten.
THEOREM NoneForgotten == Spec => []QueuedIsScheduled
<1>1. IInv => QueuedIsScheduled
  BY DEF IInv
<1> QED
  BY <1>1, Inductive, PTL

\* A done row has its output in place, a queued or failed one has none.
THEOREM StatusTruthful == Spec => []StatusMatchesOutput
<1>1. IInv => StatusMatchesOutput
  BY DEF IInv, Outputs, StatusMatchesOutput
<1> QED
  BY <1>1, Inductive, PTL

\* A finished row keeps its outcome until it is swept.
THEOREM OutcomeKept == Spec => FinishedIsFinal
<1> DEFINE FinalStep == \A j \in Ids : jobs[j] \in Finished => jobs'[j] \in {jobs[j], "absent"}
<1>1. IInv /\ [Next]_vars => FinalStep
  <2> SUFFICES ASSUME IInv, [Next]_vars, NEW j \in Ids, jobs[j] \in Finished
               PROVE  jobs'[j] \in {jobs[j], "absent"}
    OBVIOUS
  <2>1. jobs[j] # "absent" /\ jobs[j] # "queued" /\ jobs[j] # "running"
    BY DEF Finished
  <2>2. CASE Enter
    BY <2>1, <2>2 DEF Enter, IInv, TypeOK, Fresh
  <2>3. CASE \E k \in Ids : AddStep(k) \/ CancelRunning(k) \/ CancelQueued(k)
    BY <2>1, <2>3 DEF AddStep, Send, SendFull, Refuse, RefusePanics, CancelRunning,
                      CancelQueued, IInv, TypeOK
  <2>4. CASE Finish
    <3>1. worker.id = j => jobs[j] = "canceled"
      BY <2>1, <2>4 DEF Finish, IInv, Worked
    <3> QED
      BY <2>4, <3>1 DEF Finish, IInv, TypeOK
  <2>5. CASE Receive \/ Skip \/ Start \/ Sweep
    BY <2>1, <2>5 DEF Receive, Skip, Start, Sweep, IInv, TypeOK
  <2>6. CASE Age \/ RunStep \/ RunFails \/ Wedge \/ Expire \/ UNCHANGED vars
    BY <2>6 DEF Age, RunStep, Wrap, Encoded, Killed, Commit, RunFails, Wedge, Expire,
                OnlyRun, vars
  <2> QED
    BY <2>2, <2>3, <2>4, <2>5, <2>6 DEF Next, WorkerStep
<1>2. IInv /\ [Next]_vars => [FinalStep]_vars
  BY <1>1
<1> QED
  BY <1>2, Inductive, PTL DEF Spec, FinishedIsFinal

\* A job canceled before the worker reached it is never run.
THEOREM CanceledNeverStarts == Spec => CanceledBeforeStartNeverRuns
<1> DEFINE On(j) == [pc |-> "run", id |-> j]
           StartStep == \A j \in Ids : jobs[j] = "canceled" /\ worker # On(j) => worker' # On(j)
<1>1. IInv /\ [Next]_vars => StartStep
  <2> SUFFICES ASSUME IInv, [Next]_vars, NEW j \in Ids, jobs[j] = "canceled", worker' = On(j)
               PROVE  worker = On(j)
    OBVIOUS
  <2>1. CASE Start
    BY <2>1 DEF Start, IInv, TypeOK
  <2>2. ~(Receive \/ Skip \/ Finish \/ Sweep)
    BY DEF Receive, Skip, Finish, Sweep, Idle, IInv, TypeOK
  <2>3. CASE worker' = worker
    BY <2>3
  <2> QED
    BY <2>1, <2>2, <2>3
    DEF Next, AddStep, WorkerStep, RunStep, Enter, Send, SendFull, Refuse, RefusePanics,
        CancelRunning, CancelQueued, Age, Wrap, Encoded, Killed, Commit, RunFails, Wedge,
        Expire, OnlyRun, vars
<1>2. IInv /\ [Next]_vars => [StartStep]_vars
  BY <1>1
<1> QED
  BY <1>2, Inductive, PTL DEF Spec, CanceledBeforeStartNeverRuns

----------------------------------------------------------------------------
(* A canceled job saves nothing *)

\* While a canceled job runs, its encoder has been told, or has failed already, or nobody
\* could tell it; a run that was told anything was canceled or has expired.  A canceled job that
\* is not running any more has left nothing behind.
Silent ==
  /\ worker.pc = "run" =>
       /\ jobs[worker.id] = "canceled" => \/ worker.id \in missed
                                          \/ run.stage = "encode" /\ run.tctx
                                          \/ run.stage = "err"
       /\ run.wctx => jobs[worker.id] = "canceled"
       /\ run.expired => worker.id \in missed
  /\ \A j \in Ids : jobs[j] = "canceled" /\ ~(worker.pc = "run" /\ worker.id = j)
                      => j \notin saved \/ j \in missed

LEMMA SilentNext == IInv /\ Silent /\ [Next]_vars => Silent'
<1> SUFFICES ASSUME IInv, Silent, [Next]_vars PROVE Silent'
  OBVIOUS
<1>0. jobs \in [Ids -> Status] /\ missed \subseteq Ids
  BY DEF IInv, TypeOK
<1>1. CASE Enter
  <2>1. PICK j : /\ j = nextID + 1 /\ jobs' = [jobs EXCEPT ![j] = "queued"]
                 /\ UNCHANGED <<worker, run, saved, missed>>
    BY <1>1 DEF Enter
  <2>2. j \in Ids /\ jobs[j] = "absent"
    BY <1>1, <2>1, SizesAssumption DEF Enter, IInv, Fresh, TypeOK, Ids
  <2>3. worker.pc = "run" => worker.id # j
    BY <2>2 DEF IInv, Worked
  <2> QED
    BY <1>0, <2>1, <2>2, <2>3 DEF Silent
<1>2. CASE \E j \in Ids : Send(j) \/ SendFull(j)
  BY <1>2 DEF Send, SendFull, Silent
<1>3. CASE \E j \in Ids : Refuse(j) \/ RefusePanics(j)
  <2>1. PICK j \in Ids : /\ adds[j] = "full" /\ jobs' = [jobs EXCEPT ![j] = "absent"]
                         /\ UNCHANGED <<worker, run, saved, missed>>
    BY <1>3 DEF Refuse, RefusePanics
  <2>2. worker.pc = "run" => worker.id # j
    BY <2>1 DEF IInv, Accepted
  <2> QED
    BY <1>0, <2>1, <2>2 DEF Silent
<1>4. CASE \E j \in Ids : CancelRunning(j)
  <2>1. PICK j \in Ids : /\ jobs[j] = "running" /\ jobs' = [jobs EXCEPT ![j] = "canceled"]
                         /\ run' = [run EXCEPT !.wctx = TRUE, !.tctx = run.stage # "probe"]
                         /\ missed' = IF run.stage = "encode" THEN missed ELSE missed \cup {j}
                         /\ UNCHANGED <<worker, saved>>
    BY <1>4 DEF CancelRunning
  <2>2. worker.pc = "run" /\ worker.id = j
    BY <2>1 DEF IInv, Worked
  <2>3. /\ run'.stage = run.stage /\ run'.tctx = (run.stage # "probe")
        /\ run'.expired = run.expired
    BY <2>1 DEF IInv, TypeOK
  <2>4. jobs'[j] = "canceled" /\ \A k \in Ids \ {j} : jobs'[k] = jobs[k]
    BY <1>0, <2>1
  <2>5. j \in missed' \/ (run'.stage = "encode" /\ run'.tctx)
    <3>1. run.stage # "encode" => j \in missed'
      BY <2>1
    <3>2. run.stage = "encode" => run'.stage = "encode" /\ run'.tctx
      BY <2>3
    <3> QED
      BY <3>1, <3>2
  <2>6. missed \subseteq missed'
    BY <2>1
  <2> QED
    BY <2>1, <2>2, <2>3, <2>4, <2>5, <2>6 DEF Silent
<1>5. CASE \E j \in Ids : CancelQueued(j)
  <2>1. PICK j \in Ids : /\ jobs[j] = "queued" /\ jobs' = [jobs EXCEPT ![j] = "canceled"]
                         /\ UNCHANGED <<worker, run, saved, missed>>
    BY <1>5 DEF CancelQueued
  <2>2. (worker.pc = "run" => worker.id # j) /\ j \notin saved
    BY <2>1 DEF IInv, Worked, Outputs
  <2> QED
    BY <1>0, <2>1, <2>2 DEF Silent
<1>6. CASE Receive \/ Skip
  <2>1. worker.pc # "run" /\ worker'.pc # "run" /\ UNCHANGED <<jobs, saved, missed>>
    BY <1>6 DEF Receive, Skip, Idle
  <2> QED
    BY <2>1 DEF Silent
<1>7. CASE Start
  <2> DEFINE id == worker.id
  <2>1. /\ worker.pc = "received" /\ jobs[id] = "queued" /\ id \in Ids
        /\ jobs' = [jobs EXCEPT ![id] = "running"] /\ worker'.pc = "run" /\ worker'.id = id
        /\ UNCHANGED <<saved, missed>>
    BY <1>7 DEF Start, IInv, TypeOK
  <2>2. ~run'.wctx /\ ~run'.expired
    BY <1>7 DEF Start, NoRun
  <2>3. jobs'[id] = "running" /\ \A k \in Ids \ {id} : jobs'[k] = jobs[k]
    BY <1>0, <2>1
  <2> QED
    BY <2>1, <2>2, <2>3 DEF Silent
<1>8. CASE Finish
  <2> DEFINE id == worker.id
  <2>1. /\ worker.pc = "run" /\ run.stage \in {"ok", "err"} /\ id \in Ids
        /\ worker'.pc = "sweep" /\ UNCHANGED <<saved, missed>>
    BY <1>8 DEF Finish, IInv, TypeOK
  <2>2. /\ jobs'[id] = "canceled" => run.wctx \/ run.expired \/ jobs[id] = "canceled"
        /\ \A k \in Ids \ {id} : jobs'[k] = jobs[k]
    BY <1>0, <1>8, <2>1 DEF Finish
  <2>3. jobs'[id] = "canceled" => id \in missed \/ run.stage = "err"
    BY <2>1, <2>2 DEF Silent
  <2>4. run.stage = "err" => id \notin saved
    BY <2>1 DEF IInv, Outputs
  <2> QED
    BY <2>1, <2>2, <2>3, <2>4 DEF Silent
<1>9. CASE Sweep
  <2>1. /\ worker.pc = "sweep" /\ worker'.pc # "run"
        /\ jobs' = [j \in Ids |-> IF j \in Old THEN "absent" ELSE jobs[j]]
        /\ saved' = saved \ Old /\ missed' = missed \ Old
    BY <1>9 DEF Sweep, Idle
  <2> HIDE DEF Old
  <2>2. \A j \in Ids : jobs'[j] = "canceled" => jobs[j] = "canceled" /\ j \notin Old
    BY <2>1
  <2> QED
    BY <2>1, <2>2 DEF Silent
<1>10. CASE Age \/ UNCHANGED vars
  BY <1>10 DEF Age, vars, Silent
<1>11. CASE RunStep \/ RunFails \/ Wedge \/ Expire
  <2>1. /\ worker.pc = "run" /\ worker.id \in Ids /\ run.stage # "err"
        /\ UNCHANGED <<jobs, worker>>
    BY <1>11 DEF RunStep, Wrap, Encoded, Killed, Commit, RunFails, Wedge, Expire, Running,
                 OnlyRun, IInv, TypeOK
  <2>2. run'.wctx = run.wctx
    BY <1>11 DEF RunStep, Wrap, Encoded, Killed, Commit, RunFails, Wedge, Expire, IInv, TypeOK
  <2>3. run'.expired => run.expired \/ worker.id \in missed'
    BY <1>11, <2>1 DEF RunStep, Wrap, Encoded, Killed, Commit, RunFails, Wedge, Expire,
                       IInv, TypeOK
  <2>4. missed \subseteq missed'
    BY <1>11 DEF RunStep, Wrap, Encoded, Killed, Commit, RunFails, Wedge, Expire
  <2>5. \A j \in saved' : j \in saved \/ j = worker.id
    BY <1>11 DEF RunStep, Wrap, Encoded, Killed, Commit, RunFails, Wedge, Expire
  <2>6. run.stage = "encode" /\ run.tctx => \/ run'.stage = "encode" /\ run'.tctx
                                            \/ run'.stage = "err"
    BY <1>11 DEF RunStep, Wrap, Encoded, Killed, Commit, RunFails, Wedge, Expire, Running,
                 IInv, TypeOK
  <2> QED
    BY <2>1, <2>2, <2>3, <2>4, <2>5, <2>6 DEF Silent
<1> QED
  BY <1>1, <1>2, <1>3, <1>4, <1>5, <1>6, <1>7, <1>8, <1>9, <1>10, <1>11
  DEF Next, AddStep, WorkerStep

\* A job that is canceled while its encoder runs puts no output in place, whatever ffmpeg, the
\* timeout and the sweep do then (jobs.go, resize.go).
THEOREM CanceledIsSilent == Spec => []CanceledSavesNothing
<1>1. Init => Silent
  BY DEF Init, Silent, Idle
<1>2. IInv /\ Silent => CanceledSavesNothing
  BY DEF Silent, CanceledSavesNothing
<1> QED
  BY <1>1, <1>2, SilentNext, Inductive, PTL DEF Spec


----------------------------------------------------------------------------
(* The order of the rows *)

\* Induction, over a set: the least number outside it would follow one inside.
LEMMA Counting ==
  ASSUME NEW S \in SUBSET Nat, 0 \in S, \A n \in S : n + 1 \in S
  PROVE  S = Nat
<1> SUFFICES ASSUME Nat \ S # {} PROVE FALSE
  OBVIOUS
<1> DEFINE R == StrictSubsetOrdering(Nat)
           T == {0..x : x \in Nat \ S}
<1>1. IsWellFoundedOn(R, FiniteSubsetsOf(Nat))
  BY FS_StrictSubsetOrderingWellFounded
<1>2. T \subseteq FiniteSubsetsOf(Nat) /\ T # {}
  <2>1. ASSUME NEW x \in Nat PROVE 0..x \in FiniteSubsetsOf(Nat)
    <3>1. IsFiniteSet(0..x)
      BY FS_Interval
    <3> QED
      BY <3>1 DEF FiniteSubsetsOf
  <2> QED
    BY <2>1
<1> HIDE DEF T, R
<1>3. PICK t \in T : \A u \in T : ~(<<u, t>> \in R)
  BY <1>1, <1>2, WFMin
<1>4. PICK x \in Nat \ S : t = 0..x
  BY <1>3 DEF T
<1>5. x # 0 /\ x - 1 \in Nat \ S
  BY <1>4
<1>6. 0..(x - 1) \in T /\ 0..(x - 1) \subseteq 0..x /\ 0..(x - 1) # 0..x
  BY <1>4, <1>5 DEF T
<1>7. <<0..(x - 1), 0..x>> \in R
  BY <1>4, <1>6 DEF R, StrictSubsetOrdering
<1> QED
  BY <1>3, <1>4, <1>6, <1>7

\* No two places of s hold the same element.
Distinct(s) == \A i, k \in DOMAIN s : s[i] = s[k] => i = k

LEMMA AppendDistinct ==
  ASSUME NEW S, NEW s \in Seq(S), NEW e \in S, Distinct(s), e \notin ToSet(s)
  PROVE  Distinct(Append(s, e))
<1>1. /\ DOMAIN s = 1..Len(s) /\ DOMAIN Append(s, e) = 1..(Len(s) + 1) /\ Len(s) \in Nat
      /\ \A i \in 1..Len(s) : Append(s, e)[i] = s[i]
      /\ Append(s, e)[Len(s) + 1] = e
  BY AppendProperties, LenProperties
<1>2. \A i \in 1..Len(s) : s[i] # e
  BY <1>1 DEF ToSet
<1> QED
  BY <1>1, <1>2 DEF Distinct

\* What is left of s is the elements of K, each of them as often as before.
LEMMA AmongElements ==
  ASSUME NEW S, NEW s \in Seq(S), NEW K
  PROVE  /\ Among(s, K) \in Seq(S)
         /\ ToSet(Among(s, K)) = ToSet(s) \cap K
         /\ Distinct(s) => Distinct(Among(s, K))
<1> DEFINE Step(f, i) == IF i = 0 THEN <<>>
                         ELSE IF s[i] \in K THEN Append(f[i - 1], s[i]) ELSE f[i - 1]
           Steps(n) == {f \in [0..n -> Seq(S)] : \A i \in 0..n : f[i] = Step(f, i)}
<1>0. Len(s) \in Nat /\ DOMAIN s = 1..Len(s) /\ (\A i \in 1..Len(s) : s[i] \in S)
  BY LenProperties, ElementOfSeq
<1>1. \A n \in 0..Len(s) : Steps(n) # {}
  <2> DEFINE N == {n \in Nat : n <= Len(s) => Steps(n) # {}}
  <2>1. 0 \in N
    <3>1. [i \in 0..0 |-> <<>>] \in Steps(0)
      OBVIOUS
    <3> QED
      BY <3>1
  <2>2. ASSUME NEW n \in N, n + 1 <= Len(s) PROVE Steps(n + 1) # {}
    <3>1. n \in Nat /\ n <= Len(s) /\ n + 1 \in 1..Len(s)
      BY <1>0, <2>2
    <3>2. PICK f : f \in Steps(n)
      BY <3>1
    <3> DEFINE last == Step(f, n + 1)
               g == [i \in 0..(n + 1) |-> IF i <= n THEN f[i] ELSE last]
    <3>3. f[n] \in Seq(S) /\ last \in Seq(S)
      BY <1>0, <3>1, <3>2, AppendProperties
    <3>4. g \in [0..(n + 1) -> Seq(S)]
      BY <3>1, <3>2, <3>3
    <3>5. \A i \in 0..n : f[i] = Step(f, i)
      BY <3>2
    <3>6. \A i \in 0..n : g[i] = f[i]
      BY <3>1
    <3>7. \A i \in 1..n : f[i] = IF s[i] \in K THEN Append(f[i - 1], s[i]) ELSE f[i - 1]
      BY <3>1, <3>5
    <3>8. f[0] = <<>>
      BY <3>1, <3>5
    <3>9. g[n + 1] = last
      BY <3>1
    <3> HIDE DEF g
    <3>10. ASSUME NEW i \in 0..(n + 1) PROVE g[i] = Step(g, i)
      <4>1. CASE i = 0
        BY <3>1, <3>8, <3>6, <4>1
      <4>2. CASE i \in 1..n
        <5>1. g[i - 1] = f[i - 1] /\ g[i] = f[i]
          BY <3>1, <3>6, <4>2
        <5> QED
          BY <3>1, <3>7, <4>2, <5>1
      <4>3. CASE i = n + 1
        <5>1. g[i - 1] = f[i - 1] /\ g[i] = last
          BY <3>1, <3>6, <3>9, <4>3
        <5> QED
          BY <4>3, <5>1
      <4> QED
        BY <3>1, <4>1, <4>2, <4>3
    <3> HIDE DEF Step
    <3>11. g \in Steps(n + 1)
      BY <3>4, <3>10
    <3> QED
      BY <3>11
  <2> HIDE DEF Steps
  <2>3. \A n \in N : n + 1 \in N
    BY <2>2
  <2> HIDE DEF N
  <2>4. N = Nat
    BY <2>1, <2>3, Counting DEF N
  <2> QED
    BY <2>4, <1>0 DEF N
<1> DEFINE kept == CHOOSE f : f = [i \in 0..Len(s) |-> Step(f, i)]
<1>2. Among(s, K) = kept[Len(s)]
  BY DEF Among
<1>3. kept = [i \in 0..Len(s) |-> Step(kept, i)]
  <2>0. Len(s) \in 0..Len(s)
    BY <1>0
  <2> HIDE DEF Steps
  <2>1. PICK f : f \in Steps(Len(s))
    BY <2>0, <1>1
  <2> USE DEF Steps
  <2>2. f = [i \in 0..Len(s) |-> Step(f, i)]
    BY <2>1
  <2> HIDE DEF Step
  <2> QED
    BY <2>2
<1> HIDE DEF kept
<1>4. kept[0] = <<>>
  BY <1>0, <1>3
<1>5. \A i \in 1..Len(s) : kept[i] = IF s[i] \in K THEN Append(kept[i - 1], s[i])
                                     ELSE kept[i - 1]
  <2>1. \A i \in 0..Len(s) : kept[i] = Step(kept, i)
    <3> HIDE DEF Step
    <3> QED
      BY <1>3
  <2> QED
    BY <1>0, <2>1
<1> DEFINE Upto(n) == {s[i] : i \in 1..n}
           P(n) == /\ kept[n] \in Seq(S)
                   /\ ToSet(kept[n]) = Upto(n) \cap K
                   /\ Distinct(s) => Distinct(kept[n])
           M == {n \in Nat : n <= Len(s) => P(n)}
<1>6. 0 \in M
  <2>1. <<>> \in Seq(S) /\ ToSet(<<>>) = {} /\ Distinct(<<>>) /\ Upto(0) = {}
    BY EmptyElements DEF Distinct
  <2> QED
    BY <1>4, <2>1
<1>7. ASSUME NEW n \in M, n + 1 <= Len(s) PROVE P(n + 1)
  <2>1. n \in Nat /\ n + 1 \in 1..Len(s) /\ P(n) /\ s[n + 1] \in S
    BY <1>0, <1>7
  <2>2. Upto(n + 1) = Upto(n) \cup {s[n + 1]}
    BY <2>1
  <2> HIDE DEF Upto
  <2>3. CASE s[n + 1] \notin K
    <3>1. kept[n + 1] = kept[n]
      BY <1>5, <2>1, <2>3
    <3> QED
      BY <2>1, <2>2, <2>3, <3>1
  <2>4. CASE s[n + 1] \in K
    <3> DEFINE t == kept[n]
               e == s[n + 1]
    <3>1. kept[n + 1] = Append(t, e)
      <4>1. kept[n + 1] = IF s[n + 1] \in K THEN Append(kept[(n + 1) - 1], s[n + 1])
                          ELSE kept[(n + 1) - 1]
        BY <1>5, <2>1
      <4>2. (n + 1) - 1 = n
        BY <2>1
      <4> QED
        BY <2>4, <4>1, <4>2
    <3>2. Append(t, e) \in Seq(S) /\ ToSet(Append(t, e)) = ToSet(t) \cup {e}
      BY <2>1, AppendElements
    <3>3. ASSUME Distinct(s) PROVE Distinct(Append(t, e))
      <4>1. e \notin ToSet(t)
        <5>1. e \notin Upto(n)
          BY <1>0, <2>1, <3>3 DEF Upto, Distinct
        <5> QED
          BY <2>1, <5>1
      <4> HIDE DEF t, e
      <4> QED
        BY <2>1, <3>3, <4>1, AppendDistinct DEF t, e
    <3> HIDE DEF t, e
    <3> QED
      BY <2>1, <2>2, <2>4, <3>1, <3>2, <3>3 DEF t, e
  <2> QED
    BY <2>3, <2>4
<1> HIDE DEF P
<1>8. \A n \in M : n + 1 \in M
  BY <1>0, <1>7
<1>9. M = Nat
  <2> HIDE DEF M
  <2> QED
    BY <1>6, <1>8, Counting DEF M
<1>10. P(Len(s))
  BY <1>0, <1>9
<1>11. Upto(Len(s)) = ToSet(s)
  BY <1>0 DEF ToSet
<1> QED
  BY <1>2, <1>10, <1>11 DEF P

\* Whoever is in the order has an id already given out, and is there once; as long as no
\* refusal took another's place, the ids in the order are those with a row.
Listing ==
  /\ order \in Seq(Ids)
  /\ \A j \in ToSet(order) : j <= nextID
  /\ Distinct(order)
  /\ ~raced => \A j \in Ids : jobs[j] # "absent" <=> j \in ToSet(order)

\* Taking the last id back leaves every other one in its place.
LEMMA FrontElements ==
  ASSUME NEW S, NEW s \in Seq(S), s # <<>>
  PROVE  /\ Front(s) \in Seq(S) /\ Last(s) \in S
         /\ ToSet(Front(s)) \subseteq ToSet(s)
         /\ Distinct(s) => /\ Distinct(Front(s))
                           /\ ToSet(Front(s)) = ToSet(s) \ {Last(s)}
<1>1. Len(s) \in Nat /\ Len(s) > 0 /\ DOMAIN s = 1..Len(s) /\ Last(s) = s[Len(s)]
  BY LenProperties, EmptySeq DEF Last
<1>2. /\ Front(s) \in Seq(S) /\ Len(Front(s)) = Len(s) - 1
      /\ \A i \in 1..(Len(s) - 1) : Front(s)[i] = s[i]
  <2>1. Front(s) = SubSeq(s, 1, Len(s) - 1)
    BY DEF Front
  <2>2. \A i \in 1..(Len(s) - 1) : s[i] \in S
    BY <1>1, ElementOfSeq
  <2> QED
    BY <1>1, <2>1, <2>2, SubSeqProperties
<1>3. DOMAIN Front(s) = 1..(Len(s) - 1)
  BY <1>2, LenProperties
<1>4. Last(s) \in S
  BY <1>1, ElementOfSeq
<1>5. ToSet(Front(s)) \subseteq ToSet(s)
  BY <1>1, <1>2, <1>3 DEF ToSet
<1>6. ASSUME Distinct(s) PROVE Distinct(Front(s)) /\ ToSet(Front(s)) = ToSet(s) \ {Last(s)}
  <2>1. Distinct(Front(s))
    BY <1>1, <1>2, <1>3, <1>6 DEF Distinct
  <2>2. \A i \in 1..(Len(s) - 1) : s[i] # Last(s)
    BY <1>1, <1>6 DEF Distinct
  <2>3. ASSUME NEW x \in ToSet(s), x # Last(s) PROVE x \in ToSet(Front(s))
    <3>1. PICK i \in 1..Len(s) : s[i] = x
      BY <1>1 DEF ToSet
    <3>2. i \in 1..(Len(s) - 1)
      BY <1>1, <2>3, <3>1
    <3> QED
      BY <1>2, <1>3, <3>1, <3>2 DEF ToSet
  <2>4. ASSUME NEW x \in ToSet(Front(s)) PROVE x # Last(s)
    BY <1>2, <1>3, <2>2 DEF ToSet
  <2> QED
    BY <1>5, <2>1, <2>3, <2>4
<1> QED
  BY <1>2, <1>4, <1>5, <1>6

LEMMA ListingNext == IInv /\ Listing /\ [Next]_vars => Listing'
<1> SUFFICES ASSUME IInv, Listing, [Next]_vars PROVE Listing'
  OBVIOUS
<1>0. /\ jobs \in [Ids -> Status] /\ order \in Seq(Ids) /\ ToSet(order) \subseteq Ids
      /\ nextID \in Nat
  BY ElementsType DEF IInv, TypeOK, Listing
<1>1. CASE Enter
  <2>1. PICK j : /\ j = nextID + 1 /\ j \in Ids /\ nextID' = j
                 /\ jobs' = [jobs EXCEPT ![j] = "queued"] /\ order' = Append(order, j)
                 /\ raced' = raced
    <3>1. nextID + 1 \in Ids
      BY <1>0, <1>1, SizesAssumption DEF Enter, Ids
    <3> QED
      BY <1>1, <3>1 DEF Enter
  <2>2. j \notin ToSet(order)
    BY <1>0, <2>1 DEF Listing
  <2>3. order' \in Seq(Ids) /\ ToSet(order') = ToSet(order) \cup {j} /\ Distinct(order')
    BY <1>0, <2>1, <2>2, AppendElements, AppendDistinct DEF Listing
  <2>4. \A k \in Ids : jobs'[k] = IF k = j THEN "queued" ELSE jobs[k]
    BY <1>0, <2>1
  <2>5. \A k \in ToSet(order') : k <= nextID'
    BY <1>0, <2>1, <2>3 DEF Listing
  <2> QED
    BY <2>1, <2>3, <2>4, <2>5 DEF Listing
<1>2. CASE \E j \in Ids : Refuse(j)
  <2>1. PICK j \in Ids : Refuse(j)
    BY <1>2
  <2>2. /\ order # <<>> /\ jobs' = [jobs EXCEPT ![j] = "absent"] /\ order' = Front(order)
        /\ nextID' = nextID
        /\ ~raced' => ~raced /\ Last(order) = j
    BY <2>1 DEF Refuse
  <2>3. /\ order' \in Seq(Ids) /\ Distinct(order')
        /\ ToSet(order') = ToSet(order) \ {Last(order)}
    BY <1>0, <2>2, FrontElements DEF Listing
  <2>4. \A k \in Ids : jobs'[k] = IF k = j THEN "absent" ELSE jobs[k]
    BY <1>0, <2>2
  <2> QED
    BY <2>2, <2>3, <2>4 DEF Listing
<1>3. CASE \E j \in Ids : RefusePanics(j)
  <2>1. PICK j \in Ids : RefusePanics(j)
    BY <1>3
  <2>2. /\ order = <<>> /\ jobs' = [jobs EXCEPT ![j] = "absent"]
        /\ UNCHANGED <<nextID, order, raced>>
    BY <2>1 DEF RefusePanics
  <2>3. ~raced => jobs[j] = "absent"
    BY <2>2, EmptyElements DEF Listing
  <2>4. ~raced => jobs' = jobs
    BY <1>0, <2>2, <2>3
  <2> QED
    BY <2>2, <2>4 DEF Listing
<1>4. CASE \/ \E j \in Ids : CancelRunning(j) \/ CancelQueued(j)
           \/ Start \/ Finish
  <2>1. /\ UNCHANGED <<nextID, order, raced>>
        /\ \E j \in Ids, new \in Status \ {"absent"} :
             jobs[j] # "absent" /\ jobs' = [jobs EXCEPT ![j] = new]
    <3>1. CASE \E j \in Ids : CancelRunning(j) \/ CancelQueued(j)
      BY <3>1 DEF CancelRunning, CancelQueued, Status, Finished
    <3>2. CASE Start
      BY <3>2 DEF Start, Status, IInv, TypeOK
    <3>3. CASE Finish
      <4>1. worker.id \in Ids /\ jobs[worker.id] # "absent"
        BY <3>3 DEF Finish, IInv, TypeOK, Worked
      <4>2. \E new \in {"done", "failed", "canceled"} : jobs' = [jobs EXCEPT ![worker.id] = new]
        BY <3>3 DEF Finish
      <4> QED
        BY <3>3, <4>1, <4>2 DEF Finish, Status, Finished
    <3> QED
      BY <1>4, <3>1, <3>2, <3>3
  <2>2. \A k \in Ids : jobs'[k] # "absent" <=> jobs[k] # "absent"
    BY <1>0, <2>1
  <2> QED
    BY <2>1, <2>2 DEF Listing
<1>5. CASE Sweep
  <2>1. /\ jobs' = [j \in Ids |-> IF j \in Old THEN "absent" ELSE jobs[j]]
        /\ order' = Among(order, Kept)
        /\ UNCHANGED <<nextID, raced>>
    BY <1>5 DEF Sweep
  <2>2. /\ order' \in Seq(Ids) /\ ToSet(order') = ToSet(order) \cap Kept
        /\ Distinct(order')
    BY <1>0, <2>1, AmongElements DEF Listing
  <2>3. \A k \in Ids : k \in ToSet(order') <=> k \in ToSet(order) /\ jobs'[k] # "absent"
    BY <1>0, <2>1, <2>2 DEF Kept
  <2>4. \A k \in Ids : jobs'[k] # "absent" => jobs[k] # "absent"
    BY <1>0, <2>1
  <2> QED
    BY <2>1, <2>2, <2>3, <2>4 DEF Listing
<1>6. CASE \/ \E j \in Ids : Send(j) \/ SendFull(j)
           \/ Receive \/ Skip \/ Age \/ RunStep \/ RunFails \/ Wedge \/ Expire
           \/ UNCHANGED vars
  BY <1>6 DEF Send, SendFull, Receive, Skip, Age, RunStep, Wrap, Encoded, Killed, Commit,
              RunFails, Wedge, Expire, OnlyRun, vars, Listing
<1> QED
  BY <1>1, <1>2, <1>3, <1>4, <1>5, <1>6 DEF Next, AddStep, WorkerStep

\* While no refused add has overlapped another, the map and the order hold the same ids, each of
\* them once, however adds, refusals and sweeps alternate (jobs.go).
THEOREM RowsStayListed == Spec => []RowsAreListed
<1>1. Init => Listing
  BY EmptyElements DEF Init, Listing, Distinct
<1>2. Listing => RowsAreListed
  <2> SUFFICES ASSUME Listing, ~raced
               PROVE  /\ \A j \in Ids : jobs[j] # "absent" =>
                           Cardinality({i \in DOMAIN order : order[i] = j}) = 1
                      /\ \A i \in DOMAIN order : jobs[order[i]] # "absent"
    BY DEF RowsAreListed
  <2>1. ASSUME NEW j \in Ids, jobs[j] # "absent"
        PROVE  Cardinality({i \in DOMAIN order : order[i] = j}) = 1
    <3>1. PICK i \in DOMAIN order : order[i] = j
      BY <2>1 DEF Listing, ToSet
    <3>2. {k \in DOMAIN order : order[k] = j} = {i}
      BY <3>1 DEF Listing, Distinct
    <3> QED
      BY <3>2, FS_Singleton
  <2>2. \A i \in DOMAIN order : order[i] \in Ids /\ order[i] \in ToSet(order)
    BY ElementOfSeq, LenProperties DEF Listing, ToSet
  <2> QED
    BY <2>1, <2>2 DEF Listing
<1> QED
  BY <1>1, <1>2, ListingNext, Inductive, PTL DEF Spec

----------------------------------------------------------------------------
(* The queue implements JobLife *)

\* Only rows that have ended carry a time of ending: the sweep forgets no other.
EndedRows ==
  /\ \A j \in Ids : j > nextID => ended[j] = "no"
  /\ \A j \in Ids : ended[j] # "no" => jobs[j] \in Finished \cup {"absent"}

LEMMA EndedRowsNext == IInv /\ EndedRows /\ [Next]_vars => EndedRows'
<1> SUFFICES ASSUME IInv, EndedRows, [Next]_vars PROVE EndedRows'
  OBVIOUS
<1> USE DEF EndedRows, IInv, TypeOK, Finished
<1>1. CASE Enter
  BY <1>1, SizesAssumption DEF Enter, Ids, Fresh
<1>2. CASE \E j \in Ids : Send(j) \/ SendFull(j) \/ Refuse(j) \/ RefusePanics(j)
  BY <1>2 DEF Send, SendFull, Refuse, RefusePanics
<1>3. CASE \E j \in Ids : CancelRunning(j)
  BY <1>3 DEF CancelRunning
<1>4. CASE \E j \in Ids : CancelQueued(j)
  BY <1>4 DEF CancelQueued, Fresh, Ids
<1>5. CASE Age
  BY <1>5 DEF Age
<1>6. CASE Receive \/ Skip
  BY <1>6 DEF Receive, Skip
<1>7. CASE Start
  BY <1>7 DEF Start
<1>8. CASE Finish
  <2>1. worker.id \in Ids /\ worker.id <= nextID
    BY <1>8 DEF Finish, Worked, Fresh, Ids
  <2>2. jobs'[worker.id] \in Finished /\ \A j \in Ids \ {worker.id} : jobs'[j] = jobs[j]
    BY <1>8, <2>1 DEF Finish
  <2> QED
    BY <1>8, <2>1, <2>2 DEF Finish, Ids
<1>9. CASE Sweep
  BY <1>9 DEF Sweep
<1>10. CASE RunStep \/ RunFails \/ Wedge \/ Expire \/ UNCHANGED vars
  BY <1>10 DEF RunStep, Wrap, Encoded, Killed, Commit, RunFails, Wedge, Expire, OnlyRun, vars
<1> QED
  BY <1>1, <1>2, <1>3, <1>4, <1>5, <1>6, <1>7, <1>8, <1>9, <1>10 DEF Next, AddStep, WorkerStep

\* An id in front of a channel: the head is that id, and what is behind it stays as it was.
LEMMA ConsProperties ==
  ASSUME NEW S, NEW s \in Seq(S), NEW e \in S
  PROVE  /\ <<e>> \o s \in Seq(S) /\ <<e>> \o s # <<>>
         /\ Head(<<e>> \o s) = e /\ Tail(<<e>> \o s) = s
         /\ ToSet(<<e>> \o s) = {e} \cup ToSet(s)
         /\ \A x \in S : Append(<<e>> \o s, x) = <<e>> \o Append(s, x)
<1> DEFINE t == <<e>> \o s
<1>1. <<e>> \in Seq(S) /\ Len(<<e>>) = 1 /\ <<e>>[1] = e
  OBVIOUS
<1>2. /\ t \in Seq(S) /\ Len(t) = Len(s) + 1 /\ Len(s) \in Nat
      /\ \A i \in 1..Len(t) : t[i] = IF i <= 1 THEN e ELSE s[i - 1]
  BY <1>1, ConcatProperties, LenProperties
<1>3. t # <<>> /\ Head(t) = e
  BY <1>2, EmptySeq, HeadTailProperties
<1>4. Tail(t) = s
  <2>1. /\ Tail(t) \in Seq(S) /\ Len(Tail(t)) = Len(s)
        /\ \A i \in 1..Len(Tail(t)) : Tail(t)[i] = t[i + 1]
    BY <1>2, <1>3, HeadTailProperties
  <2>2. \A i \in 1..Len(s) : Tail(t)[i] = s[i]
    BY <1>2, <2>1
  <2> QED
    BY <2>1, <2>2, SeqEqual
<1>5. ToSet(t) = {e} \cup ToSet(s)
  <2>1. DOMAIN t = 1..Len(t) /\ DOMAIN s = 1..Len(s)
    BY <1>2, LenProperties
  <2>2. ASSUME NEW x \in ToSet(t) PROVE x \in {e} \cup ToSet(s)
    BY <1>2, <2>1 DEF ToSet
  <2>3. e \in ToSet(t)
    BY <1>2, <2>1 DEF ToSet
  <2>4. ASSUME NEW i \in 1..Len(s) PROVE s[i] \in ToSet(t)
    <3>1. i + 1 \in DOMAIN t /\ t[i + 1] = s[i]
      BY <1>2, <2>1
    <3> QED
      BY <3>1 DEF ToSet
  <2> QED
    BY <2>1, <2>2, <2>3, <2>4 DEF ToSet
<1>6. ASSUME NEW x \in S PROVE Append(t, x) = <<e>> \o Append(s, x)
  <2>1. /\ Append(t, x) \in Seq(S) /\ Len(Append(t, x)) = Len(t) + 1
        /\ \A i \in 1..Len(t) : Append(t, x)[i] = t[i] /\ Append(t, x)[Len(t) + 1] = x
    BY <1>2, AppendProperties
  <2>2. /\ Append(s, x) \in Seq(S) /\ Len(Append(s, x)) = Len(s) + 1
        /\ \A i \in 1..Len(s) : Append(s, x)[i] = s[i]
        /\ Append(s, x)[Len(s) + 1] = x
    BY AppendProperties
  <2> DEFINE u == <<e>> \o Append(s, x)
  <2>3. /\ u \in Seq(S) /\ Len(u) = Len(s) + 2
        /\ \A i \in 1..Len(u) : u[i] = IF i <= 1 THEN e ELSE Append(s, x)[i - 1]
    BY <1>1, <1>2, <2>2, ConcatProperties
  <2>4. \A i \in 1..Len(u) : Append(t, x)[i] = u[i]
    <3> SUFFICES ASSUME NEW i \in 1..Len(u) PROVE Append(t, x)[i] = u[i]
      OBVIOUS
    <3>1. CASE i <= Len(t)
      BY <1>2, <2>1, <2>2, <2>3, <3>1
    <3>2. CASE i = Len(t) + 1
      <4>1. Append(t, x)[i] = x
        <5>1. Len(t) \in Nat /\ Append(t, x)[Len(t) + 1] = x
          BY <1>2, AppendProperties
        <5> QED
          BY <3>2, <5>1
      <4> QED
        BY <1>2, <2>2, <2>3, <3>2, <4>1
    <3> QED
      BY <1>2, <2>3, <3>1, <3>2
  <2> QED
    BY <1>2, <2>1, <2>3, <2>4, SeqEqual
<1> QED
  BY <1>2, <1>3, <1>4, <1>5, <1>6

LEMMA HeadBack ==
  ASSUME NEW S, NEW s \in Seq(S), s # <<>>
  PROVE  <<Head(s)>> \o Tail(s) = s
<1> DEFINE t == <<Head(s)>> \o Tail(s)
<1>1. /\ Head(s) \in S /\ Head(s) = s[1] /\ Tail(s) \in Seq(S) /\ Len(Tail(s)) = Len(s) - 1
      /\ Len(s) \in Nat /\ Len(s) > 0 /\ \A i \in 1..Len(Tail(s)) : Tail(s)[i] = s[i + 1]
  BY HeadTailProperties, LenProperties, EmptySeq
<1>2. <<Head(s)>> \in Seq(S) /\ Len(<<Head(s)>>) = 1 /\ <<Head(s)>>[1] = Head(s)
  BY <1>1
<1>3. /\ t \in Seq(S) /\ Len(t) = Len(s)
      /\ \A i \in 1..Len(t) : t[i] = IF i <= 1 THEN Head(s) ELSE Tail(s)[i - 1]
  BY <1>1, <1>2, ConcatProperties
<1>4. \A i \in 1..Len(s) : t[i] = s[i]
  BY <1>1, <1>3
<1> QED
  BY <1>3, <1>4, SeqEqual

\* What waits, in terms of the channel and the id the worker has taken.
LEMMA WaitingSet ==
  ASSUME IInv
  PROVE  /\ ch \in Seq(Ids)
         /\ worker.pc = "received" =>
              /\ worker.id \in Ids
              /\ Waiting # <<>> /\ Head(Waiting) = worker.id /\ Tail(Waiting) = ch
              /\ ToSet(Waiting) = {worker.id} \cup ToSet(ch)
              /\ \A j \in Ids : Append(Waiting, j) = <<worker.id>> \o Append(ch, j)
         /\ worker.pc # "received" => Waiting = ch
<1>1. ch \in Seq(Ids) /\ (worker.pc = "received" => worker.id \in Ids)
  BY DEF IInv, TypeOK
<1> QED
  BY <1>1, ConsProperties DEF Waiting

\* An id whose add is not through neither waits nor runs.
LEMMA NotYetTaken ==
  ASSUME IInv, NEW j \in Ids, adds[j] # "accepted"
  PROVE  j \notin ToSet(Waiting) /\ j # Active /\ j \notin saved
<1>1. j \notin ToSet(ch) /\ (worker.pc # "idle" => worker.id # j) /\ j # NoId
  BY DEF IInv, Accepted, Ids, NoId
<1> QED
  BY <1>1, WaitingSet DEF Active, IInv, Outputs

\* What a client sees of a step: the job's states, what waits and runs, and the outputs.
Seen == <<nextID, jobs, Waiting, Active, saved>>

LEMMA AddIsJobLife ==
  ASSUME IInv, NEW j \in Ids, AddStep(j) \/ CancelRunning(j) \/ CancelQueued(j)
  PROVE  Life!Next \/ UNCHANGED Seen
<1>1. CASE Send(j)
  <2>1. /\ adds[j] = "sending" /\ ch' = Append(ch, j)
        /\ UNCHANGED <<nextID, jobs, worker, saved>>
    BY <1>1 DEF Send
  <2>2. j \in 1..nextID /\ j \notin ToSet(Waiting) /\ j # Active
    BY <2>1, NotYetTaken DEF IInv, Fresh, TypeOK, Ids
  <2>3. Waiting' = Append(Waiting, j)
    <3>1. worker.pc = "received" => Waiting' = <<worker.id>> \o Append(ch, j)
      BY <2>1 DEF Waiting
    <3>2. worker.pc # "received" => Waiting' = Append(ch, j)
      BY <2>1 DEF Waiting
    <3> QED
      BY <3>1, <3>2, WaitingSet
  <2>4. UNCHANGED <<nextID, jobs, Active, saved>>
    BY <2>1 DEF Active
  <2>5. Life!Schedule(j)
    BY <2>2, <2>3, <2>4 DEF Life!Schedule, Life!ToSet, ToSet
  <2> QED
    BY <2>5 DEF Life!Next
<1>2. CASE SendFull(j)
  BY <1>2 DEF SendFull, Seen, Waiting, Active
<1>3. CASE Refuse(j) \/ RefusePanics(j)
  <2>1. /\ adds[j] = "full" /\ jobs' = [jobs EXCEPT ![j] = "absent"]
        /\ UNCHANGED <<nextID, ch, worker, saved>>
    BY <1>3 DEF Refuse, RefusePanics
  <2>2. /\ j \notin ToSet(Waiting) /\ j # Active
        /\ jobs[j] \in {"absent", "queued", "canceled"}
    BY <2>1, NotYetTaken DEF IInv, Accepted
  <2>3. UNCHANGED <<nextID, Waiting, Active, saved>>
    BY <2>1 DEF Waiting, Active
  <2>4. CASE jobs[j] = "absent"
    <3>1. jobs' = jobs
      BY <2>1, <2>4 DEF IInv, TypeOK
    <3> QED
      BY <2>3, <3>1 DEF Seen
  <2>5. CASE jobs[j] # "absent"
    <3>1. Life!Reject(j)
      BY <2>1, <2>2, <2>3, <2>5 DEF Life!Reject, Life!ToSet, ToSet
    <3> QED
      BY <3>1 DEF Life!Next
  <2> QED
    BY <2>4, <2>5
<1>4. CASE CancelRunning(j) \/ CancelQueued(j)
  <2>1. /\ jobs[j] \in {"queued", "running"} /\ jobs' = [jobs EXCEPT ![j] = "canceled"]
        /\ UNCHANGED <<nextID, ch, worker, saved>>
    BY <1>4 DEF CancelRunning, CancelQueued
  <2>2. UNCHANGED <<nextID, Waiting, Active, saved>>
    BY <2>1 DEF Waiting, Active
  <2>3. Life!Cancel(j)
    BY <2>1, <2>2 DEF Life!Cancel
  <2> QED
    BY <2>3 DEF Life!Next
<1> QED
  BY <1>1, <1>2, <1>3, <1>4 DEF AddStep

LEMMA WorkerIsJobLife ==
  ASSUME IInv, EndedRows, WorkerStep
  PROVE  Life!Next \/ UNCHANGED Seen
<1>1. CASE Receive
  <2>1. /\ worker.pc = "idle" /\ ch # <<>> /\ ch' = Tail(ch)
        /\ worker'.pc = "received" /\ worker'.id = Head(ch)
        /\ UNCHANGED <<nextID, jobs, saved>>
    BY <1>1 DEF Receive
  <2>2. Waiting' = <<Head(ch)>> \o Tail(ch) /\ Waiting = ch
    BY <2>1 DEF Waiting
  <2>3. Waiting' = Waiting
    BY <2>1, <2>2, WaitingSet, HeadBack
  <2>4. Active' = Active
    BY <2>1 DEF Active
  <2> QED
    BY <2>1, <2>3, <2>4 DEF Seen
<1>2. CASE Skip
  <2>1. /\ worker.pc = "received" /\ jobs[worker.id] # "queued" /\ worker'.pc = "idle"
        /\ UNCHANGED <<nextID, jobs, ch, saved>>
    BY <1>2 DEF Skip, Idle
  <2>2. /\ Waiting # <<>> /\ Head(Waiting) = worker.id /\ Waiting' = Tail(Waiting)
        /\ Active = NoId /\ Active' = NoId
    BY <2>1, WaitingSet DEF Waiting, Active
  <2>3. Life!Pass
    BY <2>1, <2>2 DEF Life!Pass
  <2> QED
    BY <2>3 DEF Life!Next
<1>3. CASE Start
  <2>1. /\ worker.pc = "received" /\ jobs[worker.id] = "queued"
        /\ jobs' = [jobs EXCEPT ![worker.id] = "running"]
        /\ UNCHANGED <<nextID, ch, saved>>
    BY <1>3 DEF Start
  <2>2. worker'.pc = "run" /\ worker'.id = worker.id
    BY <1>3 DEF Start, IInv, TypeOK
  <2>3. /\ Waiting # <<>> /\ Head(Waiting) = worker.id /\ Waiting' = Tail(Waiting)
        /\ Active = NoId /\ Active' = worker.id
    BY <2>1, <2>2, WaitingSet DEF Waiting, Active
  <2>4. Life!Begin
    BY <2>1, <2>3 DEF Life!Begin
  <2> QED
    BY <2>4 DEF Life!Next
<1>4. CASE Finish
  <2>1. /\ worker.pc = "run" /\ run.stage \in {"ok", "err"} /\ worker.id \in Ids
        /\ worker.id # NoId
        /\ UNCHANGED <<nextID, ch, saved>>
    BY <1>4 DEF Finish, IInv, TypeOK
  <2>2. \E outcome \in Finished :
          /\ jobs' = [jobs EXCEPT ![worker.id] = outcome]
          /\ jobs[worker.id] = "canceled" => outcome = "canceled"
          /\ outcome = "done" => run.stage = "ok"
          /\ outcome = "failed" => run.stage = "err"
    BY <1>4 DEF Finish, Finished
  <2>3. worker.id \in saved <=> run.stage = "ok"
    BY <2>1 DEF IInv, Outputs
  <2>4. worker'.pc = "sweep"
    BY <1>4 DEF Finish, IInv, TypeOK
  <2>5. /\ Active = worker.id /\ Active' = NoId /\ Waiting' = Waiting
    BY <2>1, <2>4 DEF Active, Waiting
  <2>6. \E outcome \in Life!Over : Life!End(outcome)
    <3> PICK outcome \in Finished :
          /\ jobs' = [jobs EXCEPT ![worker.id] = outcome]
          /\ jobs[worker.id] = "canceled" => outcome = "canceled"
          /\ outcome = "done" => run.stage = "ok"
          /\ outcome = "failed" => run.stage = "err"
      BY <2>2
    <3>1. Life!End(outcome)
      BY <2>1, <2>3, <2>5 DEF Life!End
    <3> QED
      BY <3>1 DEF Finished, Life!Over
  <2> QED
    BY <2>6 DEF Life!Next
<1>5. CASE Sweep
  <2>1. /\ worker.pc = "sweep" /\ worker'.pc = "idle"
        /\ jobs' = [j \in Ids |-> IF j \in Old THEN "absent" ELSE jobs[j]]
        /\ saved' = saved \ Old
        /\ UNCHANGED <<nextID, ch>>
    BY <1>5 DEF Sweep, Idle
  <2>2. UNCHANGED <<Waiting, Active>>
    BY <2>1 DEF Waiting, Active
  <2> DEFINE rows == Old \cap Ids
  <2>3. \A j \in rows : jobs[j] \in Finished
    BY DEF Old, EndedRows
  <2>4. /\ jobs' = [j \in Ids |-> IF j \in rows THEN "absent" ELSE jobs[j]]
        /\ saved' = saved \ rows
    BY <2>1 DEF IInv, TypeOK
  <2>5. Life!Forget(rows)
    BY <2>1, <2>2, <2>3, <2>4 DEF Life!Forget, Life!Over, Finished
  <2> QED
    BY <2>5 DEF Life!Next
<1> QED
  BY <1>1, <1>2, <1>3, <1>4, <1>5 DEF WorkerStep

LEMMA RunIsJobLife ==
  ASSUME IInv, RunStep \/ RunFails \/ Wedge \/ Expire
  PROVE  Life!Next \/ UNCHANGED Seen
<1>1. UNCHANGED <<nextID, jobs, Waiting, Active>>
  BY DEF RunStep, Wrap, Encoded, Killed, Commit, RunFails, Wedge, Expire, OnlyRun, Waiting, Active
<1>2. CASE Commit
  <2>1. Active # NoId /\ saved' = saved \cup {Active}
    BY <1>2 DEF Commit, Running, Active, IInv, TypeOK
  <2>2. Life!Save
    BY <1>1, <2>1 DEF Life!Save
  <2> QED
    BY <2>2 DEF Life!Next
<1>3. CASE ~Commit
  <2>1. saved' = saved
    BY <1>3 DEF RunStep, Wrap, Encoded, Killed, RunFails, Wedge, Expire
  <2> QED
    BY <1>1, <2>1 DEF Seen
<1> QED
  BY <1>2, <1>3

LEMMA StepIsJobLife == IInv /\ EndedRows /\ [Next]_vars => [Life!Next]_Seen
<1> SUFFICES ASSUME IInv, EndedRows, [Next]_vars PROVE Life!Next \/ UNCHANGED Seen
  OBVIOUS
<1>1. CASE Enter
  <2> DEFINE j == nextID + 1
  <2>1. /\ j \in Ids /\ nextID' = j /\ jobs' = [jobs EXCEPT ![j] = "queued"]
        /\ UNCHANGED <<ch, worker, saved>> /\ nextID \in Nat
    BY <1>1, SizesAssumption DEF Enter, IInv, TypeOK, Ids
  <2>2. UNCHANGED <<Waiting, Active, saved>>
    BY <2>1 DEF Waiting, Active
  <2>3. j \notin 1..nextID /\ (1..nextID)' = (1..nextID) \cup {j}
    BY <2>1
  <2>4. Life!Submit(j)
    BY <2>1, <2>2, <2>3 DEF Life!Submit
  <2> QED
    BY <2>1, <2>4 DEF Life!Next
<1>2. CASE Age \/ UNCHANGED vars
  BY <1>2 DEF Age, vars, Seen, Waiting, Active
<1> QED
  BY <1>1, <1>2, AddIsJobLife, WorkerIsJobLife, RunIsJobLife DEF Next

\* The queue implements JobLife, for any number of jobs and any size of the channel.
THEOREM JobLifeKept == Spec => KeepsJobLife
<1>1. Init => Life!Init
  BY SizesAssumption DEF Init, Life!Init, Waiting, Active, Idle, Ids, NoId
<1>2. Init => EndedRows
  BY DEF Init, EndedRows
<1>3. Spec => []EndedRows
  BY <1>2, EndedRowsNext, Inductive, PTL DEF Spec
<1>4. UNCHANGED Seen => UNCHANGED Life!lifeVars
  BY DEF Seen, Life!lifeVars
<1>5. IInv /\ EndedRows /\ [Next]_vars => [Life!Next]_(Life!lifeVars)
  BY <1>4, StepIsJobLife
<1> QED
  BY <1>1, <1>3, <1>5, Inductive, PTL DEF Spec, KeepsJobLife, Life!Spec

============================================================================
