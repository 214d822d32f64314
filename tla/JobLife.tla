------------------------------- MODULE JobLife -------------------------------
(***************************************************************************)
(* What the job endpoints promise a client, without the lock, the channel, *)
(* the order of the rows and the stages of a run: accepted jobs are run    *)
(* one at a time and in turn, none twice; a job can be canceled until it   *)
(* has ended; one that is done has its output; a row that has ended only   *)
(* leaves the list.                                                        *)
(***************************************************************************)
EXTENDS Naturals, SequencesExt

CONSTANTS Job, Nobody

VARIABLES
  used,    \* the ids handed out
  status,  \* id -> what the list says of it, "absent" when it does not list it
  todo,    \* the jobs scheduled and not begun, in turn
  active,  \* the job that runs, or Nobody
  output   \* jobs on the list whose output is in place

lifeVars == <<used, status, todo, active, output>>

Over == {"done", "failed", "canceled"}

Init ==
  /\ used = {} /\ status = [j \in Job |-> "absent"]
  /\ todo = << >> /\ active = Nobody /\ output = {}

\* A job is asked for: it has an id of its own from then on.
Submit(j) ==
  /\ j \notin used
  /\ used' = used \cup {j}
  /\ status' = [status EXCEPT ![j] = "queued"]
  /\ UNCHANGED <<todo, active, output>>

Schedule(j) ==
  /\ j \in used /\ j \notin ToSet(todo) /\ j # active
  /\ todo' = Append(todo, j)
  /\ UNCHANGED <<used, status, active, output>>

\* It is refused before it was scheduled.
Reject(j) ==
  /\ j \notin ToSet(todo) /\ j # active /\ status[j] \in {"queued", "canceled"}
  /\ status' = [status EXCEPT ![j] = "absent"]
  /\ UNCHANGED <<used, todo, active, output>>

Cancel(j) ==
  /\ status[j] \in {"queued", "running"}
  /\ status' = [status EXCEPT ![j] = "canceled"]
  /\ UNCHANGED <<used, todo, active, output>>

\* The next in turn begins, or is passed over.
Begin ==
  /\ active = Nobody /\ todo # << >> /\ status[Head(todo)] = "queued"
  /\ active' = Head(todo) /\ todo' = Tail(todo)
  /\ status' = [status EXCEPT ![Head(todo)] = "running"]
  /\ UNCHANGED <<used, output>>

Pass ==
  /\ active = Nobody /\ todo # << >> /\ status[Head(todo)] # "queued"
  /\ todo' = Tail(todo)
  /\ UNCHANGED <<used, status, active, output>>

Save ==
  /\ active # Nobody
  /\ output' = output \cup {active}
  /\ UNCHANGED <<used, status, todo, active>>

\* It ends, with an outcome that is true of its output; a cancel stands.
End(outcome) ==
  /\ active # Nobody
  /\ status[active] = "canceled" => outcome = "canceled"
  /\ outcome = "done" => active \in output
  /\ outcome = "failed" => active \notin output
  /\ active' = Nobody
  /\ status' = [status EXCEPT ![active] = outcome]
  /\ UNCHANGED <<used, todo, output>>

\* Rows that have ended leave the list.
Forget(rows) ==
  /\ \A j \in rows : status[j] \in Over
  /\ status' = [j \in Job |-> IF j \in rows THEN "absent" ELSE status[j]]
  /\ output' = output \ rows
  /\ UNCHANGED <<used, todo, active>>

Next ==
  \/ \E j \in Job : Submit(j) \/ Schedule(j) \/ Reject(j) \/ Cancel(j)
  \/ Begin \/ Pass \/ Save
  \/ \E outcome \in Over : End(outcome)
  \/ \E rows \in SUBSET Job : Forget(rows)

Spec == Init /\ [][Next]_lifeVars
==============================================================================
