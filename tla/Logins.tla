------------------------------- MODULE Logins -------------------------------
(***************************************************************************)
(* The limit on wrong passwords (internal/auth/ratelimit.go) and the       *)
(* handler that asks it (loginHandler, internal/handler/auth.go).          *)
(*                                                                         *)
(* Allow and RecordFail lock on their own, and a password is compared      *)
(* between them: logins from one address overlap, and locks, windows and   *)
(* clean-ups fall between their steps.  A session is a random token that   *)
(* nobody else holds; the store of them is left out, and so is who sent a  *)
(* request: an address here is the one remoteIP finds.                     *)
(***************************************************************************)
EXTENDS Serving

CONSTANTS
  Client,            \* addresses
  MaxFails,          \* maxFails, failWindow, lockoutDur
  FailWindow,
  LockoutDur,
  MaxTime            \* bound: how far the clock runs

Attempt == [count : Nat, first : Nat, lockedAt : Nat \cup {None}]

ASSUME LoginsAssumption ==
  /\ MaxFails \in Nat \ {0} /\ FailWindow \in Nat /\ LockoutDur \in Nat /\ MaxTime \in Nat
  /\ FailWindow < LockoutDur
  /\ None \notin Nat \cup Client \cup Attempt

VARIABLES
  now,
  attempts,  \* address -> what is held against it, or None
  comparing, \* handler -> the address whose password it compares, or None
  until,     \* observer: address -> when the lock it was given runs out; 0: it was given none, or it sent
             \* the right password since
  lastFail   \* observer: address -> when its last wrong password was counted, or None

loginsVars == <<now, attempts, comparing, until, lastFail>>

TypeOK ==
  /\ now \in Nat
  /\ attempts \in [Client -> Attempt \cup {None}]
  /\ comparing \in [Handler -> Client \cup {None}]
  /\ until \in [Client -> Nat]
  /\ lastFail \in [Client -> Nat \cup {None}]

LoginsInit ==
  /\ now = 1
  /\ attempts = [c \in Client |-> None] /\ comparing = [h \in Handler |-> None]
  /\ until = [c \in Client |-> 0] /\ lastFail = [c \in Client |-> None]

----------------------------------------------------------------------------
Locked(c) == attempts[c].lockedAt # None /\ now < attempts[c].lockedAt + LockoutDur
WindowOver(c) == now > attempts[c].first + FailWindow

\* Allow says no.
Refused(c) == attempts[c] # None /\ (Locked(c) \/ (~WindowOver(c) /\ attempts[c].count >= MaxFails))

\* Allow says yes, and forgets what is older than the window.
Allow(h, c) ==
  /\ comparing[h] = None /\ ~Refused(c)
  /\ comparing' = [comparing EXCEPT ![h] = c]
  /\ attempts' = IF attempts[c] # None /\ WindowOver(c) THEN [attempts EXCEPT ![c] = None] ELSE attempts
  /\ UNCHANGED <<now, until, lastFail>>

\* RecordFail: each failure from the MaxFails-th on locks anew.
Counted(a) ==
  IF a = None THEN [count |-> 1, first |-> now, lockedAt |-> None]
  ELSE [count |-> a.count + 1, first |-> a.first,
        lockedAt |-> IF a.count + 1 >= MaxFails THEN now ELSE a.lockedAt]

RecordFail(h) ==
  /\ comparing[h] # None
  /\ LET c == comparing[h] IN
       /\ attempts' = [attempts EXCEPT ![c] = Counted(@)]
       /\ until' = IF attempts'[c].lockedAt = None THEN until ELSE [until EXCEPT ![c] = now + LockoutDur]
       /\ lastFail' = [lastFail EXCEPT ![c] = now]
  /\ comparing' = [comparing EXCEPT ![h] = None]
  /\ UNCHANGED now

\* Reset: the right password, even of a login let in before the lock.
Reset(h) ==
  /\ comparing[h] # None
  /\ attempts' = [attempts EXCEPT ![comparing[h]] = None]
  /\ until' = [until EXCEPT ![comparing[h]] = 0]
  /\ comparing' = [comparing EXCEPT ![h] = None]
  /\ UNCHANGED <<now, lastFail>>

\* A request that cannot be read counts for nothing.
BadRequest(h) ==
  /\ comparing[h] # None /\ comparing' = [comparing EXCEPT ![h] = None]
  /\ UNCHANGED <<now, attempts, until, lastFail>>

\* Seeded fault (see the README): locks go with the window they began in.
CleanupByWindow ==
  /\ attempts' = [c \in Client |-> IF attempts[c] # None /\ WindowOver(c) THEN None ELSE attempts[c]]
  /\ UNCHANGED <<now, comparing, until, lastFail>>
\* cleanup, at any time.
Cleanup ==
  /\ attempts' = [c \in Client |->
       IF attempts[c] = None THEN None
       ELSE IF attempts[c].lockedAt = None /\ WindowOver(c) THEN None
       ELSE IF attempts[c].lockedAt # None /\ now > attempts[c].lockedAt + LockoutDur THEN None
       ELSE attempts[c]]
  /\ UNCHANGED <<now, comparing, until, lastFail>>

Tick == now < MaxTime /\ now' = now + 1 /\ UNCHANGED <<attempts, comparing, until, lastFail>>

\* The server stops and starts: nothing of this is kept.
LoginsRestart ==
  /\ attempts' = [c \in Client |-> None] /\ comparing' = [h \in Handler |-> None]
  /\ until' = [c \in Client |-> 0]
  /\ UNCHANGED <<now, lastFail>>

LoginsNext ==
  \/ Cleanup \/ Tick \/ LoginsRestart
  \/ \E h \in Handler :
       \/ RecordFail(h) \/ Reset(h) \/ BadRequest(h)
       \/ \E c \in Client : Allow(h, c)

----------------------------------------------------------------------------
\* A lock holds to its end: no clean-up, window or failure counted late lifts it, only the right
\* password of a login let in before it, or a restart.
LocksHold == \A c \in Client : now < until[c] => Refused(c)

\* Nobody is locked out for good: an address is refused only within LockoutDur of its last wrong
\* password, whether or not a clean-up has come by.
RefusalsEnd ==
  \A c \in Client : Refused(c) => lastFail[c] # None /\ now < lastFail[c] + LockoutDur

\* The limiter does neither less nor more than it says.
LimiterKeepsItsWord == LocksHold /\ RefusalsEnd
==============================================================================
