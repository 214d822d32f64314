------------------------------- MODULE Shares -------------------------------
(***************************************************************************)
(* Share links and what they lead to (internal/handler/shares.go with its  *)
(* cache, jsoncache.go, and the handlers of files.go that move a target).  *)
(*                                                                         *)
(* A link is stored with a path, not with the file it was made for, so     *)
(* each rename, move and delete is followed by a retarget: under sharesMu, *)
(* which the rename itself does not hold.  Sections under sharesMu are     *)
(* steps; requests interleave between them.                                *)
(*                                                                         *)
(* Paths are one or two names deep.  The mode of a link and the scope of   *)
(* the request it admits do not change and are left out, as are buckets,   *)
(* whose renames are retargeted in the same way.                           *)
(***************************************************************************)
EXTENDS Serving, Integers, FiniteSets, SequencesExt

CONSTANTS
  Top, Child,  \* names at the root, and inside its folders
  Folders,     \* identities of folders, never reused
  Files,       \* identities of files, never reused
  Link         \* ids of links, random and hence never reused; bound: the links made

ASSUME SharesAssumption ==
  /\ Folders \cap Files = {} /\ Folders # {} /\ Files # {} /\ None \notin Folders \cup Files
  /\ None \notin [path : Seq(Top \cup Child), label : BOOLEAN]

Path == {<<t>> : t \in Top} \cup {<<t, c>> : t \in Top, c \in Child}

VARIABLES
  at,       \* path -> the item there, or None
  used,     \* items that are or were somewhere
  stored,   \* shares.json: link -> its path and label, or None
  memo,     \* sharesCache: the last parse while it holds, or None
  sharing,  \* handler -> what the goroutine is doing
  meant,    \* observer: link -> the item it was made for, once its owner was given it
  revoked,  \* observer: links their owner revoked
  missed,   \* observer: links under a path whose retarget failed or was never reached
  linksMet  \* observer: two requests that move or share met on paths inside one another

sharesVars == <<at, used, stored, memo, sharing, meant, revoked, missed, linksMet>>

NoRequest == [pc |-> "idle", from |-> << >>, to |-> << >>, item |-> None]

\* A step of handler h, with what it is about.  to = << >>: nowhere, for a delete.
Doing(pc, from, to, item) == [pc |-> pc, from |-> from, to |-> to, item |-> item]

\* An identity of its kind that was given to nothing before.
Fresh(kind, given) == CHOOSE i \in kind : i \notin given

SharesInit ==
  /\ \E t \in Top, c \in Child : LET f == Fresh(Folders, {})
                                   i == Fresh(Files, {}) IN
       /\ at = [p \in Path |-> IF p = <<t>> THEN f ELSE IF p = <<t, c>> THEN i ELSE None]
       /\ used = {f, i}
  /\ stored = [l \in Link |-> None] /\ memo = None
  /\ sharing = [h \in Handler |-> NoRequest]
  /\ meant = [l \in Link |-> None] /\ revoked = {} /\ missed = {} /\ linksMet = FALSE

----------------------------------------------------------------------------
(* Paths *)

\* within: the path is base or inside it.
Within(p, base) == IsPrefix(base, p)
\* What is on the path, or would be if the path were not too long to be a path of this model.
On(p) == IF p \in Path THEN at[p] ELSE None
Parent(p) == Front(p)
HasParent(p) == Len(p) = 1 \/ On(Parent(p)) \in Folders
Moved(p, from, to) == to \o SubSeq(p, Len(from) + 1, Len(p))

\* The tree after a rename (os.Rename): everything inside the item goes with it.
Renamed(from, to) ==
  [p \in Path |-> IF Within(p, to) /\ Moved(p, to, from) \in Path THEN at[Moved(p, to, from)]
                  ELSE IF Within(p, from) THEN None ELSE at[p]]
Emptied(from) == [p \in Path |-> IF Within(p, from) THEN None ELSE at[p]]

\* Requests meet when a path of one is inside a path of the other.
Near(p, q) == p # << >> /\ q # << >> /\ (Within(p, q) \/ Within(q, p))
Meets(h, from, to) ==
  \E g \in Handler \ {h} : /\ sharing[g].pc # "idle"
                           /\ \E p \in {sharing[g].from, sharing[g].to}, q \in {from, to} : Near(p, q)
Race(h, from, to) == linksMet' = (linksMet \/ Meets(h, from, to))

Accept(h) == sharing[h].pc = "idle" /\ Spend
Reply(h) == sharing' = [sharing EXCEPT ![h] = NoRequest]

----------------------------------------------------------------------------
(* shares.json, each under sharesMu *)

\* load: the memo stands for the file until the next write.
Loaded == IF memo = None THEN stored ELSE memo
\* readShares by requests that write nothing: the listing, and every visitor's lookup.
Lookup == memo' = Loaded /\ UNCHANGED <<at, used, stored, sharing, left, meant, revoked, missed, linksMet>>

\* Seeded fault (see the README): the memo is trusted to notice the new mtime, which may be the old one.
WriteSharesOnly(list) == stored' = list /\ UNCHANGED memo
\* writeShares: the memo is dropped before the write.
WriteShares(list) == memo' = None /\ stored' = list
\* A read or write that fails leaves no memo either.
WriteFails == memo' = None /\ UNCHANGED stored

Under(from) == {l \in Link : stored[l] # None /\ Within(stored[l].path, from)}

\* Seeded fault: links to what is inside a moved folder stay where they were.
RetargetedExactly(list, from, to) ==
  [l \in Link |-> IF list[l] = None \/ list[l].path # from THEN list[l]
                  ELSE IF to = << >> THEN None ELSE [list[l] EXCEPT !.path = to]]

\* retargetShares: what was inside from is inside to now; with to = << >> its links end.
Retargeted(list, from, to) ==
  [l \in Link |-> IF list[l] = None \/ ~Within(list[l].path, from) THEN list[l]
                  ELSE IF to = << >> THEN None
                  ELSE [list[l] EXCEPT !.path = Moved(list[l].path, from, to)]]

RetargetShares(h) ==
  /\ sharing[h].pc = "retarget"
  /\ Reply(h)
  /\ LET list == Retargeted(Loaded, sharing[h].from, sharing[h].to) IN
       \/ /\ list = Loaded /\ memo' = Loaded
          /\ UNCHANGED <<left, stored, missed>>
       \/ /\ list # Loaded /\ WriteShares(list)
          /\ UNCHANGED <<left, missed>>
       \/ /\ list # Loaded /\ Spend /\ WriteFails
          /\ missed' = missed \cup Under(sharing[h].from)
  /\ UNCHANGED <<at, used, meant, revoked, linksMet>>

\* POST /api/shares: the target is looked at first, the link made under the lock.
CreateShare(h, p) ==
  /\ Accept(h) /\ at[p] # None
  /\ Cardinality({g \in Handler : sharing[g].pc = "create"}) < Cardinality({l \in Link : meant[l] = None})
  /\ sharing' = [sharing EXCEPT ![h] = Doing("create", p, << >>, at[p])]
  /\ Race(h, p, << >>)
  /\ UNCHANGED <<at, used, stored, memo, meant, revoked, missed>>

AddShare(h) ==
  /\ sharing[h].pc = "create"
  /\ Reply(h)
  /\ \E l \in Link : meant[l] = None
  /\ LET l == Fresh(Link, {k \in Link : meant[k] # None}) IN
       \/ /\ WriteShares([Loaded EXCEPT ![l] = [path |-> sharing[h].from, label |-> FALSE]])
          /\ meant' = [meant EXCEPT ![l] = sharing[h].item]
          /\ UNCHANGED left
       \/ Spend /\ WriteFails /\ UNCHANGED meant
  /\ UNCHANGED <<at, used, revoked, missed, linksMet>>

\* PATCH /api/shares, DELETE /api/shares: sections of their own from start to end.
Relabel(l) ==
  /\ Spend
  /\ Loaded[l] # None
  /\ WriteShares([Loaded EXCEPT ![l].label = ~@]) \/ WriteFails
  /\ UNCHANGED <<at, used, sharing, meant, revoked, missed, linksMet>>

Revoke(l) ==
  /\ Spend
  /\ Loaded[l] # None
  /\ \/ WriteShares([Loaded EXCEPT ![l] = None]) /\ revoked' = revoked \cup {l}
     \/ WriteFails /\ UNCHANGED revoked
  /\ UNCHANGED <<at, used, sharing, meant, missed, linksMet>>

----------------------------------------------------------------------------
(* The requests that move targets *)

\* renameHandler, moveHandler: the new path is free when it is looked at.
MoveBegin(h, p, q) ==
  /\ Accept(h) /\ p # q /\ On(q) = None
  /\ sharing' = [sharing EXCEPT ![h] = Doing("move", p, q, None)]
  /\ Race(h, p, q)
  /\ UNCHANGED <<at, used, stored, memo, meant, revoked, missed>>

\* os.Rename replaces a file by a file, and no folder.  (Bound: folders stay at the root.)
CanRename(p, q) ==
  /\ at[p] # None /\ HasParent(q) /\ ~Within(q, p)
  /\ at[q] # None => at[p] \in Files /\ at[q] \in Files
  /\ at[p] \in Folders => Len(q) = 1

MoveRename(h) ==
  /\ sharing[h].pc = "move"
  /\ \/ /\ CanRename(sharing[h].from, sharing[h].to)
        /\ at' = Renamed(sharing[h].from, sharing[h].to)
        /\ sharing' = [sharing EXCEPT ![h].pc = "retarget"]
     \/ /\ ~CanRename(sharing[h].from, sharing[h].to)
        /\ Reply(h) /\ UNCHANGED at
  /\ UNCHANGED <<used, stored, memo, left, meant, revoked, missed, linksMet>>

\* deleteHandler: into the trash (the Trash module has its steps), then the links end.  An index
\* that cannot be written fails the request after the file has gone.
DeleteTarget(h, p) ==
  /\ Accept(h) /\ at[p] # None
  /\ at' = Emptied(p)
  /\ Race(h, p, << >>)
  /\ \/ /\ sharing' = [sharing EXCEPT ![h] = Doing("retarget", p, << >>, None)]
        /\ UNCHANGED missed
     \/ /\ missed' = missed \cup Under(p) /\ UNCHANGED sharing
  /\ UNCHANGED <<used, stored, memo, meant, revoked>>

\* uploadHandler, mkdirHandler: something new where nothing was (O_EXCL).
Add(p, kind) ==
  /\ Spend
  /\ at[p] = None /\ HasParent(p) /\ (kind = Folders => Len(p) = 1)
  /\ kind \ used # {}
  /\ LET new == Fresh(kind, used) IN at' = [at EXCEPT ![p] = new] /\ used' = used \cup {new}
  /\ UNCHANGED <<stored, memo, sharing, meant, revoked, missed, linksMet>>

\* The server stops and starts: requests end where they are, the memo is empty.
SharesRestart ==
  /\ Spend
  /\ sharing' = [h \in Handler |-> NoRequest] /\ memo' = None
  /\ missed' = missed \cup UNION {Under(sharing[h].from) : h \in {g \in Handler : sharing[g].pc = "retarget"}}
  /\ UNCHANGED <<at, used, stored, meant, revoked, linksMet>>

----------------------------------------------------------------------------
SharesNext ==
  \/ Lookup \/ SharesRestart
  \/ \E h \in Handler :
       \/ RetargetShares(h) \/ MoveRename(h) \/ AddShare(h)
       \/ \E p \in Path : CreateShare(h, p) \/ DeleteTarget(h, p) \/ \E q \in Path : MoveBegin(h, p, q)
  \/ \E l \in Link : Relabel(l) \/ Revoke(l)
  \/ \E p \in Path, kind \in {Folders, Files} : Add(p, kind)

----------------------------------------------------------------------------
InFlight(l) ==
  \E h \in Handler : sharing[h].pc = "retarget" /\ Within(stored[l].path, sharing[h].from)

\* A link leads to the item it was made for, wherever that was moved, alone or inside a folder, and
\* whatever has appeared at its old path: outside a move that has not come to its retarget.
\* Promised short of requests that met (linksMet) and of retargets that failed (missed).
LinksLeadToTheirTarget ==
  ~linksMet => \A l \in Link : stored[l] # None /\ l \notin missed /\ ~InFlight(l) => On(stored[l].path) = meant[l]

\* A link its owner was given is there until he revokes it or its item is gone: no write of the list
\* made from an older one drops it, and none of another file's moves.
LinkGoesOnlyWithItsTarget ==
  ~linksMet => \A l \in Link : meant[l] # None /\ stored[l] = None
                              => l \in revoked \cup missed \/ \A p \in Path : at[p] # meant[l]

LinksKeepTheirTargets == LinksLeadToTheirTarget /\ LinkGoesOnlyWithItsTarget

\* A revoked link opens nothing again: neither a retarget or label written beside the revocation nor
\* the memo brings it back, even within one tick of the file's clock.
RevokedOpensNothing == \A l \in revoked : Loaded[l] = None
==============================================================================
