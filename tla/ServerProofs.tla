---------------------------- MODULE ServerProofs ----------------------------
(***************************************************************************)
(* For any paths, links, addresses, goroutines and numbers of requests and *)
(* faults: a share link follows its target and ends with it, and a revoked *)
(* one is never brought back; thumbnails show their pictures, and a folder *)
(* its newest; and locks of the login limiter hold and refusals end, for   *)
(* any limit and any window shorter than the lockout.                      *)
(***************************************************************************)
EXTENDS Server, FiniteSetTheorems, SequenceTheorems, WellFoundedInduction, TLAPS

----------------------------------------------------------------------------
(* Share links *)

\* The memo is what is stored.
MemoHolds == memo \in {None, stored}

\* A request to make a link has seen its target.
Sound(r) == DOMAIN r = {"pc", "from", "to", "item"} /\ (r.pc = "create" => r.item # None)

\* Links, their owners and the requests that make them agree: a link that is stored was given to
\* its owner under an id that is not given again, and one that was revoked is not stored.
LinksGiven ==
  /\ DOMAIN stored = Link /\ DOMAIN meant = Link /\ DOMAIN sharing = Handler
  /\ \A h \in Handler : Sound(sharing[h])
  /\ \A l \in Link : stored[l] # None => meant[l] # None
  /\ revoked \subseteq Link
  /\ \A l \in revoked : stored[l] = None /\ meant[l] # None

SInv == MemoHolds /\ LinksGiven

LEMMA LoadedIsStored == ASSUME MemoHolds PROVE Loaded = stored
  BY DEF MemoHolds, Loaded

LEMMA SInvInit == SharesInit => SInv
  BY DEF SharesInit, SInv, MemoHolds, LinksGiven, NoRequest, Sound

\* A write of the list that drops no id and adds none but what has been given keeps the invariant.
LEMMA WriteKeeps ==
  ASSUME SInv, UNCHANGED <<sharing, meant, revoked>>, NEW list, DOMAIN list = Link, WriteShares(list),
         \A l \in Link : stored[l] = None => list[l] = None
  PROVE SInv'
  BY DEF SInv, MemoHolds, LinksGiven, WriteShares

\* A step that leaves the list alone, and the memo empty, equal to it or alone.
LEMMA NoWriteKeeps ==
  ASSUME SInv, UNCHANGED <<stored, meant, revoked>>, memo' \in {None, stored},
         DOMAIN sharing' = Handler,
         \A g \in Handler : Sound(sharing'[g])
  PROVE SInv'
  BY DEF SInv, MemoHolds, LinksGiven

LEMMA SInvStep == SInv /\ [SharesNext]_sharesVars => SInv'
<1> SUFFICES ASSUME SInv, [SharesNext]_sharesVars PROVE SInv'
  OBVIOUS
<1>l. Loaded = stored
  BY LoadedIsStored DEF SInv
<1>m. memo \in {None, stored}
  BY DEF SInv, MemoHolds
<1>h. DOMAIN sharing = Handler /\ DOMAIN stored = Link /\ DOMAIN meant = Link
  BY DEF SInv, LinksGiven
<1>c. \A h \in Handler : Sound(sharing[h])
  BY DEF SInv, LinksGiven
<1>1. CASE UNCHANGED sharesVars
  BY <1>1, <1>m, <1>h, <1>c, NoWriteKeeps DEF sharesVars
<1>2. CASE Lookup
  BY <1>2, <1>l, <1>h, <1>c, NoWriteKeeps DEF Lookup
<1>3. CASE SharesRestart
  BY <1>3, NoWriteKeeps DEF SharesRestart, NoRequest, Sound
<1>4. ASSUME NEW h \in Handler, RetargetShares(h) PROVE SInv'
  <2> DEFINE list == Retargeted(Loaded, sharing[h].from, sharing[h].to)
  <2>1. sharing' = [sharing EXCEPT ![h] = NoRequest] /\ sharing[h].pc = "retarget" /\ UNCHANGED <<meant, revoked>>
    BY <1>4 DEF RetargetShares, Reply
  <2>2. DOMAIN sharing' = Handler /\ \A g \in Handler : Sound(sharing'[g])
    BY <2>1, <1>h, <1>c DEF NoRequest, Sound
  <2>3. CASE UNCHANGED stored /\ memo' \in {None, Loaded}
    BY <2>1, <2>2, <2>3, <1>l, NoWriteKeeps
  <2>4. CASE WriteShares(list)
    <3>1. DOMAIN list = Link /\ \A l \in Link : stored[l] = None => list[l] = None
      BY <1>l DEF Retargeted
    <3> HIDE DEF list
    <3> QED BY <2>1, <2>2, <2>4, <3>1 DEF SInv, MemoHolds, LinksGiven, WriteShares
  <2>5. (UNCHANGED stored /\ memo' \in {None, Loaded}) \/ WriteShares(list)
    <3> HIDE DEF Loaded
    <3> QED BY <1>4 DEF RetargetShares, WriteFails
  <2> QED BY <2>3, <2>4, <2>5
<1>5. ASSUME NEW h \in Handler, MoveRename(h) PROVE SInv'
  <2>1. \A g \in Handler : Sound(sharing'[g])
    BY <1>5, <1>h, <1>c DEF MoveRename, Reply, NoRequest, Sound
  <2> QED BY <1>5, <2>1, <1>m, <1>h, NoWriteKeeps DEF MoveRename, Reply
<1>6. ASSUME NEW h \in Handler, AddShare(h) PROVE SInv'
  <2> DEFINE l == Fresh(Link, {k \in Link : meant[k] # None})
  <2>0. l \in Link /\ meant[l] = None
    BY <1>6 DEF AddShare, Fresh
  <2>1. sharing[h].pc = "create" /\ sharing' = [sharing EXCEPT ![h] = NoRequest] /\ UNCHANGED revoked
    BY <1>6 DEF AddShare, Reply
  <2>2. DOMAIN sharing' = Handler /\ \A g \in Handler : Sound(sharing'[g])
    BY <2>1, <1>h, <1>c DEF NoRequest, Sound
  <2>3. CASE WriteFails /\ UNCHANGED meant
    BY <2>1, <2>2, <2>3, NoWriteKeeps DEF WriteFails
  <2>4. CASE /\ WriteShares([Loaded EXCEPT ![l] = [path |-> sharing[h].from, label |-> FALSE]])
             /\ meant' = [meant EXCEPT ![l] = sharing[h].item]
    <3>1. l \notin revoked /\ sharing[h].item # None
      BY <2>0, <2>1, <1>c DEF SInv, LinksGiven, Sound
    <3>2. \A k \in Link \ {l} : stored'[k] = stored[k] /\ meant'[k] = meant[k]
      BY <2>4, <1>l, <1>h DEF WriteShares
    <3>3. meant'[l] # None
      BY <2>0, <2>4, <1>h, <3>1
    <3>4. DOMAIN stored' = Link /\ DOMAIN meant' = Link /\ memo' = None
      BY <2>4, <1>l, <1>h DEF WriteShares
    <3> HIDE DEF l
    <3> QED BY <2>0, <2>1, <2>2, <3>1, <3>2, <3>3, <3>4 DEF SInv, MemoHolds, LinksGiven
  <2> QED BY <1>6, <2>3, <2>4 DEF AddShare
<1>7. ASSUME NEW h \in Handler, NEW p \in Path, CreateShare(h, p) PROVE SInv'
  <2>1. \A g \in Handler : Sound(sharing'[g])
    BY <1>7, <1>h, <1>c DEF CreateShare, Doing, Sound
  <2> QED BY <1>7, <2>1, <1>m, <1>h, NoWriteKeeps DEF CreateShare
<1>8. ASSUME NEW h \in Handler, NEW p \in Path, DeleteTarget(h, p) PROVE SInv'
  <2>1. \A g \in Handler : Sound(sharing'[g])
    BY <1>8, <1>h, <1>c DEF DeleteTarget, Doing, Sound
  <2> QED BY <1>8, <2>1, <1>m, <1>h, NoWriteKeeps DEF DeleteTarget
<1>9. ASSUME NEW h \in Handler, NEW p \in Path, NEW q \in Path, MoveBegin(h, p, q) PROVE SInv'
  <2>1. \A g \in Handler : Sound(sharing'[g])
    BY <1>9, <1>h, <1>c DEF MoveBegin, Doing, Sound
  <2> QED BY <1>9, <2>1, <1>m, <1>h, NoWriteKeeps DEF MoveBegin
<1>10. ASSUME NEW l \in Link, Relabel(l) PROVE SInv'
  <2> DEFINE list == [Loaded EXCEPT ![l].label = ~@]
  <2>1. DOMAIN list = Link /\ \A k \in Link : stored[k] = None => list[k] = None
    BY <1>10, <1>l, <1>h DEF Relabel
  <2>2. (WriteShares(list) \/ WriteFails) /\ UNCHANGED <<sharing, meant, revoked>>
    BY <1>10 DEF Relabel
  <2>3. CASE WriteFails
    BY <2>2, <2>3, <1>h, <1>c, NoWriteKeeps DEF WriteFails
  <2>4. CASE WriteShares(list)
    <3> HIDE DEF list
    <3> QED BY <2>1, <2>2, <2>4, WriteKeeps
  <2> QED BY <2>2, <2>3, <2>4
<1>11. ASSUME NEW l \in Link, Revoke(l) PROVE SInv'
  <2>1. stored[l] # None /\ UNCHANGED <<sharing, meant>>
    BY <1>11, <1>l DEF Revoke
  <2>2. CASE WriteFails /\ UNCHANGED revoked
    BY <2>1, <2>2, <1>h, <1>c, NoWriteKeeps DEF WriteFails
  <2>3. CASE WriteShares([Loaded EXCEPT ![l] = None]) /\ revoked' = revoked \cup {l}
    <3>1. stored' = [stored EXCEPT ![l] = None] /\ memo' = None
      BY <2>3, <1>l DEF WriteShares
    <3> QED BY <2>1, <2>3, <3>1 DEF SInv, MemoHolds, LinksGiven
  <2> QED BY <1>11, <2>2, <2>3 DEF Revoke
<1>12. ASSUME NEW p \in Path, NEW kind \in {Folders, Files}, Add(p, kind) PROVE SInv'
  BY <1>12, <1>m, <1>h, <1>c, NoWriteKeeps DEF Add
<1> QED BY <1>1, <1>2, <1>3, <1>4, <1>5, <1>6, <1>7, <1>8, <1>9, <1>10, <1>11, <1>12 DEF SharesNext

\* A revoked link opens nothing again, whatever else is written before, beside or after.
THEOREM RevokedStaysRevoked == ServerSpec => []RevokedOpensNothing
<1>1. Init => SInv
  BY SInvInit DEF Init
<1>2. SInv /\ [Next]_serverVars => SInv'
  <2> SUFFICES ASSUME SInv, [Next]_serverVars PROVE SInv'
    OBVIOUS
  <2>1. [SharesNext]_sharesVars
    BY DEF Next, serverVars
  <2> QED BY <2>1, SInvStep
<1>3. SInv => RevokedOpensNothing
  BY LoadedIsStored DEF SInv, LinksGiven, RevokedOpensNothing
<1> QED BY <1>1, <1>2, <1>3, PTL DEF ServerSpec

\* The items that are somewhere were given out, each to one path; folders are at the root, and what is
\* inside something is inside a folder.
Tree ==
  /\ at \in [Path -> Folders \cup Files \cup {None}] /\ used \subseteq Folders \cup Files
  /\ \A p \in Path : at[p] # None => at[p] \in used
  /\ \A p, q \in Path : at[p] = at[q] /\ at[p] # None => p = q
  /\ \A p \in Path : at[p] \in Folders => Len(p) = 1
  /\ \A t \in Top, c \in Child : at[<<t, c>>] # None => at[<<t>>] \in Folders

\* What a request is about.
Told(r) ==
  /\ r.pc \in {"idle", "move", "retarget", "create"}
  /\ r.pc = "move" => r.from \in Path /\ r.to \in Path /\ r.from # r.to
  /\ r.pc = "retarget" => r.from \in Path /\ r.to \in Path \cup {<< >>}
  /\ r.pc = "create" => r.from \in Path /\ r.to = << >> /\ r.item \in used

\* The links that are stored, and were not left behind by a retarget that failed.
Trusted(l) == stored[l] # None /\ l \notin missed

\* Two requests have no path in common, nor one inside the other.
Apart(r, s) ==
  r.pc # "idle" /\ s.pc # "idle" => \A p \in {r.from, r.to}, q \in {s.from, s.to} : ~Near(p, q)

\* No link leads to where something is to go.
Free(r) == r.pc = "move" => \A l \in Link : Trusted(l) => ~Within(stored[l].path, r.to)

\* What a retarget is to do is right: what a link was made for is where the link will lead, or gone.
Carried(r) ==
  r.pc = "retarget" =>
    \A l \in Link : Trusted(l) /\ Within(stored[l].path, r.from) =>
      IF r.to = << >> THEN \A p \in Path : at[p] # meant[l]
      ELSE Moved(stored[l].path, r.from, r.to) \in Path /\ at[Moved(stored[l].path, r.from, r.to)] = meant[l]

\* What a link is being made for is still there.
Seen(r) == r.pc = "create" => at[r.from] = r.item

Kept ==
  /\ \A g, h \in Handler : g # h => Apart(sharing[g], sharing[h])
  /\ \A h \in Handler : Free(sharing[h]) /\ Carried(sharing[h]) /\ Seen(sharing[h])
  /\ \A l \in Link : Trusted(l) => stored[l].path \in Path
  /\ \A l \in Link : Trusted(l) /\ ~InFlight(l) => On(stored[l].path) = meant[l]
  /\ \A l \in Link : meant[l] # None /\ stored[l] = None
                       => l \in revoked \cup missed \/ \A p \in Path : at[p] # meant[l]

StoredLink == [path : Seq(Top \cup Child), label : BOOLEAN]

LinkTypes ==
  /\ stored \in [Link -> StoredLink \cup {None}]
  /\ \A h \in Handler : Told(sharing[h])
  /\ \A l \in Link : meant[l] # None => meant[l] \in used
  /\ linksMet \in BOOLEAN

HInv == Tree /\ LinkTypes /\ (~linksMet => Kept)

\* The paths, and which of them are inside one another.
LEMMA Paths ==
  /\ \A p \in Path : \/ Len(p) = 1 /\ p[1] \in Top /\ p = <<p[1]>>
                     \/ Len(p) = 2 /\ p[1] \in Top /\ p[2] \in Child /\ p = <<p[1], p[2]>>
  /\ \A p \in Path : p # << >> /\ p \in Seq(Top \cup Child)
  /\ \A a \in Top : <<a>> \in Path /\ Len(<<a>>) = 1 /\ <<a>>[1] = a
  /\ \A a \in Top, c \in Child : <<a, c>> \in Path /\ Len(<<a, c>>) = 2 /\ <<a, c>>[1] = a /\ <<a, c>>[2] = c
<1>1. ASSUME NEW a \in Top
      PROVE  <<a>> \in Path /\ Len(<<a>>) = 1 /\ <<a>>[1] = a /\ <<a>> # << >> /\ <<a>> \in Seq(Top \cup Child)
  BY DEF Path
<1>2. ASSUME NEW a \in Top, NEW c \in Child
      PROVE  /\ <<a, c>> \in Path /\ Len(<<a, c>>) = 2 /\ <<a, c>>[1] = a /\ <<a, c>>[2] = c
             /\ <<a, c>> # << >> /\ <<a, c>> \in Seq(Top \cup Child)
  BY DEF Path
<1>3. ASSUME NEW p \in Path PROVE (\E a \in Top : p = <<a>>) \/ (\E a \in Top, c \in Child : p = <<a, c>>)
  BY DEF Path
<1>4. ASSUME NEW p \in Path
      PROVE  /\ \/ Len(p) = 1 /\ p[1] \in Top /\ p = <<p[1]>>
                \/ Len(p) = 2 /\ p[1] \in Top /\ p[2] \in Child /\ p = <<p[1], p[2]>>
             /\ p # << >> /\ p \in Seq(Top \cup Child)
  <2>1. CASE \E a \in Top : p = <<a>>
    BY <1>1, <2>1
  <2>2. CASE \E a \in Top, c \in Child : p = <<a, c>>
    <3>1. PICK a \in Top, c \in Child : p = <<a, c>>
      BY <2>2
    <3>2. Len(p) = 2 /\ p[1] = a /\ p[2] = c /\ p # << >> /\ p \in Seq(Top \cup Child)
      BY <1>2, <3>1
    <3> QED
      BY <3>1, <3>2
  <2> QED
    BY <1>3, <2>1, <2>2
<1> QED
  BY <1>1, <1>2, <1>4

LEMMA PathsWithin ==
  ASSUME NEW p \in Path, NEW q \in Path
  PROVE  Within(p, q) <=> p = q \/ (Len(p) = 2 /\ Len(q) = 1 /\ p[1] = q[1])
<1>1. ASSUME NEW a \in Top, NEW b \in Top PROVE Within(<<a>>, <<b>>) <=> a = b
  BY DEF Within, IsPrefix
<1>2. ASSUME NEW a \in Top, NEW b \in Top, NEW c \in Child PROVE Within(<<a, c>>, <<b>>) <=> a = b
  BY DEF Within, IsPrefix
<1>3. ASSUME NEW a \in Top, NEW b \in Top, NEW c \in Child PROVE ~Within(<<a>>, <<b, c>>)
  BY DEF Within, IsPrefix
<1>4. ASSUME NEW a \in Top, NEW b \in Top, NEW c \in Child, NEW d \in Child
      PROVE  Within(<<a, c>>, <<b, d>>) <=> a = b /\ c = d
  BY DEF Within, IsPrefix
<1>5. CASE Len(p) = 1 /\ Len(q) = 1
  BY <1>1, <1>5, Paths
<1>6. CASE Len(p) = 2 /\ Len(q) = 1
  <2>1. /\ p[1] \in Top /\ p[2] \in Child /\ p = <<p[1], p[2]>>
        /\ q[1] \in Top /\ q = <<q[1]>>
    <3>1. p[1] \in Top /\ p[2] \in Child /\ p = <<p[1], p[2]>>
      BY <1>6, Paths
    <3>2. q[1] \in Top /\ q = <<q[1]>>
      BY <1>6, Paths
    <3> QED
      BY <3>1, <3>2
  <2>2. Within(<<p[1], p[2]>>, <<q[1]>>) <=> p[1] = q[1]
    BY <1>2, <2>1
  <2>3. p # q
    BY <1>6
  <2> QED
    BY <1>6, <2>1, <2>2, <2>3
<1>7. CASE Len(p) = 1 /\ Len(q) = 2
  BY <1>3, <1>7, Paths
<1>8. CASE Len(p) = 2 /\ Len(q) = 2
  <2>1. p[1] \in Top /\ p[2] \in Child /\ p = <<p[1], p[2]>>
    BY <1>8, Paths
  <2>2. q[1] \in Top /\ q[2] \in Child /\ q = <<q[1], q[2]>>
    BY <1>8, Paths
  <2>3. Within(<<p[1], p[2]>>, <<q[1], q[2]>>) <=> p[1] = q[1] /\ p[2] = q[2]
    BY <1>4, <2>1, <2>2
  <2>4. p = q <=> p[1] = q[1] /\ p[2] = q[2]
    BY <2>1, <2>2
  <2>5. Within(p, q) <=> p = q
    BY <2>1, <2>2, <2>3, <2>4
  <2> QED
    BY <1>8, <2>5
<1> QED
  BY <1>5, <1>6, <1>7, <1>8, Paths

LEMMA MovedIsASeq ==
  \A p, from, to \in Seq(Top \cup Child) :
    /\ Moved(p, from, to) \in Seq(Top \cup Child)
    /\ Len(from) <= Len(p) =>
         /\ Len(Moved(p, from, to)) = Len(to) + (Len(p) - Len(from))
         /\ \A i \in 1 .. Len(to) : Moved(p, from, to)[i] = to[i]
         /\ \A i \in 1 .. Len(p) - Len(from) : Moved(p, from, to)[Len(to) + i] = p[Len(from) + i]
<1> DEFINE S == Top \cup Child
<1> HIDE DEF S
<1> SUFFICES ASSUME NEW p \in Seq(S), NEW from \in Seq(S), NEW to \in Seq(S)
    PROVE  /\ Moved(p, from, to) \in Seq(S)
           /\ Len(from) <= Len(p) =>
                /\ Len(Moved(p, from, to)) = Len(to) + (Len(p) - Len(from))
                /\ \A i \in 1 .. Len(to) : Moved(p, from, to)[i] = to[i]
                /\ \A i \in 1 .. Len(p) - Len(from) : Moved(p, from, to)[Len(to) + i] = p[Len(from) + i]
  BY DEF S
<1> DEFINE rest == SubSeq(p, Len(from) + 1, Len(p))
<1>1. Len(p) \in Nat /\ Len(from) \in Nat /\ Len(to) \in Nat
  BY LenProperties
<1>2. \A i \in (Len(from) + 1) .. Len(p) : p[i] \in S
  BY <1>1, ElementOfSeq
<1>3. /\ rest \in Seq(S) /\ (Len(from) <= Len(p) => Len(rest) = Len(p) - Len(from))
      /\ \A i \in 1 .. Len(p) - Len(from) : rest[i] = p[Len(from) + i]
  BY <1>1, <1>2, SubSeqProperties
<1> HIDE DEF rest
<1>4. /\ to \o rest \in Seq(S) /\ Len(to \o rest) = Len(to) + Len(rest)
      /\ \A i \in 1 .. Len(to) + Len(rest) : (to \o rest)[i] = IF i <= Len(to) THEN to[i] ELSE rest[i - Len(to)]
  BY <1>3, ConcatProperties
<1>5. Moved(p, from, to) = to \o rest
  BY DEF Moved, rest
<1>6. Len(rest) \in Nat
  BY <1>3, LenProperties
<1>7. ASSUME Len(from) <= Len(p), NEW i \in 1 .. Len(to) PROVE (to \o rest)[i] = to[i]
  BY <1>1, <1>4, <1>6
<1>8. ASSUME Len(from) <= Len(p), NEW i \in 1 .. Len(p) - Len(from) PROVE (to \o rest)[Len(to) + i] = p[Len(from) + i]
  <2>1. Len(to) + i \in 1 .. Len(to) + Len(rest) /\ ~(Len(to) + i <= Len(to)) /\ Len(to) + i - Len(to) = i
    BY <1>1, <1>3, <1>6, <1>8
  <2>2. (to \o rest)[Len(to) + i] = rest[Len(to) + i - Len(to)]
    BY <1>4, <2>1
  <2> QED
    BY <1>3, <2>1, <2>2
<1> QED
  BY <1>1, <1>3, <1>4, <1>5, <1>6, <1>7, <1>8

\* Where what is inside a path goes.
LEMMA PathsMoved ==
  ASSUME NEW p \in Path, NEW q \in Path
  PROVE  /\ Moved(p, p, q) = q
         /\ \A c \in Child : /\ Len(p) = 1 /\ Len(q) = 1 => Moved(<<p[1], c>>, p, q) = <<q[1], c>>
                             /\ Len(p) = 1 /\ Len(q) = 2 => Moved(<<p[1], c>>, p, q) \notin Path
<1>1. p \in Seq(Top \cup Child) /\ q \in Seq(Top \cup Child)
  BY Paths
<1>2. Moved(p, p, q) = q
  <2>1. Len(p) \in Nat /\ Len(q) \in Nat
    BY <1>1, LenProperties
  <2>2. /\ Moved(p, p, q) \in Seq(Top \cup Child) /\ Len(Moved(p, p, q)) = Len(q) + (Len(p) - Len(p))
        /\ \A i \in 1 .. Len(q) : Moved(p, p, q)[i] = q[i]
    <3>1. Len(p) <= Len(p)
      BY <2>1
    <3> QED
      BY <1>1, <3>1, MovedIsASeq
  <2>3. Len(Moved(p, p, q)) = Len(q)
    BY <2>1, <2>2
  <2> QED
    BY <1>1, <2>2, <2>3, SeqEqual
<1>3. ASSUME NEW c \in Child, Len(p) = 1, Len(q) = 1 PROVE Moved(<<p[1], c>>, p, q) = <<q[1], c>>
  <2> DEFINE r == <<p[1], c>>
  <2>1. r \in Seq(Top \cup Child) /\ Len(r) = 2 /\ r[2] = c
    BY Paths
  <2> HIDE DEF r
  <2>2. /\ Moved(r, p, q) \in Seq(Top \cup Child) /\ Len(Moved(r, p, q)) = Len(q) + (Len(r) - Len(p))
        /\ \A i \in 1 .. Len(q) : Moved(r, p, q)[i] = q[i]
        /\ \A i \in 1 .. Len(r) - Len(p) : Moved(r, p, q)[Len(q) + i] = r[Len(p) + i]
    <3>1. Len(p) <= Len(r)
      BY <1>3, <2>1
    <3> QED
      BY <1>1, <2>1, <3>1, MovedIsASeq
  <2>4. Len(Moved(r, p, q)) = 2 /\ Moved(r, p, q)[1] = q[1] /\ Moved(r, p, q)[2] = c
    BY <1>3, <2>1, <2>2
  <2>3. <<q[1], c>> \in Seq(Top \cup Child) /\ Len(<<q[1], c>>) = 2
    BY <1>3, Paths
  <2>5. \A i \in 1 .. 2 : Moved(r, p, q)[i] = <<q[1], c>>[i]
    BY <2>4
  <2>6. Moved(r, p, q) = <<q[1], c>>
    BY <2>2, <2>3, <2>4, <2>5, SeqEqual
  <2> QED
    BY <2>6 DEF r
<1>4. ASSUME NEW c \in Child, Len(p) = 1, Len(q) = 2 PROVE Moved(<<p[1], c>>, p, q) \notin Path
  <2> DEFINE r == <<p[1], c>>
  <2>1. r \in Seq(Top \cup Child) /\ Len(r) = 2
    BY Paths
  <2> HIDE DEF r
  <2>2. Len(Moved(r, p, q)) = Len(q) + (Len(r) - Len(p))
    <3>1. Len(p) <= Len(r)
      BY <1>4, <2>1
    <3> QED
      BY <1>1, <2>1, <3>1, MovedIsASeq
  <2>3. Len(Moved(r, p, q)) = 3
    BY <1>4, <2>1, <2>2
  <2>4. ASSUME NEW x \in Path PROVE Len(x) # 3
    <3>1. Len(x) = 1 \/ Len(x) = 2
      BY Paths
    <3> QED
      BY <3>1
  <2>5. Moved(r, p, q) \notin Path
    BY <2>3, <2>4
  <2> QED
    BY <2>5 DEF r
<1> QED
  BY <1>2, <1>3, <1>4

\* Two paths with something inside both are inside one another.
LEMMA PathsMeet ==
  ASSUME NEW p \in Path, NEW a \in Path, NEW b \in Path, Within(p, a), Within(p, b)
  PROVE  Near(a, b)
<1>1. a # << >> /\ b # << >>
  BY Paths
<1>2. p = a \/ (Len(p) = 2 /\ Len(a) = 1 /\ p[1] = a[1])
  BY PathsWithin
<1>3. p = b \/ (Len(p) = 2 /\ Len(b) = 1 /\ p[1] = b[1])
  BY PathsWithin
<1>4. a = b \/ (Len(a) = 1 /\ Len(b) = 2 /\ a[1] = b[1]) \/ (Len(b) = 1 /\ Len(a) = 2 /\ a[1] = b[1])
  BY <1>2, <1>3, Paths
<1>5. Within(a, b) \/ Within(b, a)
  BY <1>4, PathsWithin
<1> QED
  BY <1>1, <1>5 DEF Near

\* What is on a path that is inside another: the other holds a folder.
LEMMA InsideAFolder ==
  ASSUME Tree, NEW p \in Path, NEW q \in Path, Within(p, q), p # q, at[p] # None
  PROVE  at[q] \in Folders /\ Len(q) = 1
<1>1. Len(p) = 2 /\ Len(q) = 1 /\ p[1] = q[1]
  BY PathsWithin
<1>2. p = <<p[1], p[2]>> /\ p[1] \in Top /\ p[2] \in Child /\ q = <<p[1]>>
  BY <1>1, Paths
<1> QED
  BY <1>1, <1>2 DEF Tree

\* What a rename that can be does: nothing is left where the item was, and what is elsewhere stays.
LEMMA WhatARenameDoes ==
  ASSUME Tree, NEW p \in Path, NEW q \in Path, CanRename(p, q)
  PROVE  /\ ~Near(p, q)
         /\ \A r \in Path : ~Within(r, p) /\ ~Within(r, q) => Renamed(p, q)[r] = at[r]
         /\ \A r \in Path : Within(r, p) => Renamed(p, q)[r] = None
         /\ \A r \in Path : Within(r, p) /\ at[r] # None =>
              Moved(r, p, q) \in Path /\ Within(Moved(r, p, q), q) /\ Renamed(p, q)[Moved(r, p, q)] = at[r]
         /\ \A r \in Path : Within(r, q) /\ Renamed(p, q)[r] # None =>
              \E s \in Path : Within(s, p) /\ r = Moved(s, p, q) /\ Renamed(p, q)[r] = at[s]
<1> DEFINE new == Renamed(p, q)
<1>1. at[p] # None /\ ~Within(q, p) /\ (at[q] # None => at[p] \in Files /\ at[q] \in Files)
      /\ (at[p] \in Folders => Len(q) = 1) /\ at[p] \in Folders \cup Files /\ Folders \cap Files = {}
  BY SharesAssumption DEF CanRename, Tree
<1>2. ~Within(p, q)
  <2>1. CASE p = q
    BY <1>1, <2>1
  <2>2. CASE p # q /\ Within(p, q)
    <3>1. at[q] \in Folders
      BY <1>1, <2>2, InsideAFolder
    <3> QED
      BY <1>1, <3>1, SharesAssumption
  <2> QED
    BY <2>1, <2>2
<1>3. ~Near(p, q)
  BY <1>1, <1>2 DEF Near
<1>4. \A r \in Path : ~(Within(r, p) /\ Within(r, q))
  BY <1>3, PathsMeet
<1>5. \A r \in Path : new[r] = IF Within(r, q) /\ Moved(r, q, p) \in Path THEN at[Moved(r, q, p)]
                               ELSE IF Within(r, p) THEN None ELSE at[r]
  BY DEF Renamed
<1>6. \A r \in Path : ~Within(r, p) /\ ~Within(r, q) => new[r] = at[r]
  BY <1>5
<1>7. \A r \in Path : Within(r, p) => new[r] = None
  BY <1>4, <1>5
<1>8. Within(q, q) /\ Moved(p, p, q) = q /\ Moved(q, q, p) = p /\ new[q] = at[p]
  BY <1>5, PathsWithin, PathsMoved
<1>9. ASSUME NEW r \in Path, Within(r, p), at[r] # None
      PROVE  Moved(r, p, q) \in Path /\ Within(Moved(r, p, q), q) /\ new[Moved(r, p, q)] = at[r]
  <2>1. CASE r = p
    BY <1>8, <2>1
  <2>2. CASE r # p
    <3>1. at[p] \in Folders /\ Len(p) = 1 /\ Len(q) = 1
      BY <1>1, <1>9, <2>2, InsideAFolder
    <3>2. Len(r) = 2 /\ r[1] = p[1]
      BY <1>9, <2>2, PathsWithin
    <3>3. PICK c \in Child : r = <<p[1], c>>
      BY <3>2, Paths
    <3>4. Moved(r, p, q) = <<q[1], c>> /\ Moved(<<q[1], c>>, q, p) = r
      BY <3>1, <3>3, PathsMoved
    <3>5. q[1] \in Top
      BY Paths
    <3>6. <<q[1], c>> \in Path /\ Len(<<q[1], c>>) = 2 /\ <<q[1], c>>[1] = q[1]
      BY <3>5, Paths
    <3>7. Within(<<q[1], c>>, q)
      BY <3>1, <3>6, PathsWithin
    <3> QED
      BY <1>5, <3>4, <3>6, <3>7
  <2> QED
    BY <2>1, <2>2
<1>10. ASSUME NEW r \in Path, Within(r, q), new[r] # None
       PROVE  \E s \in Path : Within(s, p) /\ r = Moved(s, p, q) /\ new[r] = at[s]
  <2>1. CASE r = q
    BY <1>8, <2>1, PathsWithin
  <2>2. CASE r # q
    <3>1. Len(r) = 2 /\ Len(q) = 1 /\ r[1] = q[1] /\ r[2] \in Child /\ r = <<r[1], r[2]>>
      BY <1>10, <2>2, PathsWithin, Paths
    <3>2. PICK c \in Child : r = <<q[1], c>>
      BY <3>1
    <3>3. CASE Len(p) = 1
      <4>1. Moved(r, q, p) = <<p[1], c>> /\ Moved(<<p[1], c>>, p, q) = r
        BY <3>1, <3>2, <3>3, PathsMoved
      <4>2. p[1] \in Top
        BY Paths
      <4>3. <<p[1], c>> \in Path /\ Len(<<p[1], c>>) = 2 /\ <<p[1], c>>[1] = p[1]
        BY <4>2, Paths
      <4>4. Within(<<p[1], c>>, p)
        BY <3>3, <4>3, PathsWithin
      <4> QED
        BY <1>5, <1>10, <4>1, <4>3, <4>4
    <3>4. CASE Len(p) = 2
      <4>1. Moved(r, q, p) \notin Path
        BY <3>1, <3>2, <3>4, PathsMoved
      <4>2. new[r] = at[r]
        BY <1>4, <1>5, <1>10, <4>1
      <4>3. at[q] \in Folders
        BY <1>10, <2>2, <4>2, InsideAFolder
      <4> QED
        BY <1>1, <4>3, SharesAssumption
    <3> QED
      BY <3>3, <3>4, Paths
  <2> QED
    BY <2>1, <2>2
<1> QED
  BY <1>3, <1>6, <1>7, <1>9, <1>10

LEMMA InsideARoot ==
  ASSUME NEW t \in Top, NEW c \in Child
  PROVE  /\ <<t>> \in Path /\ <<t, c>> \in Path /\ Within(<<t, c>>, <<t>>)
         /\ \A p \in Path : Within(<<t>>, p) => p = <<t>>
         /\ \A p \in Path : Within(<<t, c>>, p) => p = <<t, c>> \/ p = <<t>>
<1>1. /\ <<t>> \in Path /\ Len(<<t>>) = 1 /\ <<t>>[1] = t
      /\ <<t, c>> \in Path /\ Len(<<t, c>>) = 2 /\ <<t, c>>[1] = t
  BY Paths
<1>2. Within(<<t, c>>, <<t>>)
  BY <1>1, PathsWithin
<1>3. ASSUME NEW p \in Path, Within(<<t>>, p) PROVE p = <<t>>
  BY <1>1, <1>3, PathsWithin
<1>4. ASSUME NEW p \in Path, Within(<<t, c>>, p), p # <<t, c>> PROVE p = <<t>>
  <2>1. Len(p) = 1 /\ p[1] = t
    BY <1>1, <1>4, PathsWithin
  <2> QED
    BY <2>1, Paths
<1> QED
  BY <1>1, <1>2, <1>3, <1>4

\* The folder of a path holds it.
LEMMA HasAParent == ASSUME NEW t \in Top, NEW c \in Child, HasParent(<<t, c>>) PROVE at[<<t>>] \in Folders
<1>1. Front(<<t, c>>) = <<t>>
  <2>1. Len(<<t, c>>) - 1 = 1
    OBVIOUS
  <2>2. SubSeq(<<t, c>>, 1, 1) = <<t>>
    <3> DEFINE r == <<t, c>>
               S == Top \cup Child
    <3>1. \A i \in 1 .. 1 : r[i] \in S
      OBVIOUS
    <3>2. r[1] = t
      OBVIOUS
    <3>3. <<t>> \in Seq(S) /\ Len(<<t>>) = 1 /\ <<t>>[1] = t
      OBVIOUS
    <3> HIDE DEF r, S
    <3>4. SubSeq(r, 1, 1) \in Seq(S) /\ Len(SubSeq(r, 1, 1)) = 1 /\ SubSeq(r, 1, 1)[1] = r[1]
      BY <3>1, SubSeqProperties
    <3>5. SubSeq(r, 1, 1) = <<t>>
      <4> DEFINE x == SubSeq(r, 1, 1)
                 y == <<t>>
      <4>1. x \in Seq(S) /\ y \in Seq(S) /\ Len(x) = Len(y) /\ \A i \in 1 .. Len(x) : x[i] = y[i]
        BY <3>2, <3>3, <3>4
      <4> HIDE DEF x, y
      <4>2. x = y
        BY <4>1, SeqEqual
      <4> QED
        BY <4>2 DEF x, y
    <3> QED
      BY <3>5 DEF r
  <2> QED
    BY <2>1, <2>2 DEF Front
<1>2. <<t>> \in Path /\ Len(<<t, c>>) = 2
  BY Paths
<1> QED
  BY <1>1, <1>2 DEF HasParent, Parent, On

LEMMA RenamedTree ==
  ASSUME Tree, NEW p \in Path, NEW q \in Path, CanRename(p, q), at' = Renamed(p, q), UNCHANGED used
  PROVE  Tree'
<1>1. /\ ~Near(p, q)
      /\ \A r \in Path : ~Within(r, p) /\ ~Within(r, q) => at'[r] = at[r]
      /\ \A r \in Path : Within(r, p) => at'[r] = None
      /\ \A r \in Path : Within(r, p) /\ at[r] # None =>
           Moved(r, p, q) \in Path /\ Within(Moved(r, p, q), q) /\ at'[Moved(r, p, q)] = at[r]
      /\ \A r \in Path : Within(r, q) /\ at'[r] # None =>
           \E s \in Path : Within(s, p) /\ r = Moved(s, p, q) /\ at'[r] = at[s]
  BY WhatARenameDoes
<1>2. at' = [r \in Path |-> at'[r]]
  BY DEF Renamed
<1>3. CanRename(p, q) /\ Folders \cap Files = {} /\ at[p] \in Folders \cup Files
  BY SharesAssumption DEF CanRename, Tree
\* What is somewhere now was at its source.
<1>4. ASSUME NEW r \in Path, at'[r] # None
      PROVE  \/ at'[r] = at[r] /\ ~Within(r, p) /\ ~Within(r, q)
             \/ Within(r, q) /\ \E s \in Path : Within(s, p) /\ r = Moved(s, p, q) /\ at'[r] = at[s]
  BY <1>1, <1>4
<1>5. \A r \in Path : at'[r] \in Folders \cup Files \cup {None} /\ (at'[r] # None => at'[r] \in used)
  BY <1>4 DEF Tree
<1>6. ASSUME NEW r \in Path, NEW s \in Path, at'[r] = at'[s], at'[r] # None PROVE r = s
  BY <1>4, <1>6 DEF Tree
<1>7. ASSUME NEW r \in Path, at'[r] \in Folders PROVE Len(r) = 1
  <2>1. at'[r] # None
    BY <1>7, SharesAssumption
  <2>2. CASE at'[r] = at[r]
    BY <1>7, <2>2 DEF Tree
  <2>3. ASSUME NEW s \in Path, Within(s, p), r = Moved(s, p, q), at'[r] = at[s] PROVE Len(r) = 1
    <3>1. Len(s) = 1
      BY <1>7, <2>3 DEF Tree
    <3>2. s = p
      BY <2>3, <3>1, PathsWithin
    <3> QED
      BY <1>3, <1>7, <2>3, <3>2, PathsMoved DEF CanRename
  <2> QED
    BY <1>4, <2>1, <2>2, <2>3
<1>8. ASSUME NEW t \in Top, NEW c \in Child, at'[<<t, c>>] # None PROVE at'[<<t>>] \in Folders
  <2> DEFINE r == <<t, c>>
             b == <<t>>
  <2>1. b \in Path /\ r \in Path /\ Within(r, b) /\ \A s \in Path : Within(b, s) => s = b
    BY InsideARoot
  <2>2. CASE at'[r] = at[r] /\ ~Within(r, p) /\ ~Within(r, q)
    <3>1. b # p /\ b # q
      BY <2>1, <2>2
    <3>2. at'[b] = at[b]
      BY <1>1, <2>1, <3>1
    <3>3. at[r] # None
      BY <1>8, <2>2
    <3> QED
      BY <3>2, <3>3 DEF Tree
  <2>3. CASE Within(r, q) /\ \E s \in Path : Within(s, p) /\ r = Moved(s, p, q) /\ at'[r] = at[s]
    <3>1. PICK s \in Path : Within(s, p) /\ r = Moved(s, p, q) /\ at'[r] = at[s]
      BY <2>3
    <3>2. CASE q = r
      <4>1. at[b] \in Folders
        BY <1>3, <3>2, HasAParent DEF CanRename
      <4>2. b # q /\ ~Within(b, p)
        BY <1>1, <2>1, <3>2 DEF CanRename
      <4> QED
        BY <1>1, <2>1, <4>1, <4>2
    <3>3. CASE q # r
      <4>1. q = b
        BY <2>3, <3>3, InsideARoot
      <4>2. s # p
        BY <3>1, <3>3, PathsMoved
      <4>3. at[p] \in Folders
        BY <1>8, <3>1, <4>2, InsideAFolder
      <4>4. at'[q] = at[p]
        BY <1>1, <4>3, SharesAssumption, PathsMoved, PathsWithin
      <4> QED
        BY <4>1, <4>3, <4>4
    <3> QED
      BY <3>2, <3>3
  <2> QED
    BY <1>4, <1>8, <2>1, <2>2, <2>3
<1>9. at' \in [Path -> Folders \cup Files \cup {None}] /\ used' \subseteq Folders \cup Files
  BY <1>2, <1>5 DEF Tree
<1> QED
  BY <1>5, <1>6, <1>7, <1>8, <1>9 DEF Tree

LEMMA EmptiedTree == ASSUME Tree, NEW p \in Path, at' = Emptied(p), UNCHANGED used PROVE Tree'
<1>1. DOMAIN at' = Path /\ \A r \in Path : at'[r] = IF Within(r, p) THEN None ELSE at[r]
  BY DEF Emptied
<1>2. ASSUME NEW t \in Top, NEW c \in Child, at'[<<t, c>>] # None PROVE at'[<<t>>] \in Folders
  <2>1. ~Within(<<t, c>>, p) /\ at[<<t, c>>] # None /\ <<t>> \in Path
    BY <1>1, <1>2, InsideARoot
  <2>2. ~Within(<<t>>, p)
    BY <2>1, InsideARoot
  <2> QED
    BY <1>1, <2>1, <2>2 DEF Tree
<1>3. at' \in [Path -> Folders \cup Files \cup {None}] /\ used' \subseteq Folders \cup Files
  <2>1. at' = [r \in Path |-> at'[r]]
    BY DEF Emptied
  <2>2. \A r \in Path : at'[r] \in Folders \cup Files \cup {None}
    BY <1>1 DEF Tree
  <2> QED
    BY <2>1, <2>2 DEF Tree
<1>4. \A r \in Path : (at'[r] # None => at'[r] \in used) /\ (at'[r] \in Folders => Len(r) = 1)
  BY <1>1, SharesAssumption DEF Tree
<1>5. \A r, s \in Path : at'[r] = at'[s] /\ at'[r] # None => r = s
  BY <1>1 DEF Tree
<1> QED
  BY <1>2, <1>3, <1>4, <1>5 DEF Tree

\* Something new, on a path where nothing was.
LEMMA AddStep ==
  ASSUME Tree, NEW p \in Path, NEW kind \in {Folders, Files}, Add(p, kind)
  PROVE  /\ Tree' /\ at[p] = None /\ \A r \in Path \ {p} : at'[r] = at[r]
         /\ at'[p] \notin used /\ at'[p] # None /\ used \subseteq used'
<1> DEFINE new == Fresh(kind, used)
<1>1. /\ at[p] = None /\ HasParent(p) /\ (kind = Folders => Len(p) = 1)
      /\ at' = [at EXCEPT ![p] = new] /\ used' = used \cup {new}
  BY DEF Add
<1>2. new \in kind /\ new \notin used
  <2>1. kind \ used # {}
    BY DEF Add
  <2> QED
    BY <2>1 DEF Fresh
<1> HIDE DEF new
<1>3. new # None /\ new \in Folders \cup Files /\ (new \in Folders => Len(p) = 1)
  BY <1>1, <1>2, SharesAssumption
<1>4. \A r \in Path : at'[r] = IF r = p THEN new ELSE at[r]
  BY <1>1 DEF Tree
<1>5. at' \in [Path -> Folders \cup Files \cup {None}] /\ used' \subseteq Folders \cup Files
  BY <1>1, <1>3 DEF Tree
<1>6. \A r \in Path : (at'[r] # None => at'[r] \in used') /\ (at'[r] \in Folders => Len(r) = 1)
  BY <1>1, <1>3, <1>4 DEF Tree
<1>7. \A r, s \in Path : at'[r] = at'[s] /\ at'[r] # None => r = s
  BY <1>1, <1>2, <1>4 DEF Tree
<1>8. ASSUME NEW t \in Top, NEW c \in Child, at'[<<t, c>>] # None PROVE at'[<<t>>] \in Folders
  <2>1. <<t>> \in Path /\ <<t, c>> \in Path
    BY InsideARoot
  <2>2. at[<<t>>] \in Folders
    <3>1. CASE <<t, c>> = p
      BY <1>1, <3>1, HasAParent
    <3>2. CASE <<t, c>> # p
      BY <1>4, <1>8, <2>1, <3>2 DEF Tree
    <3> QED
      BY <3>1, <3>2
  <2>3. <<t>> # p
    BY <1>1, <2>2, SharesAssumption
  <2> QED
    BY <1>4, <2>1, <2>2, <2>3
<1> QED
  BY <1>1, <1>2, <1>3, <1>4, <1>5, <1>6, <1>7, <1>8 DEF Tree

LEMMA KeptSuffices == HInv => LinksKeepTheirTargets
BY DEF HInv, Kept, Trusted, LinksKeepTheirTargets, LinksLeadToTheirTarget, LinkGoesOnlyWithItsTarget

\* What a retarget carries along ends up inside its target.
LEMMA MovedWithin ==
  ASSUME NEW x \in Path, NEW p \in Path, NEW q \in Path, Within(x, p), Moved(x, p, q) \in Path
  PROVE  Within(Moved(x, p, q), q)
<1>1. CASE x = p
  BY <1>1, PathsMoved, PathsWithin
<1>2. CASE x # p
  <2>1. Len(x) = 2 /\ Len(p) = 1 /\ x[1] = p[1]
    BY <1>2, PathsWithin
  <2>2. PICK c \in Child : x = <<p[1], c>>
    BY <2>1, Paths
  <2>3. Len(q) = 1
    BY <2>1, <2>2, PathsMoved, Paths
  <2>4. Moved(x, p, q) = <<q[1], c>>
    BY <2>1, <2>2, <2>3, PathsMoved
  <2>5. q[1] \in Top /\ q = <<q[1]>>
    BY <2>3, Paths
  <2> QED
    BY <2>4, <2>5, InsideARoot
<1> QED
  BY <1>1, <1>2

\* A link leads to its item where nothing is in flight.
LEMMA LeadsThere ==
  ASSUME SInv, LinkTypes, Kept, NEW l \in Link, Trusted(l), ~InFlight(l)
  PROVE  stored[l].path \in Path /\ at[stored[l].path] = meant[l] /\ meant[l] # None /\ meant[l] \in used
<1>1. stored[l].path \in Path /\ On(stored[l].path) = meant[l]
  BY DEF Kept
<1>2. meant[l] # None /\ meant[l] \in used
  BY DEF Trusted, SInv, LinksGiven, LinkTypes
<1> QED
  BY <1>1, <1>2 DEF On

\* A request of which another one is apart has nothing of the other's in its paths.
LEMMA ApartPaths ==
  ASSUME NEW r, NEW s, Apart(r, s), r.pc # "idle", s.pc # "idle",
         NEW x \in Path, NEW p \in Path, NEW q \in Path, p \in {r.from, r.to}, q \in {s.from, s.to},
         Within(x, p)
  PROVE  ~Within(x, q)
BY PathsMeet DEF Apart

\* Requests stay apart when one goes on with the paths it had, ends, or meets no other.
LEMMA ApartStep ==
  ASSUME SInv, \A g, k \in Handler : g # k => Apart(sharing[g], sharing[k]),
         NEW h \in Handler, NEW r, sharing' = [sharing EXCEPT ![h] = r],
         \/ r.pc = "idle"
         \/ sharing[h].pc # "idle" /\ r.from = sharing[h].from /\ r.to = sharing[h].to
         \/ ~Meets(h, r.from, r.to)
  PROVE  \A g, k \in Handler : g # k => Apart(sharing'[g], sharing'[k])
<1>1. DOMAIN sharing = Handler
  BY DEF SInv, LinksGiven
<1>2. ASSUME NEW g \in Handler \ {h} PROVE Apart(sharing[g], r) /\ Apart(r, sharing[g])
  <2>1. Apart(sharing[g], sharing[h]) /\ Apart(sharing[h], sharing[g])
    OBVIOUS
  <2>2. CASE r.pc = "idle"
    BY <2>2 DEF Apart
  <2>3. CASE sharing[h].pc # "idle" /\ r.from = sharing[h].from /\ r.to = sharing[h].to
    BY <2>1, <2>3 DEF Apart
  <2>4. CASE ~Meets(h, r.from, r.to)
    <3>1. sharing[g].pc # "idle" => \A p \in {sharing[g].from, sharing[g].to}, q \in {r.from, r.to} : ~Near(p, q)
      BY <2>4 DEF Meets
    <3>2. \A p, q : Near(p, q) <=> Near(q, p)
      BY DEF Near
    <3> QED
      BY <3>1, <3>2 DEF Apart
  <2> QED
    BY <2>2, <2>3, <2>4
<1> QED
  BY <1>1, <1>2

\* What the others rely on: while what is on the paths of a request stays and nothing that is gone comes
\* back, what it is to do stays right.
LEMMA OthersRely ==
  ASSUME SInv, LinkTypes, NEW r, Told(r), Free(r), Carried(r), Seen(r),
         \A l \in Link : Trusted(l) => stored[l].path \in Path,
         UNCHANGED <<stored, meant>>, missed \subseteq missed', None \notin used,
         r.pc # "idle" => \A x \in Path : at[x] # None /\ at'[x] # at[x]
                                            => /\ r.from \in Path => ~Within(x, r.from)
                                               /\ r.to \in Path => ~Within(x, r.to),
         \A x \in Path : at'[x] # None => at'[x] \notin used \/ \E y \in Path : at'[x] = at[y]
  PROVE  Free(r)' /\ Carried(r)' /\ Seen(r)'
<1>1. \A l \in Link : Trusted(l)' => Trusted(l) /\ stored'[l].path = stored[l].path /\ meant'[l] = meant[l]
                                     /\ meant[l] # None /\ meant[l] \in used
  BY DEF Trusted, SInv, LinksGiven, LinkTypes
<1>2. Free(r)'
  BY <1>1 DEF Free
<1>3. ASSUME r.pc = "retarget", NEW l \in Link, Trusted(l)', Within(stored'[l].path, r.from)
      PROVE  IF r.to = << >> THEN \A x \in Path : at'[x] # meant'[l]
             ELSE /\ Moved(stored'[l].path, r.from, r.to) \in Path
                  /\ at'[Moved(stored'[l].path, r.from, r.to)] = meant'[l]
  <2>1. /\ Trusted(l) /\ stored'[l].path = stored[l].path /\ meant'[l] = meant[l] /\ meant[l] # None /\ meant[l] \in used
        /\ stored[l].path \in Path /\ r.from \in Path /\ r.to \in Path \cup {<< >>}
    BY <1>1, <1>3 DEF Told
  <2>2. CASE r.to = << >>
    <3>1. \A x \in Path : at[x] # meant[l]
      BY <1>3, <2>1, <2>2 DEF Carried
    <3> QED
      BY <2>1, <2>2, <3>1
  <2>3. CASE r.to # << >>
    <3> DEFINE y == Moved(stored[l].path, r.from, r.to)
    <3>1. y \in Path /\ at[y] = meant[l]
      BY <1>3, <2>1, <2>3 DEF Carried
    <3>2. Within(y, r.to)
      BY <1>3, <2>1, <2>3, <3>1, MovedWithin
    <3>3. at'[y] = at[y]
      BY <1>3, <2>1, <2>3, <3>1, <3>2
    <3> QED
      BY <2>1, <2>3, <3>1, <3>3
  <2> QED
    BY <2>2, <2>3
<1>4. Carried(r)'
  BY <1>3 DEF Carried
<1>5. Seen(r)'
  <2> SUFFICES ASSUME r.pc = "create" PROVE at'[r.from] = r.item
    BY DEF Seen
  <2>1. r.from \in Path /\ r.item \in used /\ at[r.from] = r.item
    BY DEF Told, Seen
  <2>2. r.item # None
    BY <2>1
  <2>3. Within(r.from, r.from)
    BY <2>1, PathsWithin
  <2> QED
    BY <2>1, <2>2, <2>3
<1> QED
  BY <1>2, <1>4, <1>5

LEMMA NoneIsNoItem == Tree => None \notin used
BY SharesAssumption DEF Tree

LEMMA TreeStays == Tree /\ UNCHANGED <<at, used>> => Tree'
BY DEF Tree

LEMMA IdleIsRight == ASSUME NEW r, r.pc = "idle" PROVE Told(r) /\ Free(r) /\ Carried(r) /\ Seen(r)
BY DEF Told, Free, Carried, Seen

\* What is to be shown of a step for the links to be kept after it.
LEMMA KeptNow ==
  ASSUME NEW f, sharing' = f,
         \A g, k \in Handler : g # k => Apart(f[g], f[k]),
         \A g \in Handler : Free(f[g])' /\ Carried(f[g])' /\ Seen(f[g])',
         \A l \in Link : Trusted(l)' => stored'[l].path \in Path,
         \A l \in Link : Trusted(l)' /\ (\A g \in Handler : f[g].pc = "retarget" => ~Within(stored'[l].path, f[g].from))
                           => at'[stored'[l].path] = meant'[l],
         \A l \in Link : meant'[l] # None /\ stored'[l] = None
                           => l \in revoked' \cup missed' \/ \A p \in Path : at'[p] # meant'[l]
  PROVE  Kept'
<1>1. (\A g, h \in Handler : g # h => Apart(sharing[g], sharing[h]))'
  BY DEF Apart
<1>2. (\A h \in Handler : Free(sharing[h]) /\ Carried(sharing[h]) /\ Seen(sharing[h]))'
  BY DEF Free, Carried, Seen
<1>3. (\A l \in Link : Trusted(l) /\ ~InFlight(l) => On(stored[l].path) = meant[l])'
  BY DEF InFlight, On
<1>4. (\A l \in Link : Trusted(l) => stored[l].path \in Path)'
  OBVIOUS
<1>5. (\A l \in Link : meant[l] # None /\ stored[l] = None
                         => l \in revoked \cup missed \/ \A p \in Path : at[p] # meant[l])'
  OBVIOUS
<1> QED
  BY <1>1, <1>2, <1>3, <1>4, <1>5 DEF Kept

LEMMA TypesNow ==
  ASSUME NEW f, sharing' = f, \A g \in Handler : Told(f[g])',
         stored' \in [Link -> StoredLink \cup {None}], linksMet' \in BOOLEAN,
         \A l \in Link : meant'[l] # None => meant'[l] \in used'
  PROVE  LinkTypes'
<1>1. (\A h \in Handler : Told(sharing[h]))'
  BY DEF Told
<1> QED
  BY <1>1 DEF LinkTypes, StoredLink

\* A step that is about one request, and changes neither links nor what is somewhere.
LEMMA RequestStep ==
  ASSUME SInv, HInv, NEW h \in Handler, NEW r, sharing' = [sharing EXCEPT ![h] = r], sharing[h].pc # "retarget",
         UNCHANGED <<at, used, stored, meant, revoked, missed>>,
         Told(r), linksMet' \in BOOLEAN, linksMet => linksMet',
         ~linksMet' => /\ r.pc = "idle" \/ ~Meets(h, r.from, r.to)
                       /\ Kept => Free(r) /\ Carried(r) /\ Seen(r)
  PROVE  HInv'
<1>1. DOMAIN sharing = Handler /\ Tree /\ LinkTypes
  BY DEF SInv, LinksGiven, HInv
<1>2. PICK f : f = sharing'
  OBVIOUS
<1>3. \A g \in Handler : f[g] = IF g = h THEN r ELSE sharing[g]
  BY <1>1, <1>2
<1>4. \A g \in Handler : Told(f[g])'
  BY <1>1, <1>3 DEF LinkTypes, Told
<1>5. LinkTypes'
  BY <1>1, <1>2, <1>4, TypesNow DEF LinkTypes
<1>6. ASSUME ~linksMet' PROVE Kept'
  <2>1. Kept /\ Free(r) /\ Carried(r) /\ Seen(r)
    BY <1>6 DEF HInv
  <2>2. \A g \in Handler : Free(f[g]) /\ Carried(f[g]) /\ Seen(f[g])
    BY <1>3, <2>1 DEF Kept
  <2>3. \A l \in Link : Trusted(l)' <=> Trusted(l)
    BY DEF Trusted
  <2>4. \A g \in Handler : Free(f[g])' /\ Carried(f[g])' /\ Seen(f[g])'
    BY <2>2, <2>3 DEF Free, Carried, Seen
  <2>5. \A g, k \in Handler : g # k => Apart(f[g], f[k])
    BY <1>2, <1>6, <2>1, ApartStep DEF Kept
  <2>6. ASSUME NEW l \in Link, Trusted(l)', \A g \in Handler : f[g].pc = "retarget" => ~Within(stored'[l].path, f[g].from)
        PROVE  at'[stored'[l].path] = meant'[l]
    <3>1. ~InFlight(l)
      BY <1>3, <2>6 DEF InFlight
    <3> QED
      BY <1>1, <2>1, <2>3, <2>6, <3>1, LeadsThere
  <2>7. \A l \in Link : Trusted(l)' => stored'[l].path \in Path
    BY <2>1, <2>3 DEF Kept
  <2>8. \A l \in Link : meant'[l] # None /\ stored'[l] = None
                          => l \in revoked' \cup missed' \/ \A p \in Path : at'[p] # meant'[l]
    BY <2>1 DEF Kept
  <2> QED
    BY <1>2, <2>4, <2>5, <2>6, <2>7, <2>8, KeptNow
<1> QED
  BY <1>1, <1>5, <1>6, TreeStays DEF HInv

LEMMA CreateShareKeeps == ASSUME SInv, HInv, NEW h \in Handler, NEW p \in Path, CreateShare(h, p) PROVE HInv'
<1> DEFINE r == Doing("create", p, << >>, at[p])
<1>1. /\ sharing[h].pc = "idle" /\ at[p] # None /\ sharing' = [sharing EXCEPT ![h] = r]
      /\ linksMet' = (linksMet \/ Meets(h, p, << >>))
      /\ UNCHANGED <<at, used, stored, meant, revoked, missed>>
  BY DEF CreateShare, Accept, Race
<1>2. r.pc = "create" /\ r.from = p /\ r.to = << >> /\ r.item = at[p]
  BY DEF Doing
<1> HIDE DEF r
<1>3. Told(r) /\ Free(r) /\ Carried(r) /\ Seen(r)
  BY <1>1, <1>2 DEF Told, Free, Carried, Seen, HInv, Tree
<1>4. linksMet' \in BOOLEAN
  BY <1>1, Zenon
<1> QED
  BY <1>1, <1>2, <1>3, <1>4, RequestStep

LEMMA MoveBeginKeeps ==
  ASSUME SInv, HInv, NEW h \in Handler, NEW p \in Path, NEW q \in Path, MoveBegin(h, p, q) PROVE HInv'
<1> DEFINE r == Doing("move", p, q, None)
<1>1. /\ sharing[h].pc = "idle" /\ p # q /\ On(q) = None /\ sharing' = [sharing EXCEPT ![h] = r]
      /\ linksMet' = (linksMet \/ Meets(h, p, q))
      /\ UNCHANGED <<at, used, stored, meant, revoked, missed>>
  BY DEF MoveBegin, Accept, Race
<1>2. r.pc = "move" /\ r.from = p /\ r.to = q
  BY DEF Doing
<1> HIDE DEF r
<1>3. Told(r) /\ Carried(r) /\ Seen(r)
  BY <1>1, <1>2 DEF Told, Carried, Seen
<1>4. linksMet' \in BOOLEAN
  BY <1>1, Zenon
<1>5. ASSUME ~linksMet', Kept PROVE Free(r)
  <2> SUFFICES ASSUME NEW l \in Link, Trusted(l), Within(stored[l].path, q) PROVE FALSE
    BY <1>2 DEF Free
  <2>1. stored[l].path \in Path /\ Tree /\ LinkTypes
    BY <1>5 DEF Kept, HInv
  <2>2. CASE InFlight(l)
    <3>1. PICK g \in Handler : sharing[g].pc = "retarget" /\ Within(stored[l].path, sharing[g].from)
      BY <2>2 DEF InFlight
    <3>2. sharing[g].from \in Path /\ g # h
      BY <1>1, <2>1, <3>1 DEF LinkTypes, Told
    <3>3. Near(sharing[g].from, q)
      BY <2>1, <3>1, <3>2, PathsMeet
    <3>4. Meets(h, p, q)
      BY <3>1, <3>2, <3>3 DEF Meets
    <3> QED
      BY <1>1, <1>5, <3>4
  <2>3. CASE ~InFlight(l)
    <3>1. at[stored[l].path] # None
      BY <1>5, <2>1, <2>3, LeadsThere
    <3>2. at[q] = None
      BY <1>1 DEF On
    <3> QED
      BY <2>1, <3>1, <3>2, InsideAFolder, SharesAssumption
  <2> QED
    BY <2>2, <2>3
<1> QED
  BY <1>1, <1>2, <1>3, <1>4, <1>5, RequestStep

\* A step that takes what is on a path somewhere else, or away: the request retargets the links next.
LEMMA CarryStep ==
  ASSUME SInv, HInv, Tree', NEW h \in Handler, NEW r, sharing' = [sharing EXCEPT ![h] = r],
         r.pc = "retarget", sharing[h].pc # "retarget", r.from \in Path, r.to \in Path \cup {<< >>},
         UNCHANGED <<used, stored, meant, revoked, missed>>, linksMet' \in BOOLEAN, linksMet => linksMet',
         \A x \in Path : ~Within(x, r.from) /\ (r.to \in Path => ~Within(x, r.to)) => at'[x] = at[x],
         \A x \in Path : at'[x] # None => \E y \in Path : at'[x] = at[y],
         \A x \in Path : Within(x, r.from) /\ at[x] # None =>
           IF r.to = << >> THEN \A y \in Path : at'[y] # at[x]
           ELSE Moved(x, r.from, r.to) \in Path /\ at'[Moved(x, r.from, r.to)] = at[x],
         ~linksMet' => \/ sharing[h].pc # "idle" /\ r.from = sharing[h].from /\ r.to = sharing[h].to
                       \/ ~Meets(h, r.from, r.to),
         ~linksMet' /\ Kept /\ r.to \in Path => \A l \in Link : Trusted(l) => ~Within(stored[l].path, r.to)
  PROVE  HInv'
<1>1. DOMAIN sharing = Handler /\ Tree /\ LinkTypes
  BY DEF SInv, LinksGiven, HInv
<1>2. PICK f : f = sharing'
  OBVIOUS
<1>3. \A g \in Handler : f[g] = IF g = h THEN r ELSE sharing[g]
  BY <1>1, <1>2
<1>4. \A g \in Handler : Told(f[g])'
  BY <1>1, <1>3 DEF LinkTypes, Told
<1>5. LinkTypes'
  BY <1>1, <1>2, <1>4, TypesNow DEF LinkTypes
<1>6. ASSUME ~linksMet' PROVE Kept'
  <2>1. Kept
    BY <1>6 DEF HInv
  <2>2. \A l \in Link : Trusted(l)' <=> Trusted(l)
    BY DEF Trusted
  <2>3. \A g, k \in Handler : g # k => Apart(f[g], f[k])
    BY <1>2, <1>6, <2>1, ApartStep DEF Kept
  <2>4. \A l \in Link : Trusted(l) => stored[l].path \in Path /\ meant[l] # None /\ meant[l] \in used
    BY <1>1, <2>1 DEF Kept, Trusted, SInv, LinksGiven, LinkTypes
  <2>5. ASSUME NEW g \in Handler \ {h} PROVE Free(f[g])' /\ Carried(f[g])' /\ Seen(f[g])'
    <3>1. PICK t : t = sharing[g]
      OBVIOUS
    <3>2. f[g] = t /\ Told(t) /\ Free(t) /\ Carried(t) /\ Seen(t)
      BY <1>1, <1>3, <2>1, <3>1 DEF Kept, LinkTypes
    <3>3. ASSUME t.pc # "idle", NEW x \in Path, at'[x] # at[x]
          PROVE  /\ t.from \in Path => ~Within(x, t.from)
                 /\ t.to \in Path => ~Within(x, t.to)
      <4>1. Apart(t, r)
        BY <1>3, <2>3, <3>2
      <4>2. Within(x, r.from) \/ (r.to \in Path /\ Within(x, r.to))
        BY <3>3
      <4> QED
        BY <3>3, <4>1, <4>2, ApartPaths
    <3>4. \A l \in Link : Trusted(l) => stored[l].path \in Path
      BY <2>4
    <3>5. None \notin used
      BY <1>1, NoneIsNoItem
    <3>6. Free(t)' /\ Carried(t)' /\ Seen(t)'
      BY <1>1, <3>2, <3>3, <3>4, <3>5, OthersRely
    <3> QED
      BY <3>2, <3>6
  <2>6. ASSUME NEW l \in Link, Trusted(l), Within(stored[l].path, r.from) PROVE at[stored[l].path] = meant[l]
    <3>1. ~InFlight(l)
      <4> SUFFICES ASSUME NEW g \in Handler, sharing[g].pc = "retarget", Within(stored[l].path, sharing[g].from)
                   PROVE  FALSE
        BY DEF InFlight
      <4>1. g # h /\ sharing[g].from \in Path /\ f[g] = sharing[g]
        BY <1>1, <1>3 DEF LinkTypes, Told
      <4>2. Apart(r, sharing[g])
        BY <1>3, <2>3, <4>1
      <4> QED
        BY <2>4, <2>6, <4>1, <4>2, ApartPaths
    <3> QED
      BY <1>1, <2>1, <2>6, <3>1, LeadsThere
  <2>7. Free(r)' /\ Carried(r)' /\ Seen(r)'
    <3>1. Free(r)' /\ Seen(r)'
      BY DEF Free, Seen
    <3>2. ASSUME NEW l \in Link, Trusted(l)', Within(stored'[l].path, r.from)
          PROVE  IF r.to = << >> THEN \A x \in Path : at'[x] # meant'[l]
                 ELSE Moved(stored'[l].path, r.from, r.to) \in Path /\ at'[Moved(stored'[l].path, r.from, r.to)] = meant'[l]
      <4>1. Trusted(l) /\ stored[l].path \in Path /\ at[stored[l].path] = meant[l] /\ meant[l] # None
        BY <2>2, <2>4, <2>6, <3>2
      <4> QED
        BY <3>2, <4>1
    <3>3. Carried(r)'
      BY <3>2 DEF Carried
    <3> QED
      BY <3>1, <3>3
  <2>8. \A g \in Handler : Free(f[g])' /\ Carried(f[g])' /\ Seen(f[g])'
    <3>1. f[h] = r
      BY <1>3
    <3> QED
      BY <2>5, <2>7, <3>1
  <2>9. ASSUME NEW l \in Link, Trusted(l)', \A g \in Handler : f[g].pc = "retarget" => ~Within(stored'[l].path, f[g].from)
        PROVE  at'[stored'[l].path] = meant'[l]
    <3>1. ~InFlight(l) /\ ~Within(stored[l].path, r.from)
      BY <1>3, <2>9 DEF InFlight
    <3>2. Trusted(l) /\ stored[l].path \in Path /\ at[stored[l].path] = meant[l]
      BY <1>1, <2>1, <2>2, <2>9, <3>1, LeadsThere
    <3>3. r.to \in Path => ~Within(stored[l].path, r.to)
      BY <1>6, <2>1, <3>2
    <3>4. at'[stored[l].path] = at[stored[l].path]
      BY <3>1, <3>2, <3>3
    <3> QED
      BY <3>2, <3>4
  <2>10. \A l \in Link : Trusted(l)' => stored'[l].path \in Path
    BY <2>2, <2>4
  <2>11. \A l \in Link : meant'[l] # None /\ stored'[l] = None
                           => l \in revoked' \cup missed' \/ \A p \in Path : at'[p] # meant'[l]
    BY <2>1 DEF Kept
  <2> QED
    BY <1>2, <2>3, <2>8, <2>9, <2>10, <2>11, KeptNow
<1> QED
  BY <1>5, <1>6 DEF HInv

LEMMA MoveRenameKeeps == ASSUME SInv, HInv, NEW h \in Handler, MoveRename(h) PROVE HInv'
<1> DEFINE s == sharing[h]
<1>1. /\ s.pc = "move" /\ s.from \in Path /\ s.to \in Path /\ Tree /\ LinkTypes /\ DOMAIN sharing = Handler
      /\ UNCHANGED <<used, stored, meant, revoked, missed, linksMet>>
      /\ linksMet \in BOOLEAN /\ DOMAIN s = {"pc", "from", "to", "item"}
  BY DEF MoveRename, HInv, LinkTypes, Told, SInv, LinksGiven, Sound
<1>2. CASE ~CanRename(s.from, s.to)
  <2>1. sharing' = [sharing EXCEPT ![h] = NoRequest] /\ UNCHANGED at
    BY <1>2 DEF MoveRename, Reply
  <2>2. NoRequest.pc = "idle"
    BY DEF NoRequest
  <2> QED
    BY <1>1, <2>1, <2>2, IdleIsRight, RequestStep
<1>3. CASE CanRename(s.from, s.to)
  <2> DEFINE r == [s EXCEPT !.pc = "retarget"]
  <2>1. at' = Renamed(s.from, s.to) /\ sharing' = [sharing EXCEPT ![h] = r]
    BY <1>3 DEF MoveRename
  <2>2. r.pc = "retarget" /\ r.from = s.from /\ r.to = s.to
    BY <1>1
  <2> HIDE DEF r
  <2>3. /\ \A x \in Path : ~Within(x, s.from) /\ ~Within(x, s.to) => at'[x] = at[x]
        /\ \A x \in Path : Within(x, s.from) => at'[x] = None
        /\ \A x \in Path : Within(x, s.from) /\ at[x] # None =>
             Moved(x, s.from, s.to) \in Path /\ at'[Moved(x, s.from, s.to)] = at[x]
        /\ \A x \in Path : Within(x, s.to) /\ at'[x] # None => \E y \in Path : at'[x] = at[y]
    BY <1>1, <1>3, <2>1, WhatARenameDoes
  <2>4. \A x \in Path : at'[x] # None => \E y \in Path : at'[x] = at[y]
    BY <2>3
  <2>5. Tree'
    BY <1>1, <1>3, <2>1, RenamedTree
  <2>6. s.to # << >>
    BY <1>1, Paths
  <2>7. Kept => \A l \in Link : Trusted(l) => ~Within(stored[l].path, s.to)
    BY <1>1 DEF Kept, Free
  <2>8. /\ \A x \in Path : ~Within(x, r.from) /\ (r.to \in Path => ~Within(x, r.to)) => at'[x] = at[x]
        /\ \A x \in Path : Within(x, r.from) /\ at[x] # None =>
             IF r.to = << >> THEN \A y \in Path : at'[y] # at[x]
             ELSE Moved(x, r.from, r.to) \in Path /\ at'[Moved(x, r.from, r.to)] = at[x]
        /\ Kept /\ r.to \in Path => \A l \in Link : Trusted(l) => ~Within(stored[l].path, r.to)
    BY <1>1, <2>2, <2>3, <2>6, <2>7
  <2>9. /\ r.pc = "retarget" /\ sharing[h].pc # "retarget" /\ r.from \in Path /\ r.to \in Path \cup {<< >>}
        /\ sharing[h].pc # "idle" /\ r.from = sharing[h].from /\ r.to = sharing[h].to
        /\ linksMet' \in BOOLEAN /\ (linksMet => linksMet')
    BY <1>1, <2>2
  <2> HIDE DEF s
  <2> QED
    BY <1>1, <2>1, <2>4, <2>5, <2>8, <2>9, CarryStep
<1> QED
  BY <1>2, <1>3

LEMMA DeleteTargetKeeps == ASSUME SInv, HInv, NEW h \in Handler, NEW p \in Path, DeleteTarget(h, p) PROVE HInv'
<1>1. /\ sharing[h].pc = "idle" /\ at[p] # None /\ at' = Emptied(p) /\ linksMet' = (linksMet \/ Meets(h, p, << >>))
      /\ UNCHANGED <<used, stored, meant, revoked>> /\ Tree /\ LinkTypes /\ DOMAIN sharing = Handler
  BY DEF DeleteTarget, Accept, Race, HInv, SInv, LinksGiven
<1>2. linksMet' \in BOOLEAN
  BY <1>1, Zenon
<1>3. Tree'
  BY <1>1, EmptiedTree
<1>4. \A x \in Path : at'[x] = IF Within(x, p) THEN None ELSE at[x]
  BY <1>1 DEF Emptied
<1>5. \A x \in Path : at'[x] # None => \E y \in Path : at'[x] = at[y]
  BY <1>4
<1>6. CASE sharing' = [sharing EXCEPT ![h] = Doing("retarget", p, << >>, None)] /\ UNCHANGED missed
  <2> DEFINE r == Doing("retarget", p, << >>, None)
  <2>1. r.pc = "retarget" /\ r.from = p /\ r.to = << >>
    BY DEF Doing
  <2> HIDE DEF r
  <2>2. << >> \notin Path
    BY Paths
  <2>3. \A x \in Path : Within(x, p) /\ at[x] # None => \A y \in Path : at'[y] # at[x]
    BY <1>1, <1>4 DEF Tree
  <2>4. sharing' = [sharing EXCEPT ![h] = r]
    BY <1>6 DEF r
  <2> QED
    BY <1>1, <1>2, <1>3, <1>4, <1>5, <1>6, <2>1, <2>2, <2>3, <2>4, CarryStep
<1>7. CASE missed' = missed \cup Under(p) /\ UNCHANGED sharing
  <2>1. PICK f : f = sharing'
    OBVIOUS
  <2>2. \A g \in Handler : f[g] = sharing[g]
    BY <1>7, <2>1
  <2>3. \A g \in Handler : Told(f[g])'
    BY <1>1, <2>2 DEF LinkTypes, Told
  <2>4. LinkTypes'
    BY <1>1, <1>2, <2>1, <2>3, TypesNow DEF LinkTypes
  <2>5. ASSUME ~linksMet' PROVE Kept'
    <3>1. Kept /\ ~Meets(h, p, << >>)
      BY <1>1, <2>5 DEF HInv
    <3>2. \A l \in Link : Trusted(l)' => Trusted(l) /\ ~Within(stored[l].path, p)
      BY <1>1, <1>7 DEF Trusted, Under
    <3>3. ASSUME NEW g \in Handler PROVE Free(f[g])' /\ Carried(f[g])' /\ Seen(f[g])'
      <4>1. PICK t : t = sharing[g]
        OBVIOUS
      <4>2. f[g] = t /\ Told(t) /\ Free(t) /\ Carried(t) /\ Seen(t)
        BY <1>1, <2>2, <3>1, <4>1 DEF Kept, LinkTypes
      <4>3. ASSUME t.pc # "idle", NEW x \in Path, at'[x] # at[x]
            PROVE  /\ t.from \in Path => ~Within(x, t.from)
                   /\ t.to \in Path => ~Within(x, t.to)
        <5>1. Within(x, p) /\ g # h
          BY <1>1, <1>4, <4>1, <4>3
        <5>2. \A y \in {t.from, t.to} : ~Near(y, p)
          BY <3>1, <4>1, <4>3, <5>1 DEF Meets
        <5> QED
          BY <5>1, <5>2, PathsMeet
      <4>4. \A l \in Link : Trusted(l) => stored[l].path \in Path
        BY <3>1 DEF Kept
      <4>5. None \notin used /\ missed \subseteq missed'
        BY <1>1, <1>7, NoneIsNoItem
      <4>6. Free(t)' /\ Carried(t)' /\ Seen(t)'
        BY <1>1, <1>5, <4>2, <4>3, <4>4, <4>5, OthersRely
      <4> QED
        BY <4>2, <4>6
    <3>4. \A g, k \in Handler : g # k => Apart(f[g], f[k])
      BY <2>2, <3>1 DEF Kept
    <3>5. ASSUME NEW l \in Link, Trusted(l)', \A g \in Handler : f[g].pc = "retarget" => ~Within(stored'[l].path, f[g].from)
          PROVE  at'[stored'[l].path] = meant'[l]
      <4>1. ~InFlight(l)
        BY <1>1, <2>2, <3>5 DEF InFlight
      <4>2. Trusted(l) /\ ~Within(stored[l].path, p) /\ stored[l].path \in Path /\ at[stored[l].path] = meant[l]
        BY <1>1, <3>1, <3>2, <3>5, <4>1, LeadsThere
      <4> QED
        BY <1>1, <1>4, <4>2
    <3>6. \A l \in Link : Trusted(l)' => stored'[l].path \in Path
      BY <1>1, <3>1, <3>2 DEF Kept
    <3>7. \A l \in Link : meant'[l] # None /\ stored'[l] = None
                            => l \in revoked' \cup missed' \/ \A x \in Path : at'[x] # meant'[l]
      BY <1>1, <1>5, <1>7, <3>1 DEF Kept
    <3> QED
      BY <2>1, <3>3, <3>4, <3>5, <3>6, <3>7, KeptNow
  <2> QED
    BY <1>3, <2>4, <2>5 DEF HInv
<1> QED
  BY <1>6, <1>7 DEF DeleteTarget

LEMMA AddKeeps ==
  ASSUME SInv, HInv, NEW p \in Path, NEW kind \in {Folders, Files}, Add(p, kind) PROVE HInv'
<1>1. /\ Tree /\ Tree' /\ LinkTypes /\ at[p] = None /\ (\A r \in Path \ {p} : at'[r] = at[r])
      /\ at'[p] \notin used /\ at'[p] # None /\ used \subseteq used'
      /\ UNCHANGED <<stored, sharing, meant, revoked, missed, linksMet>>
  BY AddStep DEF HInv, Add
<1>2. PICK f : f = sharing'
  OBVIOUS
<1>3. \A g \in Handler : f[g] = sharing[g]
  BY <1>1, <1>2
<1>4. \A g \in Handler : Told(f[g])'
  BY <1>1, <1>3 DEF LinkTypes, Told
<1>5. LinkTypes'
  <2>1. \A l \in Link : meant'[l] # None => meant'[l] \in used'
    BY <1>1 DEF LinkTypes
  <2> QED
    BY <1>1, <1>2, <1>4, <2>1, TypesNow DEF LinkTypes
<1>6. ASSUME ~linksMet' PROVE Kept'
  <2>1. Kept
    BY <1>1, <1>6 DEF HInv
  <2>2. \A l \in Link : Trusted(l)' <=> Trusted(l)
    BY <1>1 DEF Trusted
  <2>3. ASSUME NEW g \in Handler PROVE Free(f[g])' /\ Carried(f[g])' /\ Seen(f[g])'
    <3>1. PICK t : t = sharing[g]
      OBVIOUS
    <3>2. f[g] = t /\ Told(t) /\ Free(t) /\ Carried(t) /\ Seen(t)
      BY <1>1, <1>3, <2>1, <3>1 DEF Kept, LinkTypes
    <3>3. \A x \in Path : at[x] # None => at'[x] = at[x]
      BY <1>1
    <3>4. \A x \in Path : at'[x] # None => at'[x] \notin used \/ \E y \in Path : at'[x] = at[y]
      BY <1>1
    <3>5. \A l \in Link : Trusted(l) => stored[l].path \in Path
      BY <2>1 DEF Kept
    <3>6. None \notin used
      BY <1>1, NoneIsNoItem
    <3>7. Free(t)' /\ Carried(t)' /\ Seen(t)'
      BY <1>1, <3>2, <3>3, <3>4, <3>5, <3>6, OthersRely
    <3> QED
      BY <3>2, <3>7
  <2>4. \A g, k \in Handler : g # k => Apart(f[g], f[k])
    BY <1>3, <2>1 DEF Kept
  <2>5. ASSUME NEW l \in Link, Trusted(l)', \A g \in Handler : f[g].pc = "retarget" => ~Within(stored'[l].path, f[g].from)
        PROVE  at'[stored'[l].path] = meant'[l]
    <3>1. ~InFlight(l)
      BY <1>1, <1>3, <2>5 DEF InFlight
    <3>2. stored[l].path \in Path /\ at[stored[l].path] = meant[l] /\ meant[l] # None
      BY <1>1, <2>1, <2>2, <2>5, <3>1, LeadsThere
    <3> QED
      BY <1>1, <3>2
  <2>6. \A l \in Link : Trusted(l)' => stored'[l].path \in Path
    BY <1>1, <2>1, <2>2 DEF Kept
  <2>7. ASSUME NEW l \in Link, meant'[l] # None, stored'[l] = None, l \notin revoked' \cup missed', NEW x \in Path
        PROVE  at'[x] # meant'[l]
    <3>1. at[x] # meant[l] /\ meant[l] \in used
      BY <1>1, <2>1, <2>7 DEF Kept, LinkTypes
    <3> QED
      BY <1>1, <3>1
  <2> QED
    BY <1>2, <2>3, <2>4, <2>5, <2>6, <2>7, KeptNow
<1> QED
  BY <1>1, <1>5, <1>6 DEF HInv

\* A write of the list, or none, that moves no link and takes away only what is revoked.
LEMMA ListStep ==
  ASSUME SInv, HInv, UNCHANGED <<at, used, sharing, meant, missed, linksMet>>, revoked \subseteq revoked',
         stored' \in [Link -> StoredLink \cup {None}],
         \A l \in Link : stored'[l] # None => stored[l] # None /\ stored'[l].path = stored[l].path,
         \A l \in Link : stored'[l] = None => stored[l] = None \/ l \in revoked'
  PROVE  HInv'
<1>1. Tree /\ LinkTypes
  BY DEF HInv
<1>2. PICK f : f = sharing'
  OBVIOUS
<1>3. \A g \in Handler : f[g] = sharing[g]
  BY <1>2
<1>4. \A g \in Handler : Told(f[g])'
  BY <1>1, <1>3 DEF LinkTypes, Told
<1>5. LinkTypes'
  BY <1>1, <1>2, <1>4, TypesNow DEF LinkTypes
<1>6. ASSUME ~linksMet' PROVE Kept'
  <2>1. Kept
    BY <1>6 DEF HInv
  <2>2. \A l \in Link : Trusted(l)' => Trusted(l) /\ stored'[l].path = stored[l].path
    BY DEF Trusted
  <2>3. \A g \in Handler : Free(f[g]) /\ Carried(f[g]) /\ Seen(f[g])
    BY <1>3, <2>1 DEF Kept
  <2>4. \A g \in Handler : Free(f[g])' /\ Carried(f[g])' /\ Seen(f[g])'
    BY <2>2, <2>3 DEF Free, Carried, Seen
  <2>5. \A g, k \in Handler : g # k => Apart(f[g], f[k])
    BY <1>3, <2>1 DEF Kept
  <2>6. ASSUME NEW l \in Link, Trusted(l)', \A g \in Handler : f[g].pc = "retarget" => ~Within(stored'[l].path, f[g].from)
        PROVE  at'[stored'[l].path] = meant'[l]
    <3>1. ~InFlight(l)
      BY <1>3, <2>2, <2>6 DEF InFlight
    <3> QED
      BY <1>1, <2>1, <2>2, <2>6, <3>1, LeadsThere
  <2>7. \A l \in Link : Trusted(l)' => stored'[l].path \in Path
    BY <2>1, <2>2 DEF Kept
  <2>8. \A l \in Link : meant'[l] # None /\ stored'[l] = None
                          => l \in revoked' \cup missed' \/ \A x \in Path : at'[x] # meant'[l]
    BY <2>1 DEF Kept
  <2> QED
    BY <1>2, <2>4, <2>5, <2>6, <2>7, <2>8, KeptNow
<1> QED
  BY <1>1, <1>5, <1>6, TreeStays DEF HInv

LEMMA RelabelKeeps == ASSUME SInv, HInv, NEW l \in Link, Relabel(l) PROVE HInv'
<1>1. /\ stored \in [Link -> StoredLink \cup {None}] /\ Loaded = stored /\ stored[l] # None
      /\ UNCHANGED <<at, used, sharing, meant, revoked, missed, linksMet>>
  BY LoadedIsStored DEF Relabel, HInv, LinkTypes, SInv
<1>2. CASE WriteFails
  BY <1>1, <1>2, ListStep DEF WriteFails
<1>3. CASE WriteShares([Loaded EXCEPT ![l].label = ~@])
  <2> DEFINE y == [stored[l] EXCEPT !.label = ~@]
  <2>1. stored' = [stored EXCEPT ![l] = y]
    BY <1>1, <1>3 DEF WriteShares
  <2>2. stored[l] \in StoredLink
    BY <1>1
  <2>3. y \in StoredLink /\ y.path = stored[l].path
    BY <2>2 DEF StoredLink
  <2> HIDE DEF y
  <2>4. \A k \in Link : stored'[k] = IF k = l THEN y ELSE stored[k]
    BY <1>1, <2>1
  <2>5. stored' \in [Link -> StoredLink \cup {None}]
    BY <1>1, <2>1, <2>3
  <2>6. y # None
    BY <2>3, SharesAssumption DEF StoredLink
  <2> QED
    BY <1>1, <2>3, <2>4, <2>5, <2>6, ListStep
<1> QED
  BY <1>2, <1>3 DEF Relabel

LEMMA RevokeKeeps == ASSUME SInv, HInv, NEW l \in Link, Revoke(l) PROVE HInv'
<1>1. /\ stored \in [Link -> StoredLink \cup {None}] /\ Loaded = stored
      /\ UNCHANGED <<at, used, sharing, meant, missed, linksMet>>
  BY LoadedIsStored DEF Revoke, HInv, LinkTypes, SInv
<1>2. CASE WriteFails /\ UNCHANGED revoked
  BY <1>1, <1>2, ListStep DEF WriteFails
<1>3. CASE WriteShares([Loaded EXCEPT ![l] = None]) /\ revoked' = revoked \cup {l}
  <2>1. stored' = [stored EXCEPT ![l] = None]
    BY <1>1, <1>3 DEF WriteShares
  <2>2. \A k \in Link : stored'[k] = IF k = l THEN None ELSE stored[k]
    BY <1>1, <2>1
  <2>3. stored' \in [Link -> StoredLink \cup {None}]
    BY <1>1, <2>1
  <2> QED
    BY <1>1, <1>3, <2>2, <2>3, ListStep
<1> QED
  BY <1>2, <1>3 DEF Revoke

LEMMA AddShareKeeps == ASSUME SInv, HInv, NEW h \in Handler, AddShare(h) PROVE HInv'
<1> DEFINE s == sharing[h]
           new == Fresh(Link, {k \in Link : meant[k] # None})
           y == [path |-> s.from, label |-> FALSE]
<1>1. /\ Tree /\ LinkTypes /\ DOMAIN sharing = Handler /\ DOMAIN meant = Link /\ Loaded = stored
      /\ s.pc = "create" /\ s.from \in Path /\ s.to = << >> /\ s.item \in used
      /\ sharing' = [sharing EXCEPT ![h] = NoRequest]
      /\ UNCHANGED <<at, used, revoked, missed, linksMet>> /\ linksMet \in BOOLEAN
  BY LoadedIsStored DEF AddShare, Reply, HInv, LinkTypes, Told, SInv, LinksGiven
<1>2. NoRequest.pc = "idle"
  BY DEF NoRequest
<1>3. CASE WriteFails /\ UNCHANGED meant
  BY <1>1, <1>2, <1>3, IdleIsRight, RequestStep DEF WriteFails
<1>4. CASE WriteShares([Loaded EXCEPT ![new] = y]) /\ meant' = [meant EXCEPT ![new] = s.item]
  <2>1. new \in Link /\ meant[new] = None
    BY DEF AddShare, Fresh
  <2>2. stored[new] = None
    BY <2>1 DEF SInv, LinksGiven
  <2>3. stored' = [stored EXCEPT ![new] = y]
    BY <1>1, <1>4 DEF WriteShares
  <2>4. y \in StoredLink /\ y.path = s.from
    BY <1>1, Paths DEF StoredLink
  <2>5. y # None
    BY <2>4, SharesAssumption DEF StoredLink
  <2> HIDE DEF y, new
  <2>6. PICK x : x = s.item
    OBVIOUS
  <2>7. \A k \in Link : /\ stored'[k] = IF k = new THEN y ELSE stored[k]
                        /\ meant'[k] = IF k = new THEN x ELSE meant[k]
    BY <1>1, <1>4, <2>3, <2>6 DEF LinkTypes
  <2>8. stored' \in [Link -> StoredLink \cup {None}]
    BY <1>1, <2>3, <2>4 DEF LinkTypes
  <2>9. PICK f : f = sharing'
    OBVIOUS
  <2>10. \A g \in Handler : f[g] = IF g = h THEN NoRequest ELSE sharing[g]
    BY <1>1, <2>9
  <2>11. \A g \in Handler : Told(f[g])'
    BY <1>1, <1>2, <2>10 DEF LinkTypes, Told
  <2>12. \A k \in Link : meant'[k] # None => meant'[k] \in used'
    BY <1>1, <2>6, <2>7 DEF LinkTypes
  <2>13. LinkTypes'
    BY <1>1, <2>8, <2>9, <2>11, <2>12, TypesNow
  <2>14. ASSUME ~linksMet' PROVE Kept'
    <3>1. Kept /\ at[s.from] = x
      BY <1>1, <2>6, <2>14 DEF HInv, Kept, Seen
    <3>2. \A k \in Link : Trusted(k)' /\ k # new => Trusted(k) /\ stored'[k] = stored[k] /\ meant'[k] = meant[k]
      BY <1>1, <2>7 DEF Trusted
    <3>3. ASSUME NEW g \in Handler PROVE Free(f[g])' /\ Carried(f[g])' /\ Seen(f[g])'
      <4>1. CASE g = h
        BY <1>2, <2>10, <4>1 DEF Free, Carried, Seen
      <4>2. CASE g # h
        <5>1. PICK t : t = sharing[g]
          OBVIOUS
        <5>2. f[g] = t /\ Told(t) /\ Free(t) /\ Carried(t) /\ Seen(t) /\ Apart(t, s)
          BY <1>1, <2>10, <3>1, <4>2, <5>1 DEF Kept, LinkTypes
        <5>3. \A q \in {t.from, t.to} : t.pc # "idle" /\ q \in Path => ~Within(s.from, q)
          <6>1. Within(s.from, s.from)
            BY <1>1, PathsWithin
          <6> QED
            BY <1>1, <5>2, <6>1, PathsMeet DEF Apart
        <5>4. Free(t)' /\ Carried(t)'
          <6>1. ASSUME NEW k \in Link, Trusted(k)', t.pc = "move" PROVE ~Within(stored'[k].path, t.to)
            BY <2>4, <2>7, <3>2, <5>2, <5>3, <6>1 DEF Free, Told
          <6>2. ASSUME NEW k \in Link, Trusted(k)', t.pc = "retarget", Within(stored'[k].path, t.from)
                PROVE  Trusted(k) /\ stored'[k] = stored[k] /\ meant'[k] = meant[k]
            BY <2>4, <2>7, <3>2, <5>2, <5>3, <6>2 DEF Told
          <6>3. Free(t)'
            BY <6>1 DEF Free
          <6>4. Carried(t)'
            BY <1>1, <5>2, <6>2 DEF Carried
          <6> QED
            BY <6>3, <6>4
        <5>5. Seen(t)'
          BY <1>1, <5>2 DEF Seen
        <5> QED
          BY <5>2, <5>4, <5>5
      <4> QED
        BY <4>1, <4>2
    <3>4. \A g, k \in Handler : g # k => Apart(f[g], f[k])
      BY <1>1, <1>2, <2>9, <3>1, ApartStep DEF Kept
    <3>5. ASSUME NEW k \in Link, Trusted(k)', \A g \in Handler : f[g].pc = "retarget" => ~Within(stored'[k].path, f[g].from)
          PROVE  at'[stored'[k].path] = meant'[k]
      <4>1. CASE k = new
        BY <1>1, <2>1, <2>4, <2>7, <3>1, <4>1
      <4>2. CASE k # new
        <5>1. Trusted(k) /\ stored'[k] = stored[k] /\ meant'[k] = meant[k]
          BY <3>2, <3>5, <4>2
        <5>2. ~InFlight(k)
          BY <1>1, <2>10, <3>5, <5>1 DEF InFlight
        <5> QED
          BY <1>1, <3>1, <5>1, <5>2, LeadsThere
      <4> QED
        BY <4>1, <4>2
    <3>6. \A k \in Link : Trusted(k)' => stored'[k].path \in Path
      BY <1>1, <2>4, <2>7, <3>1, <3>2 DEF Kept
    <3>7. \A k \in Link : meant'[k] # None /\ stored'[k] = None
                            => k \in revoked' \cup missed' \/ \A p \in Path : at'[p] # meant'[k]
      BY <1>1, <2>5, <2>7, <3>1 DEF Kept
    <3> QED
      BY <2>9, <3>3, <3>4, <3>5, <3>6, <3>7, KeptNow
  <2> QED
    BY <1>1, <2>13, <2>14, TreeStays DEF HInv
<1> QED
  BY <1>3, <1>4 DEF AddShare

\* A retarget that fails leaves its links behind.
LEMMA RetargetFails ==
  ASSUME SInv, HInv, NEW h \in Handler, sharing[h].pc = "retarget", sharing' = [sharing EXCEPT ![h] = NoRequest],
         UNCHANGED <<at, used, stored, meant, revoked, linksMet>>, missed' = missed \cup Under(sharing[h].from)
  PROVE  HInv'
<1>1. DOMAIN sharing = Handler /\ Tree /\ LinkTypes /\ NoRequest.pc = "idle"
  BY DEF SInv, LinksGiven, HInv, NoRequest
<1>2. PICK f : f = sharing'
  OBVIOUS
<1>3. \A g \in Handler : f[g] = IF g = h THEN NoRequest ELSE sharing[g]
  BY <1>1, <1>2
<1>4. \A g \in Handler : Told(f[g])'
  BY <1>1, <1>3 DEF LinkTypes, Told
<1>5. LinkTypes'
  BY <1>1, <1>2, <1>4, TypesNow DEF LinkTypes
<1>6. ASSUME ~linksMet' PROVE Kept'
  <2>1. Kept
    BY <1>6 DEF HInv
  <2>2. \A l \in Link : Trusted(l)' => Trusted(l) /\ ~Within(stored[l].path, sharing[h].from)
    BY DEF Trusted, Under
  <2>3. \A g \in Handler : Free(f[g]) /\ Carried(f[g]) /\ Seen(f[g])
    BY <1>1, <1>3, <2>1, IdleIsRight DEF Kept
  <2>4. \A g \in Handler : Free(f[g])' /\ Carried(f[g])' /\ Seen(f[g])'
    BY <2>2, <2>3 DEF Free, Carried, Seen
  <2>5. \A g, k \in Handler : g # k => Apart(f[g], f[k])
    BY <1>1, <1>2, <2>1, ApartStep DEF Kept
  <2>6. ASSUME NEW l \in Link, Trusted(l)', \A g \in Handler : f[g].pc = "retarget" => ~Within(stored'[l].path, f[g].from)
        PROVE  at'[stored'[l].path] = meant'[l]
    <3>1. ~InFlight(l)
      BY <1>3, <2>2, <2>6 DEF InFlight
    <3> QED
      BY <1>1, <2>1, <2>2, <2>6, <3>1, LeadsThere
  <2>7. \A l \in Link : Trusted(l)' => stored'[l].path \in Path
    BY <2>1, <2>2 DEF Kept
  <2>8. \A l \in Link : meant'[l] # None /\ stored'[l] = None
                          => l \in revoked' \cup missed' \/ \A x \in Path : at'[x] # meant'[l]
    BY <2>1 DEF Kept
  <2> QED
    BY <1>2, <2>4, <2>5, <2>6, <2>7, <2>8, KeptNow
<1> QED
  BY <1>1, <1>5, <1>6, TreeStays DEF HInv

\* A retarget that is written: each link inside the path goes along, or ends.
LEMMA RetargetWrites ==
  ASSUME SInv, HInv, NEW h \in Handler, sharing[h].pc = "retarget", sharing' = [sharing EXCEPT ![h] = NoRequest],
         UNCHANGED <<at, used, meant, revoked, missed, linksMet>>,
         stored' = Retargeted(stored, sharing[h].from, sharing[h].to)
  PROVE  HInv'
<1>1. PICK s : s = sharing[h]
  OBVIOUS
<1>2. /\ DOMAIN sharing = Handler /\ Tree /\ LinkTypes /\ NoRequest.pc = "idle"
      /\ s.pc = "retarget" /\ s.from \in Path /\ s.to \in Path \cup {<< >>}
  BY <1>1 DEF SInv, LinksGiven, HInv, NoRequest, LinkTypes, Told
<1>3. \A l \in Link : /\ stored[l] = None \/ ~Within(stored[l].path, s.from) => stored'[l] = stored[l]
                      /\ stored[l] # None /\ Within(stored[l].path, s.from) =>
                           stored'[l] = IF s.to = << >> THEN None
                                        ELSE [stored[l] EXCEPT !.path = Moved(stored[l].path, s.from, s.to)]
  BY <1>1 DEF Retargeted
<1>4. ASSUME NEW l \in Link, stored[l] # None, s.to # << >>
      PROVE  /\ [stored[l] EXCEPT !.path = Moved(stored[l].path, s.from, s.to)] \in StoredLink
             /\ [stored[l] EXCEPT !.path = Moved(stored[l].path, s.from, s.to)].path = Moved(stored[l].path, s.from, s.to)
  <2>1. stored[l] \in StoredLink
    BY <1>2, <1>4 DEF LinkTypes
  <2>2. stored[l].path \in Seq(Top \cup Child) /\ s.from \in Seq(Top \cup Child) /\ s.to \in Seq(Top \cup Child)
    BY <1>2, <1>4, <2>1, Paths DEF StoredLink
  <2>3. Moved(stored[l].path, s.from, s.to) \in Seq(Top \cup Child)
    BY <2>2, MovedIsASeq
  <2> QED
    BY <2>1, <2>3 DEF StoredLink
<1>5. stored' \in [Link -> StoredLink \cup {None}]
  <2>1. stored' = [l \in Link |-> stored'[l]]
    BY DEF Retargeted
  <2>2. ASSUME NEW l \in Link PROVE stored'[l] \in StoredLink \cup {None}
    BY <1>2, <1>3, <1>4 DEF LinkTypes
  <2> QED
    BY <2>1, <2>2
<1>6. PICK f : f = sharing'
  OBVIOUS
<1>7. \A g \in Handler : f[g] = IF g = h THEN NoRequest ELSE sharing[g]
  BY <1>2, <1>6
<1>8. \A g \in Handler : Told(f[g])'
  BY <1>2, <1>7 DEF LinkTypes, Told
<1>9. LinkTypes'
  BY <1>2, <1>5, <1>6, <1>8, TypesNow DEF LinkTypes
<1>10. ASSUME ~linksMet' PROVE Kept'
  <2>1. Kept /\ Carried(s)
    BY <1>1, <1>10 DEF HInv, Kept
  \* A link went along, to where what it was made for is, or it stayed.
  <2>2. ASSUME NEW l \in Link, Trusted(l)'
        PROVE  /\ Trusted(l)
               /\ \/ /\ s.to \in Path /\ stored'[l].path \in Path /\ Within(stored'[l].path, s.to)
                     /\ at[stored'[l].path] = meant[l]
                  \/ stored'[l] = stored[l] /\ ~Within(stored[l].path, s.from)
    <3>1. stored[l] # None /\ Trusted(l)
      BY <1>3, <2>2 DEF Trusted
    <3>2. CASE Within(stored[l].path, s.from)
      <4>1. s.to # << >> /\ s.to \in Path
        BY <1>2, <1>3, <2>2, <3>1, <3>2 DEF Trusted
      <4>2. stored'[l].path = Moved(stored[l].path, s.from, s.to)
        BY <1>3, <1>4, <3>1, <3>2, <4>1
      <4>3. Moved(stored[l].path, s.from, s.to) \in Path /\ at[Moved(stored[l].path, s.from, s.to)] = meant[l]
        BY <1>2, <2>1, <3>1, <3>2, <4>1 DEF Carried
      <4>4. stored[l].path \in Path
        BY <2>1, <3>1 DEF Kept
      <4> QED
        BY <1>2, <3>1, <3>2, <4>1, <4>2, <4>3, <4>4, MovedWithin
    <3>3. CASE ~Within(stored[l].path, s.from)
      BY <1>3, <3>1, <3>3
    <3> QED
      BY <3>2, <3>3
  <2>3. ASSUME NEW g \in Handler PROVE Free(f[g])' /\ Carried(f[g])' /\ Seen(f[g])'
    <3>1. CASE g = h
      BY <1>2, <1>7, <3>1 DEF Free, Carried, Seen
    <3>2. CASE g # h
      <4>1. PICK t : t = sharing[g]
        OBVIOUS
      <4>2. f[g] = t /\ Told(t) /\ Free(t) /\ Carried(t) /\ Seen(t) /\ Apart(t, s)
        BY <1>1, <1>2, <1>7, <2>1, <3>2, <4>1 DEF Kept, LinkTypes
      <4>3. ASSUME NEW l \in Link, Trusted(l)', NEW q \in Path, q \in {t.from, t.to}, t.pc # "idle", Within(stored'[l].path, q)
            PROVE  Trusted(l) /\ stored'[l] = stored[l]
        <5>1. CASE s.to \in Path /\ stored'[l].path \in Path /\ Within(stored'[l].path, s.to)
          BY <1>2, <4>2, <4>3, <5>1, ApartPaths
        <5> QED
          BY <2>2, <4>3, <5>1
      <4>4. Free(t)'
        BY <4>2, <4>3 DEF Free, Told
      <4>5. Carried(t)'
        <5>1. ASSUME t.pc = "retarget", NEW l \in Link, Trusted(l)', Within(stored'[l].path, t.from)
              PROVE  Trusted(l) /\ stored'[l] = stored[l]
          BY <4>2, <4>3, <5>1 DEF Told
        <5> QED
          BY <4>2, <5>1 DEF Carried
      <4>6. Seen(t)'
        BY <4>2 DEF Seen
      <4> QED
        BY <4>2, <4>4, <4>5, <4>6
    <3> QED
      BY <3>1, <3>2
  <2>4. \A g, k \in Handler : g # k => Apart(f[g], f[k])
    BY <1>2, <1>6, <2>1, ApartStep DEF Kept
  <2>5. ASSUME NEW l \in Link, Trusted(l)', \A g \in Handler : f[g].pc = "retarget" => ~Within(stored'[l].path, f[g].from)
        PROVE  at'[stored'[l].path] = meant'[l]
    <3>1. CASE at[stored'[l].path] = meant[l]
      BY <3>1
    <3>2. CASE stored'[l] = stored[l] /\ ~Within(stored[l].path, s.from)
      <4>1. ~InFlight(l)
        BY <1>1, <1>7, <2>5, <3>2 DEF InFlight
      <4> QED
        BY <1>2, <2>1, <2>2, <2>5, <3>2, <4>1, LeadsThere
    <3> QED
      BY <2>2, <2>5, <3>1, <3>2
  <2>6. \A l \in Link : Trusted(l)' => stored'[l].path \in Path
    BY <2>1, <2>2 DEF Kept
  <2>7. ASSUME NEW l \in Link, meant'[l] # None, stored'[l] = None, l \notin revoked' \cup missed', NEW x \in Path
        PROVE  at'[x] # meant'[l]
    <3>1. CASE stored[l] = None
      BY <2>1, <2>7, <3>1 DEF Kept
    <3>2. CASE stored[l] # None
      <4>1. Trusted(l) /\ Within(stored[l].path, s.from)
        BY <1>3, <2>7, <3>2 DEF Trusted
      <4>2. s.to = << >>
        BY <1>3, <1>4, <2>7, <3>2, <4>1, SharesAssumption DEF StoredLink
      <4> QED
        BY <1>2, <2>1, <4>1, <4>2 DEF Carried
    <3> QED
      BY <3>1, <3>2
  <2> QED
    BY <1>6, <2>3, <2>4, <2>5, <2>6, <2>7, KeptNow
<1> QED
  BY <1>2, <1>9, <1>10, TreeStays DEF HInv

LEMMA RetargetSharesKeeps == ASSUME SInv, HInv, NEW h \in Handler, RetargetShares(h) PROVE HInv'
<1> DEFINE list == Retargeted(Loaded, sharing[h].from, sharing[h].to)
<1>1. /\ Loaded = stored /\ sharing[h].pc = "retarget" /\ sharing' = [sharing EXCEPT ![h] = NoRequest]
      /\ UNCHANGED <<at, used, meant, revoked, linksMet>>
  BY LoadedIsStored DEF RetargetShares, Reply, SInv
<1>2. \/ list = Loaded /\ UNCHANGED <<stored, missed>>
      \/ stored' = list /\ UNCHANGED missed
      \/ UNCHANGED stored /\ missed' = missed \cup Under(sharing[h].from)
  <2> HIDE DEF Loaded
  <2> QED
    BY DEF RetargetShares, WriteShares, WriteFails
<1>3. CASE stored' = list /\ UNCHANGED missed
  BY <1>1, <1>3, RetargetWrites
<1>4. CASE UNCHANGED stored /\ missed' = missed \cup Under(sharing[h].from)
  BY <1>1, <1>4, RetargetFails
<1> QED
  BY <1>1, <1>2, <1>3, <1>4

LEMMA SharesRestartKeeps == ASSUME SInv, HInv, SharesRestart PROVE HInv'
<1>1. /\ Tree /\ LinkTypes /\ sharing' = [h \in Handler |-> NoRequest] /\ NoRequest.pc = "idle"
      /\ UNCHANGED <<at, used, stored, meant, revoked, linksMet>>
  BY DEF SharesRestart, HInv, NoRequest
<1>2. /\ missed \subseteq missed'
      /\ \A h \in Handler : sharing[h].pc = "retarget" => Under(sharing[h].from) \subseteq missed'
  BY DEF SharesRestart
<1>3. PICK f : f = sharing'
  OBVIOUS
<1>4. \A g \in Handler : f[g] = NoRequest
  BY <1>1, <1>3
<1>5. \A g \in Handler : Told(f[g])' /\ Free(f[g])' /\ Carried(f[g])' /\ Seen(f[g])'
  BY <1>1, <1>4 DEF Told, Free, Carried, Seen
<1>6. LinkTypes'
  BY <1>1, <1>3, <1>5, TypesNow DEF LinkTypes
<1>7. ASSUME ~linksMet' PROVE Kept'
  <2>1. Kept
    BY <1>1, <1>7 DEF HInv
  <2>2. \A l \in Link : Trusted(l)' => Trusted(l) /\ ~InFlight(l)
    BY <1>1, <1>2 DEF Trusted, InFlight, Under
  <2>3. \A g, k \in Handler : g # k => Apart(f[g], f[k])
    BY <1>1, <1>4 DEF Apart
  <2>4. \A l \in Link : Trusted(l)' => stored'[l].path \in Path /\ at'[stored'[l].path] = meant'[l]
    BY <1>1, <2>1, <2>2, LeadsThere
  <2>5. \A l \in Link : meant'[l] # None /\ stored'[l] = None
                          => l \in revoked' \cup missed' \/ \A x \in Path : at'[x] # meant'[l]
    BY <1>1, <1>2, <2>1 DEF Kept
  <2> QED
    BY <1>3, <1>5, <2>3, <2>4, <2>5, KeptNow
<1> QED
  BY <1>1, <1>6, <1>7, TreeStays DEF HInv

LEMMA HInvInit == SharesInit => HInv
<1> SUFFICES ASSUME SharesInit PROVE HInv
  OBVIOUS
<1>1. PICK t \in Top, c \in Child, d \in Folders, i \in Files :
        at = [p \in Path |-> IF p = <<t>> THEN d ELSE IF p = <<t, c>> THEN i ELSE None] /\ used = {d, i}
  <2>1. Fresh(Folders, {}) \in Folders /\ Fresh(Files, {}) \in Files
    BY SharesAssumption DEF Fresh
  <2> QED
    BY <2>1 DEF SharesInit
<1>2. Tree
  <2>1. <<t>> \in Path /\ <<t, c>> \in Path /\ Len(<<t>>) = 1 /\ <<t>> # <<t, c>>
    BY Paths
  <2>2. \A p \in Path : at[p] = IF p = <<t>> THEN d ELSE IF p = <<t, c>> THEN i ELSE None
    BY <1>1
  <2>3. d # i /\ i \notin Folders /\ None \notin Folders \cup Files
    BY SharesAssumption
  <2>4. ASSUME NEW a \in Top, NEW b \in Child, at[<<a, b>>] # None PROVE at[<<a>>] \in Folders
    <3>1. <<a, b>> \in Path /\ <<a>> \in Path /\ <<a, b>> # <<t>> /\ <<a, b>>[1] = a /\ <<t, c>>[1] = t
      BY Paths
    <3>2. <<a, b>> = <<t, c>>
      BY <2>2, <2>4, <3>1
    <3>3. a = t
      BY <3>1, <3>2
    <3> QED
      BY <2>1, <2>2, <3>3
  <2>5. at \in [Path -> Folders \cup Files \cup {None}] /\ used \subseteq Folders \cup Files
    BY <1>1
  <2>6. \A p \in Path : (at[p] # None => at[p] \in used) /\ (at[p] \in Folders => Len(p) = 1)
    BY <1>1, <2>1, <2>2, <2>3
  <2>7. \A p, q \in Path : at[p] = at[q] /\ at[p] # None => p = q
    BY <2>2, <2>3
  <2> QED
    BY <2>4, <2>5, <2>6, <2>7 DEF Tree
<1>3. /\ stored = [l \in Link |-> None] /\ sharing = [h \in Handler |-> NoRequest] /\ NoRequest.pc = "idle"
      /\ meant = [l \in Link |-> None] /\ linksMet = FALSE
  BY DEF SharesInit, NoRequest
<1>4. LinkTypes
  BY <1>3 DEF LinkTypes, Told
<1>5. Kept
  BY <1>3 DEF Kept, Trusted, Apart, Free, Carried, Seen
<1> QED
  BY <1>2, <1>4, <1>5 DEF HInv

LEMMA HInvStep == SInv /\ HInv /\ [SharesNext]_sharesVars => HInv'
<1> SUFFICES ASSUME SInv, HInv, [SharesNext]_sharesVars PROVE HInv'
  OBVIOUS
<1>1. ASSUME UNCHANGED <<at, used, stored, sharing, meant, revoked, missed, linksMet>> PROVE HInv'
  BY <1>1, ListStep DEF HInv, LinkTypes
<1>2. CASE UNCHANGED sharesVars
  BY <1>1, <1>2 DEF sharesVars
<1>3. CASE Lookup
  BY <1>1, <1>3 DEF Lookup
<1>4. ASSUME NEW h \in Handler,
             \/ RetargetShares(h) \/ MoveRename(h) \/ AddShare(h)
             \/ \E p \in Path : CreateShare(h, p) \/ DeleteTarget(h, p) \/ \E q \in Path : MoveBegin(h, p, q)
      PROVE  HInv'
  BY <1>4, RetargetSharesKeeps, MoveRenameKeeps, AddShareKeeps, CreateShareKeeps, DeleteTargetKeeps, MoveBeginKeeps
<1>5. ASSUME NEW l \in Link, Relabel(l) \/ Revoke(l) PROVE HInv'
  BY <1>5, RelabelKeeps, RevokeKeeps
<1>6. ASSUME NEW p \in Path, NEW kind \in {Folders, Files}, Add(p, kind) PROVE HInv'
  BY <1>6, AddKeeps
<1> QED
  BY <1>2, <1>3, <1>4, <1>5, <1>6, SharesRestartKeeps DEF SharesNext

\* A link leads to the item it was made for and ends only with it (retargetShares after each rename, move
\* and delete), short of requests that met and of retargets that failed: for any names at the root and
\* inside its folders, any items, links and goroutines, and any number of requests, faults and restarts.
THEOREM LinksHold == ServerSpec => []LinksKeepTheirTargets
<1>1. Init => SInv /\ HInv
  BY SInvInit, HInvInit DEF Init
<1>2. SInv /\ HInv /\ [Next]_serverVars => (SInv /\ HInv)'
  <2> SUFFICES ASSUME SInv, HInv, [Next]_serverVars PROVE SInv' /\ HInv'
    OBVIOUS
  <2>1. [SharesNext]_sharesVars
    BY DEF Next, serverVars
  <2> QED
    BY <2>1, SInvStep, HInvStep
<1>3. SInv /\ HInv => LinksKeepTheirTargets
  BY KeptSuffices
<1> QED
  BY <1>1, <1>2, <1>3, PTL DEF ServerSpec

----------------------------------------------------------------------------
(* The login limiter *)

\* What an address was given last is held against it, or is over; and what is held against it began
\* no later than its last wrong password, which is the one that locked it, if one did.
Given(c) ==
  \/ now >= until[c]
  \/ /\ attempts[c] # None /\ attempts[c].lockedAt # None
     /\ until[c] = attempts[c].lockedAt + LockoutDur
Held(c) ==
  attempts[c] # None =>
    /\ lastFail[c] \in Nat /\ attempts[c].first <= lastFail[c] /\ lastFail[c] <= now
    /\ attempts[c].lockedAt # None => attempts[c].lockedAt = lastFail[c] /\ attempts[c].count >= MaxFails
LInv == TypeOK /\ \A c \in Client : Given(c) /\ Held(c)

\* The invariant starts out true.
LEMMA InitLInv == LoginsInit => LInv
BY LoginsAssumption DEF LoginsInit, LInv, TypeOK, Given, Held

\* A login that is let in forgets only a record whose lock is over.
LEMMA AllowLInv ==
  ASSUME LInv, NEW h \in Handler, NEW c \in Client, Allow(h, c)
  PROVE  LInv'
<1>1. TypeOK'
  BY LoginsAssumption DEF LInv, TypeOK, Allow, Attempt
<1>2. ASSUME NEW d \in Client PROVE Given(d)' /\ Held(d)'
  <2>1. Given(d) /\ Held(d) /\ until[d] \in Nat /\ now \in Nat /\ attempts[d] \in Attempt \cup {None}
    BY DEF LInv, TypeOK
  <2>2. UNCHANGED <<now, until, lastFail>>
    BY DEF Allow
  <2>3. CASE attempts'[d] = attempts[d]
    BY <2>1, <2>2, <2>3 DEF Given, Held
  <2>4. CASE attempts'[d] # attempts[d]
    <3>1. d = c /\ attempts[c] # None /\ attempts'[d] = None /\ ~Locked(c)
      BY <2>4 DEF Allow, Refused, LInv, TypeOK
    <3>2. now >= until[d]
      BY <2>1, <3>1, LoginsAssumption DEF Given, Locked, Attempt
    <3> QED BY <2>2, <3>1, <3>2 DEF Given, Held
  <2> QED BY <2>3, <2>4
<1> QED BY <1>1, <1>2 DEF LInv

\* A failure that is counted is the last one, and the one that locks.
LEMMA RecordFailLInv ==
  ASSUME LInv, NEW h \in Handler, RecordFail(h)
  PROVE  LInv'
<1> DEFINE c == comparing[h]
           a == Counted(attempts[c])
<1>1. c \in Client /\ now \in Nat /\ now' = now /\ comparing' = [comparing EXCEPT ![h] = None]
  BY DEF RecordFail, LInv, TypeOK
<1>2. /\ attempts' = [attempts EXCEPT ![c] = a]
      /\ lastFail' = [lastFail EXCEPT ![c] = now]
      /\ until' = IF attempts'[c].lockedAt = None THEN until ELSE [until EXCEPT ![c] = now + LockoutDur]
  BY DEF RecordFail, LInv, TypeOK
<1>3. /\ a \in Attempt /\ a.first <= now
      /\ a.lockedAt # None => a.lockedAt = now /\ a.count >= MaxFails
      /\ a.lockedAt = None => attempts[c] = None \/ attempts[c].lockedAt = None
  <2>1. CASE attempts[c] = None
    BY <1>1, <2>1, LoginsAssumption DEF Counted, Attempt
  <2>2. CASE attempts[c] # None
    <3>1. attempts[c] \in Attempt
      BY <1>1, <2>2 DEF LInv, TypeOK
    <3>2. Held(c) /\ lastFail[c] \in Nat
      BY <1>1, <2>2 DEF LInv, Held
    <3>3. a = [count |-> attempts[c].count + 1, first |-> attempts[c].first,
               lockedAt |-> IF attempts[c].count + 1 >= MaxFails THEN now ELSE attempts[c].lockedAt]
      BY <2>2 DEF Counted
    <3>4. /\ a.count = attempts[c].count + 1 /\ a.first = attempts[c].first
          /\ a.lockedAt = IF attempts[c].count + 1 >= MaxFails THEN now ELSE attempts[c].lockedAt
          /\ a \in Attempt
      BY <1>1, <3>1, <3>3 DEF Attempt
    <3> HIDE DEF a
    <3>5. attempts[c].lockedAt # None => attempts[c].count >= MaxFails
      BY <2>2, <3>2 DEF Held
    <3>6. attempts[c].first <= now
      BY <1>1, <2>2, <3>1, <3>2 DEF Held, Attempt
    <3> QED BY <1>1, <3>1, <3>4, <3>5, <3>6, LoginsAssumption DEF Attempt
  <2> QED BY <2>1, <2>2
<1> HIDE DEF a
<1>4. a # None
  BY <1>3, LoginsAssumption
<1>5. TypeOK'
  <2>1. attempts' \in [Client -> Attempt \cup {None}] /\ lastFail' \in [Client -> Nat \cup {None}]
    BY <1>1, <1>2, <1>3 DEF LInv, TypeOK
  <2>2. until' \in [Client -> Nat]
    BY <1>1, <1>2, LoginsAssumption DEF LInv, TypeOK
  <2> QED BY <1>1, <2>1, <2>2 DEF LInv, TypeOK
<1>6. ASSUME NEW d \in Client PROVE Given(d)' /\ Held(d)'
  <2>1. Given(d) /\ Held(d)
    BY DEF LInv
  <2>2. CASE d # c
    <3>1. attempts'[d] = attempts[d] /\ lastFail'[d] = lastFail[d] /\ until'[d] = until[d]
      BY <1>1, <1>2, <2>2 DEF LInv, TypeOK
    <3> QED BY <1>1, <2>1, <3>1 DEF Given, Held
  <2>3. CASE d = c
    <3>1. attempts'[d] = a /\ lastFail'[d] = now
      BY <1>1, <1>2, <2>3 DEF LInv, TypeOK
    <3>2. Held(d)'
      BY <1>1, <1>3, <3>1 DEF Held
    <3>3. CASE a.lockedAt # None
      <4>1. until'[d] = now + LockoutDur
        BY <1>1, <1>2, <2>3, <3>1, <3>3 DEF LInv, TypeOK
      <4> QED BY <1>1, <1>3, <1>4, <3>1, <3>2, <3>3, <4>1 DEF Given
    <3>4. CASE a.lockedAt = None
      <4>1. until'[d] = until[d]
        BY <1>2, <2>3, <3>1, <3>4
      <4> QED BY <1>1, <1>3, <2>1, <2>3, <3>2, <3>4, <4>1 DEF Given
    <3> QED BY <3>3, <3>4
  <2> QED BY <2>2, <2>3
<1> QED BY <1>5, <1>6 DEF LInv

\* Each other step lets go of records only with their locks, or of locks that are over.
LEMMA OtherLInv ==
  ASSUME LInv, \/ Cleanup \/ Tick \/ LoginsRestart \/ UNCHANGED loginsVars
               \/ \E h \in Handler : Reset(h) \/ BadRequest(h)
  PROVE  LInv'
<1> USE LoginsAssumption
<1>1. CASE Cleanup
  <2>1. TypeOK'
    BY <1>1 DEF Cleanup, LInv, TypeOK
  <2>2. ASSUME NEW d \in Client PROVE Given(d)' /\ Held(d)'
    <3>1. Given(d) /\ Held(d) /\ attempts[d] \in Attempt \cup {None} /\ now \in Nat
      BY DEF LInv, TypeOK
    <3>2. UNCHANGED <<now, until, lastFail>>
      BY <1>1 DEF Cleanup
    <3>3. CASE attempts'[d] = attempts[d]
      BY <3>1, <3>2, <3>3 DEF Given, Held
    <3>4. CASE attempts'[d] # attempts[d]
      <4>1. attempts'[d] = None /\ (attempts[d].lockedAt = None \/ now > attempts[d].lockedAt + LockoutDur)
        BY <1>1, <3>4 DEF Cleanup
      <4> QED BY <3>1, <3>2, <4>1 DEF Given, Held, Attempt
    <3> QED BY <3>3, <3>4
  <2> QED BY <2>1, <2>2 DEF LInv
<1>2. CASE Tick
  <2>1. now \in Nat /\ now' = now + 1 /\ UNCHANGED <<attempts, comparing, until, lastFail>>
    BY <1>2 DEF Tick, LInv, TypeOK
  <2>2. TypeOK'
    BY <2>1 DEF LInv, TypeOK
  <2>3. ASSUME NEW d \in Client PROVE Given(d)' /\ Held(d)'
    <3>1. Given(d) /\ Held(d) /\ until[d] \in Nat
      BY DEF LInv, TypeOK
    <3> QED BY <2>1, <3>1 DEF Given, Held
  <2> QED BY <2>2, <2>3 DEF LInv
<1>3. CASE LoginsRestart
  <2>1. TypeOK'
    BY <1>3 DEF LoginsRestart, LInv, TypeOK
  <2>2. ASSUME NEW d \in Client PROVE Given(d)' /\ Held(d)'
    BY <1>3 DEF LoginsRestart, LInv, TypeOK, Given, Held
  <2> QED BY <2>1, <2>2 DEF LInv
<1>4. ASSUME NEW h \in Handler, Reset(h) PROVE LInv'
  <2>1. TypeOK'
    BY <1>4 DEF Reset, LInv, TypeOK
  <2>2. ASSUME NEW d \in Client PROVE Given(d)' /\ Held(d)'
    <3>1. Given(d) /\ Held(d)
      BY DEF LInv
    <3>2. CASE d = comparing[h]
      BY <1>4, <3>2 DEF Reset, LInv, TypeOK, Given, Held
    <3>3. CASE d # comparing[h]
      <4>1. attempts'[d] = attempts[d] /\ until'[d] = until[d] /\ UNCHANGED <<now, lastFail>>
        BY <1>4, <3>3 DEF Reset, LInv, TypeOK
      <4> QED BY <3>1, <4>1 DEF Given, Held
    <3> QED BY <3>2, <3>3
  <2> QED BY <2>1, <2>2 DEF LInv
<1>5. ASSUME NEW h \in Handler, BadRequest(h) PROVE LInv'
  BY <1>5 DEF BadRequest, LInv, TypeOK, Given, Held
<1>6. CASE UNCHANGED loginsVars
  BY <1>6 DEF loginsVars, LInv, TypeOK, Given, Held
<1> QED BY <1>1, <1>2, <1>3, <1>4, <1>5, <1>6

\* What is given is refused, and what is refused was wrong lately.
LEMMA LInvSuffices == LInv => LocksHold /\ RefusalsEnd
<1> SUFFICES ASSUME LInv, NEW c \in Client
             PROVE  /\ now < until[c] => Refused(c)
                    /\ Refused(c) => lastFail[c] # None /\ now < lastFail[c] + LockoutDur
  BY DEF LocksHold, RefusalsEnd
<1>1. Given(c) /\ Held(c) /\ now \in Nat /\ until[c] \in Nat /\ attempts[c] \in Attempt \cup {None}
  BY DEF LInv, TypeOK
<1>2. now < until[c] => Refused(c)
  BY <1>1, LoginsAssumption DEF Given, Refused, Locked
<1>3. ASSUME Refused(c) PROVE lastFail[c] # None /\ now < lastFail[c] + LockoutDur
  <2>1. attempts[c] \in Attempt /\ lastFail[c] \in Nat
    BY <1>1, <1>3 DEF Refused, Held
  <2>2. CASE Locked(c)
    BY <1>1, <1>3, <2>1, <2>2, LoginsAssumption DEF Locked, Held, Refused
  <2>3. CASE ~WindowOver(c)
    BY <1>1, <1>3, <2>1, <2>3, LoginsAssumption DEF WindowOver, Held, Refused, Attempt
  <2> QED BY <1>3, <2>1, <2>2, <2>3, LoginsAssumption DEF Refused
<1> QED BY <1>2, <1>3

\* A lock holds to its end, and an address is refused only within the lockout of its last wrong
\* password (ratelimit.go): for all constants with a window shorter than the lockout.
THEOREM LimiterHolds == ServerSpec => []LimiterKeepsItsWord
<1>1. Init => LInv
  BY InitLInv DEF Init
<1>2. LInv /\ [Next]_serverVars => LInv'
  <2> SUFFICES ASSUME LInv, [Next]_serverVars PROVE LInv'
    OBVIOUS
  <2>1. LoginsNext \/ UNCHANGED loginsVars
    BY DEF Next, serverVars
  <2> QED BY <2>1, AllowLInv, RecordFailLInv, OtherLInv DEF LoginsNext
<1>3. LInv => LimiterKeepsItsWord
  BY LInvSuffices DEF LimiterKeepsItsWord
<1> QED BY <1>1, <1>2, <1>3, PTL DEF ServerSpec

----------------------------------------------------------------------------
(* Thumbnails *)

\* A picture with its date.
Dating == [pic : Picture, date : Nat]

\* A request that has looked at a picture.
Seeing(r) == r.pc \in {"hash", "remember", "ensure", "generate"}

ThumbRequest(r) ==
  /\ DOMAIN r = DOMAIN NoThumb /\ r.late \in BOOLEAN
  /\ r.pc \in {"idle", "preview", "walk", "store", "stat", "hash", "remember", "ensure", "generate", "date", "invalidate"}
  /\ r.pc \in {"preview", "walk", "store", "date"} => r.time \in Nat
  /\ r.pc \in {"store", "stat"} => r.name \in Name \cup {None}
  /\ r.pc = "date" => r.name \in Name
  /\ Seeing(r) => r.name \in Name /\ r.file \in Dating
  /\ r.pc \in {"remember", "ensure", "generate"} => r.hash \in Picture

ThumbTypes ==
  /\ files \in [Name -> Dating \cup {None}] /\ trash \in [Name -> Dating \cup {None}]
  /\ dirTime \in Nat
  /\ hashes \in [Name -> [file : Dating, hash : Picture] \cup {None}]
  /\ preview \in [time : Nat, child : Name \cup {None}] \cup {None}
  /\ thumbs \in [Picture -> Picture \cup {None}]
  /\ sure \in BOOLEAN
  /\ DOMAIN drawing = Handler /\ \A h \in Handler : ThumbRequest(drawing[h])

\* What a request looked at is still what its file shows, or both were replaced.
Pictured(r) ==
  Seeing(r) => \/ files[r.name] = None
               \/ files[r.name].pic = r.file.pic
               \/ {files[r.name].pic, r.file.pic} \subseteq replaced

\* A hash is that of the picture it was looked up for, unless that was replaced meanwhile.
Hashed(r) == r.pc \in {"remember", "ensure", "generate"} => r.hash = r.file.pic \/ r.hash \in replaced
Remembered == \A n \in Name : hashes[n] # None => hashes[n].hash = hashes[n].file.pic \/ hashes[n].hash \in replaced

\* What a walk found is the first child, unless a name has come or gone since, or a date has changed.
Walked(r) ==
  /\ r.pc \in {"preview", "walk", "store"} => r.time <= dirTime
  /\ r.pc = "store" /\ r.time = dirTime /\ ~r.late => r.name = First

TInv ==
  /\ ThumbTypes /\ Remembered /\ ThumbsShowTheirPictures
  /\ \A h \in Handler : Pictured(drawing[h]) /\ Hashed(drawing[h]) /\ Walked(drawing[h])
  /\ preview # None => preview.time <= dirTime
  /\ FolderFollowsItsFirst

LEMMA NoThumbIsARequest ==
  /\ DOMAIN NoThumb = {"pc", "name", "file", "hash", "time", "upload", "late"}
  /\ ThumbRequest(NoThumb) /\ NoThumb.pc = "idle" /\ ~Seeing(NoThumb)
BY DEF NoThumb, ThumbRequest, Seeing

\* A folder with a picture has a first one: the one with the fewest before it.
LEMMA FirstIsThere == ASSUME ThumbTypes PROVE First \in Name \cup {None}
<1>1. CASE Present = {}
  BY <1>1 DEF First
<1>2. CASE Present # {}
  <2> DEFINE R == StrictSubsetOrdering(Name)
             before(n) == {k \in Present : Later(k, n)}
             T == {before(n) : n \in Present}
  <2>1. IsWellFoundedOn(R, FiniteSubsetsOf(Name))
    BY FS_StrictSubsetOrderingWellFounded
  <2>2. T \subseteq FiniteSubsetsOf(Name) /\ T # {}
    <3>1. ASSUME NEW n \in Present PROVE before(n) \in FiniteSubsetsOf(Name)
      <4>1. before(n) \subseteq Name
        BY DEF Present
      <4>2. IsFiniteSet(before(n))
        BY <4>1, ThumbsAssumption, FS_Subset
      <4> QED
        BY <4>1, <4>2 DEF FiniteSubsetsOf
    <3> QED
      BY <1>2, <3>1
  <2>3. PICK t \in T : \A u \in T : ~(<<u, t>> \in R)
    <3> HIDE DEF T, R
    <3> QED
      BY <2>1, <2>2, WFMin
  <2>4. PICK n \in Present : t = before(n)
    BY <2>3
  <2>5. ASSUME NEW k \in Present PROVE Later(n, k)
    <3>1. /\ \A m \in Present : m \in Name /\ m \in Nat /\ files[m].date \in Nat
      BY ThumbsAssumption DEF Present, ThumbTypes, Dating
    <3>2. SUFFICES ASSUME ~Later(n, k) PROVE FALSE
      OBVIOUS
    <3>3. before(k) \subseteq before(n)
      BY <3>1, <3>2 DEF Later
    <3>4. n \in before(n) /\ n \notin before(k)
      BY <3>1, <3>2 DEF Later
    <3>5. before(k) \subseteq Name /\ before(n) \subseteq Name
      BY <3>1
    <3>6. <<before(k), before(n)>> \in R
      <4> DEFINE a == before(k)
                 b == before(n)
      <4>1. a \subseteq Name /\ b \subseteq Name /\ a \subseteq b /\ a # b
        BY <3>3, <3>4, <3>5
      <4> HIDE DEF a, b
      <4>2. <<a, b>> \in StrictSubsetOrdering(Name)
        BY <4>1 DEF StrictSubsetOrdering
      <4> QED
        BY <4>2 DEF a, b
    <3> QED
      BY <2>3, <2>4, <3>6
  <2>6. First \in Present
    BY <1>2, <2>5 DEF First
  <2> QED
    BY <2>6 DEF Present
<1> QED
  BY <1>1, <1>2

LEMMA FirstStays == ASSUME UNCHANGED files PROVE First' = First
BY DEF First, Present, Later

\* The others go on while the files, and what was replaced, stay.
LEMMA OthersSeeTheSame ==
  ASSUME TInv, NEW h \in Handler, DOMAIN drawing' = Handler, \A g \in Handler \ {h} : drawing'[g] = drawing[g],
         UNCHANGED <<files, dirTime, replaced>>,
         ThumbRequest(drawing'[h]), Pictured(drawing[h])', Hashed(drawing[h])', Walked(drawing[h])'
  PROVE  /\ (\A g \in Handler : ThumbRequest(drawing[g]))'
         /\ \A g \in Handler : Pictured(drawing[g])' /\ Hashed(drawing[g])' /\ Walked(drawing[g])'
<1>1. ASSUME NEW g \in Handler \ {h}
      PROVE  ThumbRequest(drawing'[g]) /\ Pictured(drawing[g])' /\ Hashed(drawing[g])' /\ Walked(drawing[g])'
  <2>1. ThumbRequest(drawing[g]) /\ Pictured(drawing[g]) /\ Hashed(drawing[g]) /\ Walked(drawing[g])
    BY DEF TInv, ThumbTypes
  <2>2. First' = First
    BY FirstStays
  <2> QED
    BY <2>1, <2>2 DEF Pictured, Hashed, Walked
<1>2. \A g \in Handler : ThumbRequest(drawing'[g])
  BY <1>1
<1>3. (\A g \in Handler : ThumbRequest(drawing[g]))'
  BY <1>2 DEF ThumbRequest, Seeing
<1> QED
  BY <1>1, <1>3

\* A step that changes nothing but its own request, and does not end a change of a date.
LEMMA ThumbGoesOn ==
  ASSUME TInv, NEW h \in Handler, DOMAIN drawing' = Handler, \A g \in Handler \ {h} : drawing'[g] = drawing[g],
         UNCHANGED <<files, trash, dirTime, hashes, preview, thumbs, replaced, sure>>,
         drawing[h].pc # "invalidate",
         ThumbRequest(drawing'[h]), Pictured(drawing[h])', Hashed(drawing[h])', Walked(drawing[h])'
  PROVE  TInv'
<1>1. /\ (\A g \in Handler : ThumbRequest(drawing[g]))'
      /\ \A g \in Handler : Pictured(drawing[g])' /\ Hashed(drawing[g])' /\ Walked(drawing[g])'
  BY OthersSeeTheSame
<1>2. ThumbTypes'
  BY <1>1 DEF TInv, ThumbTypes
<1>3. Remembered' /\ ThumbsShowTheirPictures' /\ (preview # None => preview.time <= dirTime)'
  BY DEF TInv, Remembered, ThumbsShowTheirPictures
<1>4. FolderFollowsItsFirst'
  BY FirstStays DEF TInv, FolderFollowsItsFirst
<1> QED
  BY <1>1, <1>2, <1>3, <1>4 DEF TInv

\* What a request holds when it is over.
LEMMA ThumbEnds ==
  ASSUME NEW h, drawing'[h] = NoThumb
  PROVE  ThumbRequest(drawing'[h]) /\ Pictured(drawing[h])' /\ Hashed(drawing[h])' /\ Walked(drawing[h])'
<1>1. drawing'[h].pc = "idle" /\ ThumbRequest(drawing'[h])
  BY NoThumbIsARequest
<1> QED
  BY <1>1 DEF Pictured, Hashed, Walked, Seeing

LEMMA StatFileStep ==
  ASSUME TInv, NEW h \in Handler, NEW n \in Name, StatFile(h, n), drawing[h].pc # "invalidate",
         UNCHANGED <<files, trash, dirTime, hashes, preview, thumbs, replaced, sure>>
  PROVE  TInv'
<1>1. DOMAIN drawing = Handler
  BY DEF TInv, ThumbTypes
<1>2. DOMAIN drawing' = Handler /\ \A g \in Handler \ {h} : drawing'[g] = drawing[g]
  BY <1>1 DEF StatFile, Return
<1>3. CASE files[n] = None
  BY <1>1, <1>2, <1>3, ThumbEnds, ThumbGoesOn DEF StatFile, Return
<1>4. CASE files[n] # None
  <2> DEFINE q == [NoThumb EXCEPT !.pc = "hash", !.name = n, !.file = files[n]]
  <2>1. drawing'[h] = q
    BY <1>1, <1>4 DEF StatFile
  <2>2. DOMAIN q = DOMAIN NoThumb /\ q.pc = "hash" /\ q.name = n /\ q.file = files[n] /\ q.late = FALSE
    BY DEF NoThumb
  <2> HIDE DEF q
  <2>3. files[n] \in Dating
    BY <1>4 DEF TInv, ThumbTypes
  <2>4. ThumbRequest(drawing'[h])
    BY <2>1, <2>2, <2>3 DEF ThumbRequest
  <2>5. Pictured(drawing[h])' /\ Hashed(drawing[h])' /\ Walked(drawing[h])'
    BY <2>1, <2>2 DEF Pictured, Hashed, Walked
  <2> QED
    BY <1>2, <2>4, <2>5, ThumbGoesOn
<1> QED
  BY <1>3, <1>4

LEMMA ThumbOfFolderStep == ASSUME TInv, NEW h \in Handler, ThumbOfFolder(h) PROVE TInv'
<1> DEFINE q == [NoThumb EXCEPT !.pc = "preview", !.time = dirTime]
<1>1. /\ drawing[h].pc = "idle" /\ drawing' = [drawing EXCEPT ![h] = q]
      /\ UNCHANGED <<files, trash, dirTime, hashes, preview, thumbs, replaced, sure>>
      /\ DOMAIN drawing = Handler /\ dirTime \in Nat
  BY DEF ThumbOfFolder, TInv, ThumbTypes
<1>2. DOMAIN q = DOMAIN NoThumb /\ q.pc = "preview" /\ q.time = dirTime /\ q.late = FALSE
  BY DEF NoThumb
<1> HIDE DEF q
<1>3. drawing'[h] = q
  BY <1>1
<1>4. ThumbRequest(q)
  BY <1>1, <1>2 DEF ThumbRequest, Seeing
<1>5. ThumbRequest(drawing'[h])
  BY <1>3, <1>4
<1>6. Pictured(drawing[h])' /\ Hashed(drawing[h])' /\ Walked(drawing[h])'
  BY <1>1, <1>2, <1>3 DEF Pictured, Hashed, Walked, Seeing
<1> QED
  BY <1>1, <1>5, <1>6, ThumbGoesOn

LEMMA LookUpChildStep == ASSUME TInv, NEW h \in Handler, LookUpChild(h) PROVE TInv'
<1> DEFINE r == drawing[h]
           q == drawing'[h]
<1>1. /\ r.pc = "preview" /\ UNCHANGED <<files, trash, dirTime, hashes, preview, thumbs, replaced, sure>>
      /\ DOMAIN drawing = Handler /\ ThumbRequest(r) /\ r.time \in Nat /\ r.time <= dirTime
      /\ DOMAIN r = {"pc", "name", "file", "hash", "time", "upload", "late"}
  BY NoThumbIsARequest DEF LookUpChild, TInv, ThumbTypes, Walked, ThumbRequest
<1>2. CASE preview # None /\ drawing' = [drawing EXCEPT ![h].pc = "stat", ![h].name = preview.child]
  <2> DEFINE x == [[r EXCEPT !.pc = "stat"] EXCEPT !.name = preview.child]
  <2>1. drawing' = [drawing EXCEPT ![h] = x]
    BY <1>1, <1>2
  <2>2. DOMAIN x = DOMAIN r /\ x.pc = "stat" /\ x.name = preview.child /\ x.late = r.late
    BY <1>1
  <2>3. preview.child \in Name \cup {None}
    BY <1>2 DEF TInv, ThumbTypes
  <2> HIDE DEF x
  <2>4. q = x
    BY <1>1, <2>1
  <2>5. ThumbRequest(q) /\ Pictured(drawing[h])' /\ Hashed(drawing[h])' /\ Walked(drawing[h])'
    BY <1>1, <2>2, <2>3, <2>4 DEF ThumbRequest, Pictured, Hashed, Walked, Seeing
  <2> QED
    BY <1>1, <2>1, <2>5, ThumbGoesOn
<1>3. CASE GoOn(h, "walk")
  <2> DEFINE x == [r EXCEPT !.pc = "walk"]
  <2>1. drawing' = [drawing EXCEPT ![h] = x]
    BY <1>1, <1>3 DEF GoOn
  <2>2. DOMAIN x = DOMAIN r /\ x.pc = "walk" /\ x.time = r.time /\ x.late = r.late
    BY <1>1
  <2> HIDE DEF x
  <2>4. q = x
    BY <1>1, <2>1
  <2>5. ThumbRequest(q) /\ Pictured(drawing[h])' /\ Hashed(drawing[h])' /\ Walked(drawing[h])'
    BY <1>1, <2>2, <2>4 DEF ThumbRequest, Pictured, Hashed, Walked, Seeing
  <2> QED
    BY <1>1, <2>1, <2>5, ThumbGoesOn
<1> QED
  BY <1>2, <1>3 DEF LookUpChild

LEMMA FindThumbableStep == ASSUME TInv, NEW h \in Handler, FindThumbable(h) PROVE TInv'
<1> DEFINE r == drawing[h]
           q == drawing'[h]
           x == [[r EXCEPT !.pc = "store"] EXCEPT !.name = First]
<1>1. /\ r.pc = "walk" /\ UNCHANGED <<files, trash, dirTime, hashes, preview, thumbs, replaced, sure>>
      /\ DOMAIN drawing = Handler /\ ThumbRequest(r) /\ r.time \in Nat /\ r.time <= dirTime
      /\ DOMAIN r = {"pc", "name", "file", "hash", "time", "upload", "late"}
      /\ drawing' = [drawing EXCEPT ![h].pc = "store", ![h].name = First]
  BY NoThumbIsARequest DEF FindThumbable, TInv, ThumbTypes, Walked, ThumbRequest
<1>2. drawing' = [drawing EXCEPT ![h] = x]
  BY <1>1
<1>3. DOMAIN x = DOMAIN r /\ x.pc = "store" /\ x.name = First /\ x.time = r.time /\ x.late = r.late
  BY <1>1
<1> HIDE DEF x
<1>4. q = x
  BY <1>1, <1>2
<1>5. First \in Name \cup {None} /\ First' = First
  BY <1>1, FirstIsThere, FirstStays DEF TInv
<1>6. ThumbRequest(q) /\ Pictured(drawing[h])' /\ Hashed(drawing[h])' /\ Walked(drawing[h])'
  BY <1>1, <1>3, <1>4, <1>5 DEF ThumbRequest, Pictured, Hashed, Walked, Seeing
<1> QED
  BY <1>1, <1>2, <1>6, ThumbGoesOn

LEMMA StoreChildStep == ASSUME TInv, NEW h \in Handler, StoreChild(h) PROVE TInv'
<1> DEFINE r == drawing[h]
           q == drawing'[h]
           x == [r EXCEPT !.pc = "stat"]
<1>1. /\ r.pc = "store" /\ UNCHANGED <<files, trash, dirTime, hashes, thumbs, replaced>>
      /\ DOMAIN drawing = Handler /\ ThumbRequest(r) /\ Walked(r)
      /\ DOMAIN r = {"pc", "name", "file", "hash", "time", "upload", "late"}
      /\ r.time \in Nat /\ r.time <= dirTime /\ r.name \in Name \cup {None} /\ r.late \in BOOLEAN
      /\ drawing' = [drawing EXCEPT ![h] = x]
      /\ preview' = [time |-> r.time, child |-> r.name] /\ sure' = ~r.late
  BY NoThumbIsARequest DEF StoreChild, GoOn, TInv, ThumbTypes, Walked, ThumbRequest
<1>2. DOMAIN x = DOMAIN r /\ x.pc = "stat" /\ x.name = r.name /\ x.late = r.late
  BY <1>1
<1> HIDE DEF x
<1>3. q = x
  BY <1>1
<1>4. ThumbRequest(q) /\ Pictured(drawing[h])' /\ Hashed(drawing[h])' /\ Walked(drawing[h])'
  BY <1>1, <1>2, <1>3 DEF ThumbRequest, Pictured, Hashed, Walked, Seeing
<1>5. /\ (\A g \in Handler : ThumbRequest(drawing[g]))'
      /\ \A g \in Handler : Pictured(drawing[g])' /\ Hashed(drawing[g])' /\ Walked(drawing[g])'
  BY <1>1, <1>4, OthersSeeTheSame
<1>6. preview'.time = r.time /\ preview'.child = r.name
  BY <1>1
<1>7. preview' \in [time : Nat, child : Name \cup {None}] /\ sure' \in BOOLEAN
  BY <1>1
<1>8. ThumbTypes'
  BY <1>1, <1>5, <1>7 DEF TInv, ThumbTypes
<1>9. Remembered' /\ ThumbsShowTheirPictures'
  BY <1>1 DEF TInv, Remembered, ThumbsShowTheirPictures
<1>10. FolderFollowsItsFirst'
  BY <1>1, <1>6, FirstStays DEF FolderFollowsItsFirst, Walked
<1> QED
  BY <1>1, <1>5, <1>6, <1>8, <1>9, <1>10 DEF TInv

LEMMA StatChildStep == ASSUME TInv, NEW h \in Handler, StatChild(h) PROVE TInv'
<1>1. /\ drawing[h].pc = "stat" /\ UNCHANGED <<files, trash, dirTime, hashes, preview, thumbs, replaced, sure>>
      /\ DOMAIN drawing = Handler /\ drawing[h].name \in Name \cup {None}
  BY DEF StatChild, TInv, ThumbTypes, ThumbRequest
<1>2. CASE Return(h)
  BY <1>1, <1>2, ThumbEnds, ThumbGoesOn DEF Return
<1>3. CASE drawing[h].name # None /\ StatFile(h, drawing[h].name)
  BY <1>1, <1>3, StatFileStep
<1> QED
  BY <1>2, <1>3 DEF StatChild

LEMMA ContentHashStep == ASSUME TInv, NEW h \in Handler, ContentHash(h) PROVE TInv'
<1> DEFINE r == drawing[h]
           q == drawing'[h]
           n == r.name
<1>1. /\ r.pc = "hash" /\ UNCHANGED <<files, trash, dirTime, hashes, preview, thumbs, replaced, sure>>
      /\ DOMAIN drawing = Handler /\ ThumbRequest(r) /\ Pictured(r)
      /\ DOMAIN r = {"pc", "name", "file", "hash", "time", "upload", "late"}
      /\ n \in Name /\ r.file \in Dating /\ Remembered
  BY NoThumbIsARequest DEF ContentHash, TInv, ThumbTypes, ThumbRequest, Seeing
<1>2. ASSUME NEW pc \in {"ensure", "remember"}, NEW p \in Picture, p = r.file.pic \/ p \in replaced,
             drawing' = [drawing EXCEPT ![h].pc = pc, ![h].hash = p]
      PROVE  TInv'
  <2> DEFINE x == [[r EXCEPT !.pc = pc] EXCEPT !.hash = p]
  <2>1. drawing' = [drawing EXCEPT ![h] = x]
    BY <1>1, <1>2
  <2>2. DOMAIN x = DOMAIN r /\ x.pc = pc /\ x.name = n /\ x.file = r.file /\ x.hash = p /\ x.late = r.late
    BY <1>1
  <2> HIDE DEF x
  <2>3. q = x
    BY <1>1, <2>1
  <2>4. ThumbRequest(q) /\ Pictured(drawing[h])' /\ Hashed(drawing[h])' /\ Walked(drawing[h])'
    BY <1>1, <1>2, <2>2, <2>3 DEF ThumbRequest, Pictured, Hashed, Walked, Seeing
  <2> QED
    BY <1>1, <2>1, <2>4, ThumbGoesOn
<1>3. ASSUME hashes[n] # None
      PROVE  hashes[n].hash \in Picture
  BY <1>1, <1>3 DEF TInv, ThumbTypes
<1>4. ASSUME files[n] # None PROVE files[n].pic \in Picture
  BY <1>1, <1>4 DEF TInv, ThumbTypes, Dating
<1>5. CASE /\ Remembers(n, r.file)
           /\ drawing' = [drawing EXCEPT ![h].pc = "ensure", ![h].hash = hashes[n].hash]
  <2>1. hashes[n] # None /\ hashes[n].file = r.file
    BY <1>5 DEF Remembers
  <2>2. hashes[n].hash = r.file.pic \/ hashes[n].hash \in replaced
    BY <1>1, <2>1 DEF Remembered
  <2> QED
    BY <1>2, <1>3, <1>5, <2>1, <2>2
<1>6. CASE /\ files[n] # None
           /\ drawing' = [drawing EXCEPT ![h].pc = "remember", ![h].hash = files[n].pic]
  <2>1. files[n].pic = r.file.pic \/ files[n].pic \in replaced
    BY <1>1, <1>6 DEF Pictured, Seeing
  <2> QED
    BY <1>2, <1>4, <1>6, <2>1
<1>7. CASE Return(h)
  BY <1>1, <1>7, ThumbEnds, ThumbGoesOn DEF Return
<1> QED
  BY <1>5, <1>6, <1>7 DEF ContentHash

LEMMA StoreHashStep == ASSUME TInv, NEW h \in Handler, StoreHash(h) PROVE TInv'
<1> DEFINE r == drawing[h]
           q == drawing'[h]
           x == [r EXCEPT !.pc = "ensure"]
           y == [file |-> r.file, hash |-> r.hash]
<1>1. /\ r.pc = "remember" /\ UNCHANGED <<files, trash, dirTime, preview, thumbs, replaced, sure>>
      /\ DOMAIN drawing = Handler /\ ThumbRequest(r) /\ Pictured(r) /\ Hashed(r)
      /\ DOMAIN r = {"pc", "name", "file", "hash", "time", "upload", "late"}
      /\ r.name \in Name /\ r.file \in Dating /\ r.hash \in Picture
      /\ hashes' = [hashes EXCEPT ![r.name] = y] /\ drawing' = [drawing EXCEPT ![h] = x]
  BY NoThumbIsARequest DEF StoreHash, GoOn, TInv, ThumbTypes, ThumbRequest, Seeing
<1>2. DOMAIN x = DOMAIN r /\ x.pc = "ensure" /\ x.name = r.name /\ x.file = r.file /\ x.hash = r.hash /\ x.late = r.late
  BY <1>1
<1>3. y \in [file : Dating, hash : Picture] /\ y.hash = r.hash /\ y.file = r.file
  BY <1>1
<1> HIDE DEF x, y
<1>4. q = x
  BY <1>1
<1>5. ThumbRequest(q) /\ Pictured(drawing[h])' /\ Hashed(drawing[h])' /\ Walked(drawing[h])'
  BY <1>1, <1>2, <1>4 DEF ThumbRequest, Pictured, Hashed, Walked, Seeing
<1>6. /\ (\A g \in Handler : ThumbRequest(drawing[g]))'
      /\ \A g \in Handler : Pictured(drawing[g])' /\ Hashed(drawing[g])' /\ Walked(drawing[g])'
  BY <1>1, <1>5, OthersSeeTheSame
<1>7. hashes' \in [Name -> [file : Dating, hash : Picture] \cup {None}]
  BY <1>1, <1>3 DEF TInv, ThumbTypes
<1>8. ThumbTypes'
  BY <1>1, <1>6, <1>7 DEF TInv, ThumbTypes
<1>9. Remembered'
  <2>1. r.hash = r.file.pic \/ r.hash \in replaced
    BY <1>1 DEF Hashed
  <2>2. \A n \in Name : hashes'[n] = IF n = r.name THEN y ELSE hashes[n]
    BY <1>1 DEF TInv, ThumbTypes
  <2> QED
    BY <1>1, <1>3, <2>1, <2>2 DEF TInv, Remembered
<1>10. ThumbsShowTheirPictures' /\ FolderFollowsItsFirst'
  BY <1>1, FirstStays DEF TInv, ThumbsShowTheirPictures, FolderFollowsItsFirst
<1> QED
  BY <1>1, <1>6, <1>8, <1>9, <1>10 DEF TInv

LEMMA EnsureStep == ASSUME TInv, NEW h \in Handler, Ensure(h) PROVE TInv'
<1> DEFINE r == drawing[h]
           q == drawing'[h]
           x == [r EXCEPT !.pc = "generate"]
<1>1. /\ r.pc = "ensure" /\ UNCHANGED <<files, trash, dirTime, hashes, preview, thumbs, replaced, sure>>
      /\ DOMAIN drawing = Handler /\ ThumbRequest(r) /\ Pictured(r) /\ Hashed(r)
      /\ DOMAIN r = {"pc", "name", "file", "hash", "time", "upload", "late"}
  BY NoThumbIsARequest DEF Ensure, TInv, ThumbTypes, ThumbRequest
<1>2. CASE Return(h)
  BY <1>1, <1>2, ThumbEnds, ThumbGoesOn DEF Return
<1>3. CASE GoOn(h, "generate")
  <2>1. drawing' = [drawing EXCEPT ![h] = x]
    BY <1>1, <1>3 DEF GoOn
  <2>2. /\ DOMAIN x = DOMAIN r /\ x.pc = "generate" /\ x.name = r.name /\ x.file = r.file /\ x.hash = r.hash
        /\ x.late = r.late
    BY <1>1
  <2> HIDE DEF x
  <2>3. q = x
    BY <1>1, <2>1
  <2>4. ThumbRequest(q) /\ Pictured(drawing[h])' /\ Hashed(drawing[h])' /\ Walked(drawing[h])'
    BY <1>1, <2>2, <2>3 DEF ThumbRequest, Pictured, Hashed, Walked, Seeing
  <2> QED
    BY <1>1, <2>1, <2>4, ThumbGoesOn
<1> QED
  BY <1>2, <1>3 DEF Ensure

LEMMA GenerateStep == ASSUME TInv, NEW h \in Handler, Generate(h) PROVE TInv'
<1> DEFINE r == drawing[h]
<1>1. /\ r.pc = "generate" /\ UNCHANGED <<files, trash, dirTime, hashes, preview, replaced, sure>>
      /\ DOMAIN drawing = Handler /\ ThumbRequest(r) /\ Pictured(r) /\ Hashed(r)
      /\ r.name \in Name /\ r.file \in Dating /\ r.hash \in Picture
      /\ drawing' = [drawing EXCEPT ![h] = NoThumb]
      /\ \/ thumbs' = thumbs
         \/ files[r.name] # None /\ thumbs' = [thumbs EXCEPT ![r.hash] = files[r.name].pic]
  BY DEF Generate, Return, TInv, ThumbTypes, ThumbRequest, Seeing
<1>2. ThumbRequest(drawing'[h]) /\ Pictured(drawing[h])' /\ Hashed(drawing[h])' /\ Walked(drawing[h])'
  BY <1>1, ThumbEnds
<1>3. /\ (\A g \in Handler : ThumbRequest(drawing[g]))'
      /\ \A g \in Handler : Pictured(drawing[g])' /\ Hashed(drawing[g])' /\ Walked(drawing[g])'
  BY <1>1, <1>2, OthersSeeTheSame
<1>4. thumbs' \in [Picture -> Picture \cup {None}]
  BY <1>1 DEF TInv, ThumbTypes, Dating
<1>5. ThumbTypes'
  BY <1>1, <1>3, <1>4 DEF TInv, ThumbTypes
<1>6. ThumbsShowTheirPictures'
  <2>1. files[r.name] # None /\ r.hash \notin replaced => files[r.name].pic = r.hash
    BY <1>1 DEF Pictured, Hashed, Seeing
  <2>2. DOMAIN thumbs = Picture
    BY DEF TInv, ThumbTypes
  <2> QED
    BY <1>1, <2>1, <2>2 DEF TInv, ThumbsShowTheirPictures
<1>7. Remembered' /\ FolderFollowsItsFirst'
  BY <1>1, FirstStays DEF TInv, Remembered, FolderFollowsItsFirst
<1> QED
  BY <1>1, <1>3, <1>5, <1>6, <1>7 DEF TInv

LEMMA InvalidateStep == ASSUME TInv, NEW h \in Handler, Invalidate(h) PROVE TInv'
<1>1. /\ UNCHANGED <<files, trash, dirTime, hashes, thumbs, replaced, sure>> /\ preview' = None
      /\ DOMAIN drawing = Handler /\ drawing' = [drawing EXCEPT ![h] = NoThumb]
  BY DEF Invalidate, Return, TInv, ThumbTypes
<1>2. ThumbRequest(drawing'[h]) /\ Pictured(drawing[h])' /\ Hashed(drawing[h])' /\ Walked(drawing[h])'
  BY <1>1, ThumbEnds
<1>3. /\ (\A g \in Handler : ThumbRequest(drawing[g]))'
      /\ \A g \in Handler : Pictured(drawing[g])' /\ Hashed(drawing[g])' /\ Walked(drawing[g])'
  BY <1>1, <1>2, OthersSeeTheSame
<1>4. ThumbTypes'
  BY <1>1, <1>3 DEF TInv, ThumbTypes
<1>5. Remembered' /\ ThumbsShowTheirPictures' /\ FolderFollowsItsFirst'
  BY <1>1 DEF TInv, Remembered, ThumbsShowTheirPictures, FolderFollowsItsFirst
<1> QED
  BY <1>1, <1>3, <1>4, <1>5 DEF TInv

LEMMA CollectStep == ASSUME TInv, NEW p \in Picture, Collect(p) PROVE TInv'
<1>1. /\ UNCHANGED <<files, trash, dirTime, hashes, preview, drawing, replaced, sure>>
      /\ thumbs' = [thumbs EXCEPT ![p] = None]
  BY DEF Collect
<1>2. (\A g \in Handler : ThumbRequest(drawing[g]))'
  <2>1. \A g \in Handler : ThumbRequest(drawing'[g])
    BY <1>1 DEF TInv, ThumbTypes
  <2> QED
    BY <2>1 DEF ThumbRequest, Seeing
<1>3. ThumbTypes'
  BY <1>1, <1>2 DEF TInv, ThumbTypes
<1>4. \A g \in Handler : Pictured(drawing[g])' /\ Hashed(drawing[g])' /\ Walked(drawing[g])'
  BY <1>1, FirstStays DEF TInv, Pictured, Hashed, Walked, Seeing
<1>5. Remembered' /\ FolderFollowsItsFirst'
  BY <1>1, FirstStays DEF TInv, Remembered, FolderFollowsItsFirst
<1>6. ThumbsShowTheirPictures'
  BY <1>1 DEF TInv, ThumbTypes, ThumbsShowTheirPictures
<1> QED
  BY <1>1, <1>3, <1>4, <1>5, <1>6 DEF TInv

LEMMA ThumbOfFileStep == ASSUME TInv, NEW h \in Handler, NEW n \in Name, ThumbOfFile(h, n) PROVE TInv'
BY StatFileStep DEF ThumbOfFile

\* A name comes, goes or shows another picture: who has looked at it knows that it was replaced, and
\* nothing is remembered under the folder's new date.
LEMMA BecomesStep ==
  ASSUME TInv, NEW h \in Handler, NEW n \in Name, NEW f \in Dating \cup {None}, Becomes(n, f), dirTime' = dirTime + 1,
         DOMAIN drawing' = Handler, \A g \in Handler \ {h} : drawing'[g] = drawing[g],
         ThumbRequest(drawing'[h]), drawing'[h].pc \in {"date", "invalidate"},
         trash' \in [Name -> Dating \cup {None}], UNCHANGED <<hashes, preview, thumbs, sure>>
  PROVE  TInv'
<1>1. /\ files \in [Name -> Dating \cup {None}] /\ files' = [files EXCEPT ![n] = f]
      /\ replaced \subseteq replaced' /\ dirTime \in Nat
  BY DEF TInv, ThumbTypes, Becomes
<1>2. ASSUME NEW g \in Handler \ {h}
      PROVE  ThumbRequest(drawing'[g]) /\ Pictured(drawing[g])' /\ Hashed(drawing[g])' /\ Walked(drawing[g])'
  <2> DEFINE r == drawing[g]
  <2>1. ThumbRequest(r) /\ Pictured(r) /\ Hashed(r) /\ Walked(r) /\ drawing'[g] = r
    BY DEF TInv, ThumbTypes
  <2>2. Hashed(drawing[g])'
    BY <1>1, <2>1 DEF Hashed
  <2>3. Walked(drawing[g])'
    BY <1>1, <2>1 DEF Walked, ThumbRequest
  <2>4. CASE Seeing(r) /\ r.name = n
    <3>1. g \in Looking(n)
      BY <2>4 DEF Looking, Seeing
    <3>2. r.file.pic \in replaced' /\ (f # None => f.pic \in replaced')
      BY <3>1 DEF Becomes
    <3> QED
      BY <1>1, <2>1, <2>2, <2>3, <2>4, <3>2 DEF Pictured
  <2>5. CASE Seeing(r) /\ r.name # n
    <3>1. files'[r.name] = files[r.name]
      BY <1>1, <2>1, <2>5 DEF ThumbRequest
    <3> QED
      BY <1>1, <2>1, <2>2, <2>3, <3>1 DEF Pictured
  <2>6. CASE ~Seeing(r)
    BY <2>1, <2>2, <2>3, <2>6 DEF Pictured
  <2> QED
    BY <2>4, <2>5, <2>6
<1>3. Pictured(drawing[h])' /\ Hashed(drawing[h])' /\ Walked(drawing[h])'
  BY DEF Pictured, Hashed, Walked, Seeing
<1>4. (\A g \in Handler : ThumbRequest(drawing[g]))'
  <2>1. \A g \in Handler : ThumbRequest(drawing'[g])
    BY <1>2
  <2> QED
    BY <2>1 DEF ThumbRequest, Seeing
<1>5. ThumbTypes'
  BY <1>1, <1>4 DEF TInv, ThumbTypes
<1>6. Remembered' /\ ThumbsShowTheirPictures'
  BY <1>1 DEF TInv, Remembered, ThumbsShowTheirPictures
<1>7. (preview # None => preview.time <= dirTime)' /\ FolderFollowsItsFirst'
  BY <1>1 DEF TInv, ThumbTypes, FolderFollowsItsFirst
<1> QED
  BY <1>2, <1>3, <1>5, <1>6, <1>7 DEF TInv

LEMMA LandStep ==
  ASSUME TInv, NEW h \in Handler, NEW n \in Name, NEW p \in Picture, NEW t \in Nat, NEW u \in BOOLEAN,
         Land(h, n, p, t, u), trash' \in [Name -> Dating \cup {None}]
  PROVE  TInv'
<1> DEFINE q == [NoThumb EXCEPT !.pc = "date", !.name = n, !.time = t, !.upload = u]
           f == [pic |-> p, date |-> Now]
<1>1. /\ Becomes(n, f) /\ dirTime' = dirTime + 1 /\ drawing' = [drawing EXCEPT ![h] = q]
      /\ UNCHANGED <<hashes, preview, thumbs, sure>> /\ DOMAIN drawing = Handler
  BY DEF Land, TInv, ThumbTypes
<1>2. DOMAIN q = DOMAIN NoThumb /\ q.pc = "date" /\ q.name = n /\ q.time = t /\ q.late = FALSE
  BY DEF NoThumb
<1>3. f \in Dating
  BY ThumbsAssumption DEF Dating
<1> HIDE DEF q, f
<1>4. drawing'[h] = q
  BY <1>1
<1>5. ThumbRequest(q)
  BY <1>2 DEF ThumbRequest, Seeing
<1>6. ThumbRequest(drawing'[h]) /\ drawing'[h].pc \in {"date", "invalidate"}
  BY <1>2, <1>4, <1>5
<1> QED
  BY <1>1, <1>3, <1>6, BecomesStep

LEMMA UploadStep ==
  ASSUME TInv, NEW h \in Handler, NEW n \in Name, NEW p \in Picture, NEW t \in Date, NEW u \in BOOLEAN, Upload(h, n, p, t, u)
  PROVE  TInv'
<1>1. t \in Nat
  BY ThumbsAssumption DEF Date
<1>2. trash' \in [Name -> Dating \cup {None}]
  BY DEF Upload, TInv, ThumbTypes
<1> QED
  BY <1>1, <1>2, LandStep DEF Upload

LEMMA ReplaceStep == ASSUME TInv, NEW h \in Handler, NEW n \in Name, NEW p \in Picture, Replace(h, n, p) PROVE TInv'
<1>1. files[n] \in Dating
  BY DEF Replace, TInv, ThumbTypes
<1>2. files[n].date \in Nat
  BY <1>1 DEF Dating
<1>3. trash' \in [Name -> Dating \cup {None}]
  BY <1>1 DEF Replace, TInv, ThumbTypes
<1> QED
  BY <1>2, <1>3, LandStep DEF Replace

\* The handler of a delete or a restore goes on to invalidate the folder.
LEMMA ToInvalidate ==
  ASSUME TInv, NEW h \in Handler, drawing[h].pc = "idle", drawing' = [drawing EXCEPT ![h].pc = "invalidate"]
  PROVE  /\ DOMAIN drawing' = Handler /\ \A g \in Handler \ {h} : drawing'[g] = drawing[g]
         /\ ThumbRequest(drawing'[h]) /\ drawing'[h].pc \in {"date", "invalidate"}
<1> DEFINE r == drawing[h]
           x == [r EXCEPT !.pc = "invalidate"]
<1>1. /\ DOMAIN drawing = Handler /\ ThumbRequest(r) /\ drawing' = [drawing EXCEPT ![h] = x]
      /\ DOMAIN r = {"pc", "name", "file", "hash", "time", "upload", "late"}
  BY NoThumbIsARequest DEF TInv, ThumbTypes, ThumbRequest
<1>2. DOMAIN x = DOMAIN r /\ x.pc = "invalidate" /\ x.late = r.late
  BY <1>1
<1> HIDE DEF x
<1>3. drawing'[h] = x
  BY <1>1
<1>4. ThumbRequest(x)
  BY <1>1, <1>2 DEF ThumbRequest, Seeing
<1> QED
  BY <1>1, <1>2, <1>3, <1>4

LEMMA DeletePictureStep == ASSUME TInv, NEW h \in Handler, NEW n \in Name, DeletePicture(h, n) PROVE TInv'
<1>1. trash' \in [Name -> Dating \cup {None}]
  BY DEF DeletePicture, TInv, ThumbTypes
<1>2. /\ DOMAIN drawing' = Handler /\ \A g \in Handler \ {h} : drawing'[g] = drawing[g]
      /\ ThumbRequest(drawing'[h]) /\ drawing'[h].pc \in {"date", "invalidate"}
  BY ToInvalidate DEF DeletePicture
<1> QED
  BY <1>1, <1>2, BecomesStep DEF DeletePicture

LEMMA RestorePictureStep == ASSUME TInv, NEW h \in Handler, NEW n \in Name, RestorePicture(h, n) PROVE TInv'
<1>1. trash' \in [Name -> Dating \cup {None}] /\ trash[n] \in Dating
  BY DEF RestorePicture, TInv, ThumbTypes
<1>2. /\ DOMAIN drawing' = Handler /\ \A g \in Handler \ {h} : drawing'[g] = drawing[g]
      /\ ThumbRequest(drawing'[h]) /\ drawing'[h].pc \in {"date", "invalidate"}
  BY ToInvalidate DEF RestorePicture
<1> QED
  BY <1>1, <1>2, BecomesStep DEF RestorePicture

\* A date changes: the walks that are over know, and either the handler is yet to invalidate the
\* folder or nobody is sure of the folder's picture.
LEMMA DatedStep ==
  ASSUME TInv, NEW h \in Handler, NEW n \in Name, NEW t \in Nat, NEW pc \in {"idle", "invalidate"}, Dated(h, n, t, pc),
         files[n] # None, UNCHANGED <<trash, dirTime, hashes, preview, thumbs, replaced>>,
         sure' \in BOOLEAN, sure' => pc = "invalidate"
  PROVE  TInv'
<1> DEFINE f == [files[n] EXCEPT !.date = t]
           q == [NoThumb EXCEPT !.pc = pc]
<1>1. files \in [Name -> Dating \cup {None}] /\ files[n] \in Dating /\ files' = [files EXCEPT ![n] = f]
  BY DEF TInv, ThumbTypes, Dated
<1>2. f \in Dating /\ f.pic = files[n].pic
  BY <1>1 DEF Dating
<1>3. /\ drawing' = [g \in Handler |-> IF g = h THEN q
                                       ELSE [drawing[g] EXCEPT !.late = @ \/ drawing[g].pc = "store"]]
  BY DEF Dated
<1>4. DOMAIN q = DOMAIN NoThumb /\ q.pc = pc /\ q.late = FALSE
  BY DEF NoThumb
<1> HIDE DEF q, f
<1>5. drawing'[h] = q
  BY <1>3
<1>6. ThumbRequest(drawing'[h]) /\ Pictured(drawing[h])' /\ Hashed(drawing[h])' /\ Walked(drawing[h])'
  <2>1. ThumbRequest(q)
    BY <1>4 DEF ThumbRequest, Seeing
  <2>2. ThumbRequest(drawing'[h])
    BY <1>5, <2>1
  <2> QED
    BY <1>4, <1>5, <2>2 DEF Pictured, Hashed, Walked, Seeing
<1>7. ASSUME NEW g \in Handler \ {h}
      PROVE  ThumbRequest(drawing'[g]) /\ Pictured(drawing[g])' /\ Hashed(drawing[g])' /\ Walked(drawing[g])'
  <2> DEFINE r == drawing[g]
             x == [r EXCEPT !.late = @ \/ r.pc = "store"]
  <2>1. /\ ThumbRequest(r) /\ Pictured(r) /\ Hashed(r) /\ Walked(r)
        /\ DOMAIN r = {"pc", "name", "file", "hash", "time", "upload", "late"}
    BY NoThumbIsARequest DEF TInv, ThumbTypes, ThumbRequest
  <2>2. /\ DOMAIN x = DOMAIN r /\ x.pc = r.pc /\ x.name = r.name /\ x.file = r.file /\ x.hash = r.hash /\ x.time = r.time
        /\ x.late = (r.late \/ r.pc = "store")
    BY <2>1
  <2>3. drawing'[g] = x
    BY <1>3
  <2> HIDE DEF x
  <2>4. ThumbRequest(x)
    BY <2>1, <2>2 DEF ThumbRequest, Seeing
  <2>5. ThumbRequest(drawing'[g])
    BY <2>3, <2>4
  <2>6. Pictured(drawing[g])'
    <3>1. Seeing(r) => r.name \in Name /\ files'[r.name].pic = files[r.name].pic
                       /\ (files[r.name] = None => r.name # n)
      BY <1>1, <1>2, <2>1 DEF ThumbRequest
    <3>2. Seeing(r) => (files[r.name] = None => files'[r.name] = None)
      BY <1>1, <3>1
    <3> QED
      BY <2>1, <2>2, <2>3, <3>1, <3>2 DEF Pictured, Seeing
  <2>7. Hashed(drawing[g])' /\ Walked(drawing[g])'
    BY <2>1, <2>2, <2>3 DEF Hashed, Walked
  <2> QED
    BY <2>5, <2>6, <2>7
<1>8. (\A g \in Handler : ThumbRequest(drawing[g]))'
  <2>1. \A g \in Handler : ThumbRequest(drawing'[g])
    BY <1>6, <1>7
  <2> QED
    BY <2>1 DEF ThumbRequest, Seeing
<1>9. DOMAIN drawing' = Handler
  BY <1>3
<1>10. files' \in [Name -> Dating \cup {None}]
  BY <1>1, <1>2
<1>11. ThumbTypes'
  BY <1>8, <1>9, <1>10 DEF TInv, ThumbTypes
<1>12. Remembered' /\ ThumbsShowTheirPictures' /\ (preview # None => preview.time <= dirTime)'
  BY DEF TInv, Remembered, ThumbsShowTheirPictures
<1>13. FolderFollowsItsFirst'
  BY <1>4, <1>5 DEF FolderFollowsItsFirst
<1> QED
  BY <1>6, <1>7, <1>11, <1>12, <1>13 DEF TInv

LEMMA EditDateStep ==
  ASSUME TInv, NEW h \in Handler, NEW n \in Name, NEW t \in Date, EditDate(h, n, t) PROVE TInv'
<1>1. t \in Nat
  BY ThumbsAssumption DEF Date
<1>2. sure' \in BOOLEAN
  BY DEF EditDate, TInv, ThumbTypes
<1> QED
  BY <1>1, <1>2, DatedStep DEF EditDate

LEMMA ChtimesStep == ASSUME TInv, NEW h \in Handler, Chtimes(h) PROVE TInv'
<1> DEFINE r == drawing[h]
<1>1. PICK pc \in {"idle", "invalidate"} :
        /\ pc = "idle" <=> r.upload
        /\ \/ files[r.name] # None /\ Dated(h, r.name, r.time, pc)
           \/ drawing' = [drawing EXCEPT ![h] = [NoThumb EXCEPT !.pc = pc]] /\ UNCHANGED files
  BY DEF Chtimes
<1>2. /\ r.pc = "date" /\ r.name \in Name /\ r.time \in Nat /\ DOMAIN drawing = Handler
      /\ UNCHANGED <<trash, dirTime, hashes, preview, thumbs, replaced>>
      /\ sure' = (sure /\ ~r.upload)
  BY DEF Chtimes, TInv, ThumbTypes, ThumbRequest
<1>3. sure' \in BOOLEAN /\ (sure' => sure /\ pc = "invalidate")
  BY <1>1, <1>2
<1>4. CASE files[r.name] # None /\ Dated(h, r.name, r.time, pc)
  BY <1>2, <1>3, <1>4, DatedStep
<1>5. CASE drawing' = [drawing EXCEPT ![h] = [NoThumb EXCEPT !.pc = pc]] /\ UNCHANGED files
  <2> DEFINE q == [NoThumb EXCEPT !.pc = pc]
  <2>1. DOMAIN q = DOMAIN NoThumb /\ q.pc = pc /\ q.late = FALSE
    BY DEF NoThumb
  <2>2. drawing' = [drawing EXCEPT ![h] = q]
    BY <1>5
  <2> HIDE DEF q
  <2>3. drawing'[h] = q
    BY <1>2, <2>2
  <2>4. ThumbRequest(q)
    BY <2>1 DEF ThumbRequest, Seeing
  <2>5. ThumbRequest(drawing'[h])
    BY <2>3, <2>4
  <2>6. Pictured(drawing[h])' /\ Hashed(drawing[h])' /\ Walked(drawing[h])'
    BY <2>1, <2>3 DEF Pictured, Hashed, Walked, Seeing
  <2>7. /\ (\A g \in Handler : ThumbRequest(drawing[g]))'
        /\ \A g \in Handler : Pictured(drawing[g])' /\ Hashed(drawing[g])' /\ Walked(drawing[g])'
    BY <1>2, <1>5, <2>2, <2>5, <2>6, OthersSeeTheSame
  <2>8. ThumbTypes'
    BY <1>2, <1>3, <1>5, <2>7 DEF TInv, ThumbTypes
  <2>9. Remembered' /\ ThumbsShowTheirPictures' /\ (preview # None => preview.time <= dirTime)'
    BY <1>2 DEF TInv, Remembered, ThumbsShowTheirPictures
  <2>10. FolderFollowsItsFirst'
    BY <1>3, <2>1, <2>3 DEF FolderFollowsItsFirst
  <2> QED
    BY <2>7, <2>8, <2>9, <2>10 DEF TInv
<1> QED
  BY <1>1, <1>4, <1>5

LEMMA ThumbsRestartStep == ASSUME TInv, ThumbsRestart PROVE TInv'
<1>1. /\ drawing' = [h \in Handler |-> NoThumb] /\ hashes' = [n \in Name |-> None] /\ preview' = None
      /\ UNCHANGED <<files, trash, dirTime, thumbs, replaced, sure>>
  BY DEF ThumbsRestart
<1>2. \A g \in Handler : ThumbRequest(drawing'[g]) /\ Pictured(drawing[g])' /\ Hashed(drawing[g])' /\ Walked(drawing[g])'
  BY <1>1, ThumbEnds
<1>3. (\A g \in Handler : ThumbRequest(drawing[g]))'
  BY <1>2 DEF ThumbRequest, Seeing
<1>4. ThumbTypes'
  BY <1>1, <1>3 DEF TInv, ThumbTypes
<1>5. Remembered' /\ ThumbsShowTheirPictures' /\ FolderFollowsItsFirst'
  BY <1>1 DEF TInv, Remembered, ThumbsShowTheirPictures, FolderFollowsItsFirst
<1> QED
  BY <1>1, <1>2, <1>4, <1>5 DEF TInv

LEMMA ThumbsInitTInv == ThumbsInit => TInv
<1> SUFFICES ASSUME ThumbsInit PROVE TInv
  OBVIOUS
<1>1. \A g \in Handler : drawing[g] = NoThumb
  BY DEF ThumbsInit
<1>2. files \in [Name -> Dating \cup {None}]
  <2>1. [pic : Picture, date : Date] \subseteq Dating
    BY ThumbsAssumption DEF Date, Dating
  <2> QED
    BY <2>1 DEF ThumbsInit
<1>3. ThumbTypes
  BY <1>1, <1>2, NoThumbIsARequest DEF ThumbsInit, ThumbTypes
<1>4. \A g \in Handler : Pictured(drawing[g]) /\ Hashed(drawing[g]) /\ Walked(drawing[g])
  BY <1>1, NoThumbIsARequest DEF Pictured, Hashed, Walked, Seeing
<1>5. Remembered /\ ThumbsShowTheirPictures /\ FolderFollowsItsFirst /\ preview = None
  BY DEF ThumbsInit, Remembered, ThumbsShowTheirPictures, FolderFollowsItsFirst
<1> QED
  BY <1>3, <1>4, <1>5 DEF TInv

LEMMA ThumbsUnchanged == TInv /\ UNCHANGED thumbsVars => TInv'
<1> SUFFICES ASSUME TInv, UNCHANGED thumbsVars PROVE TInv'
  OBVIOUS
<1>1. UNCHANGED <<files, trash, dirTime, hashes, preview, thumbs, drawing, replaced, sure>>
  BY DEF thumbsVars
<1>2. (\A g \in Handler : ThumbRequest(drawing[g]))'
  <2>1. \A g \in Handler : ThumbRequest(drawing'[g])
    BY <1>1 DEF TInv, ThumbTypes
  <2> QED
    BY <2>1 DEF ThumbRequest, Seeing
<1>3. ThumbTypes'
  BY <1>1, <1>2 DEF TInv, ThumbTypes
<1>4. \A g \in Handler : Pictured(drawing[g])' /\ Hashed(drawing[g])' /\ Walked(drawing[g])'
  BY <1>1, FirstStays DEF TInv, Pictured, Hashed, Walked, Seeing
<1>5. Remembered' /\ FolderFollowsItsFirst' /\ ThumbsShowTheirPictures'
  BY <1>1, FirstStays DEF TInv, Remembered, FolderFollowsItsFirst, ThumbsShowTheirPictures
<1> QED
  BY <1>1, <1>3, <1>4, <1>5 DEF TInv

LEMMA ThumbsStep == TInv /\ ThumbsNext => TInv'
<1> SUFFICES ASSUME TInv, ThumbsNext PROVE TInv'
  OBVIOUS
<1>1. ASSUME NEW h \in Handler,
             \/ ThumbOfFolder(h) \/ LookUpChild(h) \/ FindThumbable(h) \/ StoreChild(h) \/ StatChild(h)
             \/ ContentHash(h) \/ StoreHash(h) \/ Ensure(h) \/ Generate(h)
             \/ Chtimes(h) \/ Invalidate(h)
      PROVE  TInv'
  BY <1>1, ThumbOfFolderStep, LookUpChildStep, FindThumbableStep, StoreChildStep, StatChildStep, ContentHashStep,
     StoreHashStep, EnsureStep, GenerateStep, ChtimesStep, InvalidateStep
<1>2. ASSUME NEW h \in Handler, NEW n \in Name,
             \/ ThumbOfFile(h, n) \/ DeletePicture(h, n) \/ RestorePicture(h, n)
             \/ \E t \in Date : EditDate(h, n, t)
             \/ \E p \in Picture : Replace(h, n, p) \/ \E t \in Date, u \in BOOLEAN : Upload(h, n, p, t, u)
      PROVE  TInv'
  BY <1>2, ThumbOfFileStep, DeletePictureStep, RestorePictureStep, EditDateStep, ReplaceStep, UploadStep
<1> QED
  BY <1>1, <1>2, ThumbsRestartStep, CollectStep DEF ThumbsNext

LEMMA ThumbsHold == ServerSpec => []TInv
<1>1. Init => TInv
  BY ThumbsInitTInv DEF Init
<1>2. TInv /\ [Next]_serverVars => TInv'
  <2>1. ASSUME Next PROVE ThumbsNext \/ UNCHANGED thumbsVars
    BY <2>1 DEF Next
  <2>2. ASSUME UNCHANGED serverVars PROVE UNCHANGED thumbsVars
    BY <2>2 DEF serverVars
  <2> QED
    BY <2>1, <2>2, ThumbsStep, ThumbsUnchanged
<1> QED
  BY <1>1, <1>2, PTL DEF ServerSpec

\* A cached thumbnail shows the picture whose hash names it (thumbs.go), whatever was uploaded, edited,
\* deleted and restored while it was drawn: for any number of requests, names, pictures and dates.
THEOREM ThumbsAreTrue == ServerSpec => []ThumbsShowTheirPictures
BY ThumbsHold, PTL DEF TInv

\* The picture remembered for a folder is its newest child (folderChild, invalidateFolder), when no
\* change of a date is on its way and no upload gave one: for any number of requests, names and dates.
THEOREM FolderShowsItsFirst == ServerSpec => []FolderFollowsItsFirst
BY ThumbsHold, PTL DEF TInv
=============================================================================
