-------------------------- MODULE BucketMoveProofs --------------------------
(***************************************************************************)
(* Nothing is lost in a move between folders of buckets and the drive, for *)
(* any folders, any number of names, requests and faults, and any length   *)
(* at which a listing is cut; and a request that met no other did all of   *)
(* its work before it said so.                                             *)
(*                                                                         *)
(* A move copies before it deletes, but it lists twice: what the second    *)
(* listing returns was copied after the first because the folder keeps     *)
(* its keys in between, unless another request was at work there, and then *)
(* everything there is exposed.                                            *)
(***************************************************************************)
EXTENDS Server, FiniteSetTheorems, TLAPS

----------------------------------------------------------------------------
(* The inductive invariant *)

\* The contents the property speaks of.
Care == wanted \ exposed

\* Two requests at work in one folder.
Uses(h) == {moving[h].from, moving[h].to} \ {None}
Overlap(g, h) == g # h /\ Uses(g) \cap Uses(h) # {}

\* Nothing in these folders is cared for.
Quiet(F) == \A k \in Key : k[1] \in F => store[k] \notin Care

\* A request is of one kind, and at a step of its kind.
MoveType(r) ==
  /\ DOMAIN r = DOMAIN NoMove
  /\ r.todo \subseteq Key /\ r.name \in 0 .. Names /\ r.met \in BOOLEAN
  /\ \/ r.op = "none" /\ r.pc = "idle" /\ r.from = None /\ r.to = None
     \/ /\ r.op \in {"move", "copy"} /\ r.from \in Folder /\ r.to \in Folder /\ r.from # r.to
        /\ \/ r.pc \in {"stat", "copy"}
           \/ r.pc = "walk" /\ r.from \in Drive
           \/ r.pc \in {"head", "list"} /\ r.from \notin Drive
           \/ r.op = "move" /\ r.pc = "remove all" /\ r.from \in Drive
           \/ r.op = "move" /\ r.pc \in {"head again", "list again", "delete"} /\ r.from \notin Drive
     \/ r.op = "delete" /\ r.from \in Folder \ Drive /\ r.to = None /\ r.pc \in {"head", "list", "delete"}
     \/ r.op = "upload" /\ r.from = None /\ r.to \in Folder \ Drive /\ r.pc \in {"probe", "put"}
  /\ r.pc \notin {"copy", "delete"} => r.todo = {}
  /\ \A k \in r.todo : k[1] = r.from

Types ==
  /\ made \in 2 .. MaxWrites + 2
  /\ store \in [Key -> 1 .. made \cup {None}]
  /\ wanted \subseteq 1 .. made
  /\ exposed \subseteq 1 .. made
  /\ DOMAIN moving = Handler /\ \A h \in Handler : MoveType(moving[h])

\* Where two requests are at work nothing is cared for: what was there is exposed, and so is what
\* comes there.
Apart == \A g, h \in Handler : Overlap(g, h) => Quiet(Uses(g) \cup Uses(h))

\* A listing that is cut short ends before the n-th name of the folder.
Before(f, n) == {m \in 1 .. Names : m < n /\ store[<<f, m>>] # None}
Beyond(f, n) == f \notin Drive /\ n # 0 /\ MaxS3Objects <= Cardinality(Before(f, n))

Copied1(r, n) == store[<<r.to, n>>] = store[<<r.from, n>>]

\* What a move or copy may do next harms nothing that is cared for: it writes over nothing but its
\* own copies; and what the folder it empties holds is still to be copied, is copied, or is not
\* going to be deleted, being beyond the listing or beside a file of the folder's name.
Harmless(r) ==
  /\ r.pc \in {"head", "list", "walk"} => Quiet({r.to})
  /\ r.pc = "list" => store[Self(r.from)] \notin Care
  /\ r.pc = "copy" => \A n \in 0 .. Names : store[<<r.to, n>>] \in Care => Copied1(r, n)
  /\ r.pc \in {"copy", "head again", "list again", "remove all"} =>
       \A n \in 0 .. Names : store[<<r.from, n>>] \in Care =>
         \/ <<r.from, n>> \in r.todo
         \/ Copied1(r, n)
         \/ Beyond(r.from, n)
         \/ n # 0 /\ r.from \notin Drive /\ r.pc # "list again" /\ store[Self(r.from)] # None
  /\ r.pc = "delete" =>
       \A n \in 0 .. Names : <<r.from, n>> \in r.todo /\ store[<<r.from, n>>] \in Care => Copied1(r, n)

Safe(r) ==
  /\ r.op \in {"move", "copy"} => Harmless(r)
  /\ r.pc = "put" => store[<<r.to, r.name>>] \notin Care

BInv == Types /\ Apart /\ (\A h \in Handler : Safe(moving[h])) /\ NothingLost

----------------------------------------------------------------------------
(* Keys and requests *)

LEMMA Keys ==
  /\ \A k \in Key : k[1] \in Folder /\ k[2] \in 0 .. Names /\ k = <<k[1], k[2]>>
  /\ \A f \in Folder : \A n \in 0 .. Names : <<f, n>> \in Key /\ <<f, n>>[1] = f /\ <<f, n>>[2] = n
  /\ \A f, g, m, n : <<f, m>> = <<g, n>> <=> f = g /\ m = n
  /\ \A f \in Folder : Self(f) \in Key /\ Self(f) = <<f, 0>>
  /\ 0 \in 0 .. Names
BY BucketAssumption DEF Key, Self

LEMMA NoMoveType == MoveType(NoMove) /\ NoMove.pc = "idle" /\ NoMove.op = "none"
BY BucketAssumption DEF MoveType, NoMove

\* The other requests go on as they were; they may have met one.
Alike(r, s) ==
  /\ DOMAIN r = DOMAIN NoMove
  /\ r.op = s.op /\ r.pc = s.pc /\ r.from = s.from /\ r.to = s.to /\ r.name = s.name
  /\ r.todo = s.todo /\ r.began = s.began
  /\ r.met \in BOOLEAN /\ (s.met => r.met)
OthersGoOn(h) == DOMAIN moving' = Handler /\ \A g \in Handler \ {h} : Alike(moving'[g], moving[g])

LEMMA AlikeItself == ASSUME NEW r, MoveType(r) PROVE Alike(r, r)
BY DEF MoveType, Alike

LEMMA AlikeType == ASSUME NEW r, NEW s, MoveType(s), Alike(r, s) PROVE MoveType(r)
BY DEF MoveType, Alike

\* A request that goes on.
LEMMA GotoFields ==
  ASSUME Types, NEW h \in Handler, NEW pc, NEW todo, Goto(h, pc, todo)
  PROVE  /\ OthersGoOn(h)
         /\ DOMAIN moving'[h] = DOMAIN NoMove
         /\ moving'[h].pc = pc /\ moving'[h].todo = todo
         /\ moving'[h].op = moving[h].op /\ moving'[h].from = moving[h].from
         /\ moving'[h].to = moving[h].to /\ moving'[h].name = moving[h].name
         /\ moving'[h].began = moving[h].began /\ moving'[h].met = moving[h].met
<1>1. DOMAIN moving = Handler /\ DOMAIN moving[h] = DOMAIN NoMove
  BY DEF Types, MoveType
<1> DEFINE r == moving[h]
           x == [[r EXCEPT !.pc = pc] EXCEPT !.todo = todo]
<1>2. moving' = [moving EXCEPT ![h] = x]
  BY <1>1 DEF Goto
<1>3. /\ DOMAIN x = DOMAIN NoMove /\ x.pc = pc /\ x.todo = todo /\ x.op = r.op /\ x.from = r.from
      /\ x.to = r.to /\ x.name = r.name /\ x.began = r.began /\ x.met = r.met
  BY <1>1 DEF NoMove
<1> HIDE DEF x
<1>4. OthersGoOn(h)
  BY <1>1, <1>2, AlikeItself DEF OthersGoOn, Types
<1> QED
  BY <1>1, <1>2, <1>3, <1>4

\* A request that ends.
LEMMA FailFields ==
  ASSUME Types, NEW h \in Handler, Fail(h)
  PROVE  OthersGoOn(h) /\ moving'[h] = NoMove
BY AlikeItself DEF Fail, OthersGoOn, Types

\* A request that stays where it is.
LEMMA StayFields ==
  ASSUME Types, NEW h \in Handler, UNCHANGED moving
  PROVE  OthersGoOn(h)
BY AlikeItself DEF OthersGoOn, Types

\* A request that begins, and a write of one step.
LEMMA MeetFields ==
  ASSUME Types, NEW h \in Handler, NEW F, NEW r, DOMAIN r = DOMAIN NoMove, Meet(h, F, r)
  PROVE  /\ OthersGoOn(h)
         /\ \A g \in Beside(h, F) : moving'[g].met
         /\ DOMAIN moving'[h] = DOMAIN NoMove
         /\ moving'[h].pc = r.pc /\ moving'[h].todo = r.todo /\ moving'[h].op = r.op
         /\ moving'[h].from = r.from /\ moving'[h].to = r.to /\ moving'[h].name = r.name
         /\ moving'[h].began = r.began
         /\ moving'[h].met = (r # NoMove /\ Beside(h, F) # {})
<1>1. DOMAIN moving = Handler /\ \A g \in Handler : MoveType(moving[g])
  BY DEF Types
<1> DEFINE b == r # NoMove /\ Beside(h, F) # {}
           x == [r EXCEPT !.met = b]
           y(g) == [moving[g] EXCEPT !.met = @ \/ g \in Beside(h, F)]
<1>2. moving' = [g \in Handler |-> IF g = h THEN x ELSE y(g)]
  BY DEF Meet
<1>3. /\ DOMAIN x = DOMAIN NoMove /\ x.pc = r.pc /\ x.todo = r.todo /\ x.op = r.op /\ x.from = r.from
      /\ x.to = r.to /\ x.name = r.name /\ x.began = r.began
  BY DEF NoMove
<1>4. x.met = b
  <2> HIDE DEF b
  <2> QED
    BY DEF NoMove
<1>5. ASSUME NEW g \in Handler
      PROVE  Alike(y(g), moving[g]) /\ (g \in Beside(h, F) => y(g).met)
  <2> DEFINE c == g \in Beside(h, F)
             m == moving[g].met \/ c
  <2>1. DOMAIN moving[g] = DOMAIN NoMove /\ moving[g].met \in BOOLEAN
    BY <1>1 DEF MoveType
  <2>2. m \in BOOLEAN /\ (moving[g].met => m) /\ (c => m)
    OBVIOUS
  <2>3. y(g) = [moving[g] EXCEPT !.met = m]
    OBVIOUS
  <2> HIDE DEF m, c, y
  <2>4. /\ DOMAIN y(g) = DOMAIN NoMove /\ y(g).met = m
        /\ y(g).op = moving[g].op /\ y(g).pc = moving[g].pc /\ y(g).from = moving[g].from
        /\ y(g).to = moving[g].to /\ y(g).name = moving[g].name /\ y(g).todo = moving[g].todo
        /\ y(g).began = moving[g].began
    BY <2>1, <2>3 DEF NoMove
  <2>5. Alike(y(g), moving[g])
    BY <2>2, <2>4 DEF Alike
  <2> QED
    BY <2>2, <2>4, <2>5 DEF c
<1> HIDE DEF x, y, b
<1>6. moving'[h] = x /\ \A g \in Handler \ {h} : moving'[g] = y(g)
  BY <1>2
<1>7. OthersGoOn(h)
  BY <1>2, <1>5, <1>6 DEF OthersGoOn
<1>8. \A g \in Beside(h, F) : moving'[g].met
  BY <1>5, <1>6 DEF Beside
<1> QED
  BY <1>3, <1>4, <1>6, <1>7, <1>8 DEF b

----------------------------------------------------------------------------
(* What a step does to the requests of others *)

\* Nothing comes here that is cared for.
Kept(k) == store'[k] \in Care' => store[k] \in Care

\* Nothing that is cared for comes here or goes.
Settled(k) ==
  /\ store[k] \in Care' => store[k] \in Care
  /\ store'[k] = store[k] \/ (store[k] \notin Care' /\ store'[k] \notin Care' /\ store'[k] # None)

\* The steps of one request, seen by the others.
Mild(h) ==
  \A g \in Handler \ {h}, k \in Key :
    /\ Overlap(g, h) => Kept(k)
    /\ ~Overlap(g, h) /\ k[1] \in Uses(g) => Settled(k)

LEMMA NoneIsNoContent == Types => None \notin Care
<1>1. ASSUME Types PROVE Care \subseteq 1 .. MaxWrites + 2
  BY <1>1, BucketAssumption DEF Types, Care
<1> QED
  BY <1>1, BucketAssumption

LEMMA TypesKept ==
  ASSUME Types, NEW h \in Handler, OthersGoOn(h), MoveType(moving'[h]),
         made' \in 2 .. MaxWrites + 2, store' \in [Key -> 1 .. made' \cup {None}],
         wanted' \subseteq 1 .. made', exposed' \subseteq 1 .. made'
  PROVE  Types'
<1>1. ASSUME NEW g \in Handler PROVE MoveType(moving'[g])
  BY AlikeType DEF Types, OthersGoOn
<1>2. DOMAIN moving' = Handler
  BY DEF OthersGoOn
<1>3. \A g \in Handler : MoveType(moving'[g])
  BY <1>1
<1>4. (\A g \in Handler : MoveType(moving[g]))'
  BY <1>3 DEF MoveType
<1> QED
  BY <1>2, <1>4 DEF Types

\* A request for which nothing there is cared for.
LEMMA SafeIfQuiet ==
  ASSUME NEW r, MoveType(r), Quiet({r.from, r.to} \ {None})
  PROVE  Safe(r)
<1>1. \A f \in {r.from, r.to} \ {None} : \A n \in 0 .. Names : f \in Folder => store[<<f, n>>] \notin Care
  BY Keys DEF Quiet
<1>2. CASE r.op \in {"move", "copy"}
  <2>1. /\ r.from \in Folder /\ r.to \in Folder /\ r.from # None /\ r.to # None
        /\ r.pc \in {"stat", "copy", "walk", "head", "list", "remove all", "head again", "list again", "delete"}
    BY <1>2, BucketAssumption DEF MoveType
  <2>2. Quiet({r.to}) /\ store[Self(r.from)] \notin Care
    BY <1>1, <2>1, Keys, ZenonT(40) DEF Quiet
  <2>3. \A n \in 0 .. Names : store[<<r.from, n>>] \notin Care /\ store[<<r.to, n>>] \notin Care
    BY <1>1, <2>1
  <2> QED
    BY <2>1, <2>2, <2>3 DEF Safe, Harmless
<1>3. CASE r.op \notin {"move", "copy"}
  <2>1. r.pc = "put" => r.to \in Folder /\ r.to # None /\ r.name \in 0 .. Names
    BY <1>3, BucketAssumption DEF MoveType
  <2> QED
    BY <1>1, <1>3, <2>1 DEF Safe
<1> QED
  BY <1>2, <1>3

LEMMA QuietIsSafe == \A r : MoveType(r) /\ Quiet({r.from, r.to} \ {None}) => Safe(r)
BY SafeIfQuiet

\* Names that are taken stay taken: what was beyond the listing stays there.
LEMMA BeyondStays ==
  ASSUME NEW f, NEW n, \A m \in 1 .. Names : store[<<f, m>>] # None => store'[<<f, m>>] # None, Beyond(f, n)
  PROVE  Beyond(f, n)'
<1>1. Before(f, n) \subseteq Before(f, n)' /\ Before(f, n)' \subseteq 1 .. Names
  BY DEF Before
<1>2. IsFiniteSet(1 .. Names)
  <2>1. 1 \in Int /\ Names \in Int
    BY BucketAssumption
  <2> QED
    BY <2>1, FS_Interval
<1>3. IsFiniteSet(Before(f, n)')
  BY <1>1, <1>2, FS_Subset
<1>4. /\ Cardinality(Before(f, n)) \in Nat /\ Cardinality(Before(f, n)') \in Nat
      /\ Cardinality(Before(f, n)) <= Cardinality(Before(f, n)')
  BY <1>1, <1>3, FS_Subset, FS_CardinalityType
<1> DEFINE a == Cardinality(Before(f, n))
           b == Cardinality(Before(f, n)')
<1>5. f \notin Drive /\ n # 0 /\ MaxS3Objects <= a
  BY DEF Beyond
<1>6. a \in Nat /\ b \in Nat /\ a <= b
  BY <1>4
<1> HIDE DEF a, b
<1>7. MaxS3Objects <= b
  BY <1>5, <1>6, BucketAssumption
<1> QED
  BY <1>5, <1>7 DEF b, Beyond

\* A request stays safe while its folders are settled.
LEMMA SafeIfSettled ==
  ASSUME Types, Types', NEW r, NEW s, MoveType(r), Alike(s, r), Safe(r),
         \A k \in Key : k[1] \in {r.from, r.to} \ {None} => Settled(k)
  PROVE  Safe(s)'
<1>1. MoveType(s)
  BY AlikeType
<1>2. /\ s.op = r.op /\ s.pc = r.pc /\ s.from = r.from /\ s.to = r.to /\ s.name = r.name /\ s.todo = r.todo
  BY DEF Alike
<1>3. \A f \in {r.from, r.to} \cap Folder : \A n \in 0 .. Names : Settled(<<f, n>>)
  BY Keys, BucketAssumption
<1>4. \A f \in {r.from, r.to} \cap Folder : Quiet({f}) => Quiet({f})'
  BY BucketAssumption DEF Quiet, Settled
<1>5. CASE r.op \in {"move", "copy"}
  <2> DEFINE f == r.from
             t == r.to
  <2>1. f \in {r.from, r.to} \cap Folder /\ t \in {r.from, r.to} \cap Folder
    BY <1>5 DEF MoveType
  <2>2. Harmless(r)
    BY <1>5 DEF Safe
  <2>3. \A n \in 0 .. Names : Settled(<<f, n>>) /\ Settled(<<t, n>>)
    BY <1>3, <2>1
  <2>4. ASSUME NEW n \in 0 .. Names, store'[<<f, n>>] \in Care' \/ store'[<<t, n>>] \in Care', Copied1(r, n)
        PROVE  Copied1(s, n)'
    BY <1>2, <2>3, <2>4 DEF Settled, Copied1
  <2>5. \A n \in 0 .. Names : /\ store'[<<f, n>>] \in Care' => store[<<f, n>>] \in Care
                              /\ store'[<<t, n>>] \in Care' => store[<<t, n>>] \in Care
    BY <2>3 DEF Settled
  <2>6. \A m \in 0 .. Names : store[<<f, m>>] # None => store'[<<f, m>>] # None
    BY <2>3 DEF Settled
  <2>7. \A n \in 0 .. Names : Beyond(f, n) => Beyond(f, n)'
    BY <2>6, BeyondStays
  <2>8. /\ s.pc \in {"head", "list", "walk"} => Quiet({t})'
        /\ s.pc = "list" => store'[<<f, 0>>] \notin Care'
    BY <1>2, <1>4, <2>1, <2>2, <2>5, Keys DEF Harmless, Self
  <2>9. s.pc = "copy" => \A n \in 0 .. Names : store'[<<t, n>>] \in Care' => Copied1(s, n)'
    BY <1>2, <2>2, <2>4, <2>5 DEF Harmless
  <2>10. ASSUME s.pc \in {"copy", "head again", "list again", "remove all"},
                NEW n \in 0 .. Names, store'[<<f, n>>] \in Care'
         PROVE  \/ <<f, n>> \in s.todo
                \/ Copied1(s, n)'
                \/ Beyond(f, n)'
                \/ n # 0 /\ f \notin Drive /\ s.pc # "list again" /\ store'[<<f, 0>>] # None
    <3>1. \/ <<f, n>> \in r.todo
          \/ Copied1(r, n)
          \/ Beyond(f, n)
          \/ n # 0 /\ f \notin Drive /\ r.pc # "list again" /\ store[<<f, 0>>] # None
      BY <1>2, <2>2, <2>5, <2>10 DEF Harmless, Self
    <3> QED
      BY <1>2, <2>4, <2>6, <2>7, <2>10, <3>1, Keys
  <2>11. s.pc = "delete" =>
           \A n \in 0 .. Names : <<f, n>> \in s.todo /\ store'[<<f, n>>] \in Care' => Copied1(s, n)'
    BY <1>2, <2>2, <2>4, <2>5 DEF Harmless
  <2>12. s.from = f /\ s.to = t
    BY <1>2
  <2> HIDE DEF f, t
  <2>13. Harmless(s)'
    BY <2>8, <2>9, <2>10, <2>11, <2>12 DEF Harmless, Self
  <2>14. s.pc # "put"
    BY <1>2, <1>5 DEF MoveType
  <2> QED
    BY <2>13, <2>14 DEF Safe
<1>6. CASE r.op \notin {"move", "copy"}
  <2>1. r.pc = "put" => r.to \in Folder /\ r.name \in 0 .. Names
    BY <1>6 DEF MoveType
  <2>2. r.pc = "put" => Settled(<<r.to, r.name>>)
    BY <1>3, <2>1
  <2>3. r.pc = "put" => store[<<r.to, r.name>>] \notin Care
    BY DEF Safe
  <2>4. s.pc = "put" => store'[<<s.to, s.name>>] \notin Care'
    BY <1>2, <2>2, <2>3 DEF Settled
  <2> QED
    BY <1>2, <1>6, <2>4 DEF Safe
<1> QED
  BY <1>5, <1>6

\* What a mild step keeps.
LEMMA Carry ==
  ASSUME Types, Apart, \A g \in Handler : Safe(moving[g]),
         NEW h \in Handler, OthersGoOn(h), Mild(h), Types',
         Uses(h)' \subseteq Uses(h), Safe(moving[h])'
  PROVE  Apart' /\ \A g \in Handler : Safe(moving[g])'
<1>1. \A g \in Handler \ {h} : Uses(g)' = Uses(g)
  BY DEF OthersGoOn, Alike, Uses
<1>2. \A k \in Key : Settled(k) => Kept(k)
  BY DEF Settled, Kept
<1>3. ASSUME NEW g \in Handler, NEW i \in Handler, Overlap(g, i)'
      PROVE  Quiet(Uses(g) \cup Uses(i))'
  <2>1. Uses(g)' \subseteq Uses(g) /\ Uses(i)' \subseteq Uses(i) /\ g # i
    BY <1>1, <1>3 DEF Overlap
  <2>2. Overlap(g, i)
    BY <1>3, <2>1 DEF Overlap
  <2>3. Quiet(Uses(g) \cup Uses(i))
    BY <2>2 DEF Apart
  <2>4. ASSUME NEW k \in Key, k[1] \in Uses(g) \cup Uses(i)
        PROVE  Kept(k)
    <3>1. CASE g = h \/ i = h
      <4>1. PICK j \in {g, i} : j # h /\ Overlap(j, h)
        BY <2>1, <2>2, <3>1 DEF Overlap
      <4> QED
        BY <4>1 DEF Mild
    <3>2. CASE g # h /\ i # h
      <4>1. PICK j \in {g, i} : k[1] \in Uses(j) /\ j # h
        BY <2>4, <3>2
      <4> QED
        BY <1>2, <4>1 DEF Mild
    <3> QED
      BY <3>1, <3>2
  <2>5. \A k \in Key : k[1] \in Uses(g) \cup Uses(i) => store'[k] \notin Care'
    BY <2>3, <2>4 DEF Quiet, Kept
  <2>6. \A k \in Key : k[1] \in (Uses(g) \cup Uses(i))' => store'[k] \notin Care'
    BY <2>1, <2>5
  <2> QED
    BY <2>6 DEF Quiet
<1>4. Apart'
  BY <1>3 DEF Apart
<1>5. ASSUME NEW g \in Handler \ {h} PROVE Safe(moving[g])'
  <2>1. MoveType(moving[g]) /\ Alike(moving'[g], moving[g]) /\ MoveType(moving'[g])
    BY AlikeType DEF Types, OthersGoOn
  <2>2. CASE Overlap(g, h)
    <3>1. Quiet(Uses(g) \cup Uses(h))
      BY <2>2 DEF Apart
    <3>2. \A k \in Key : Kept(k)
      BY <2>2 DEF Mild
    <3>3. \A k \in Key : k[1] \in Uses(g) => store'[k] \notin Care'
      BY <3>1, <3>2 DEF Quiet, Kept
    <3>4. Uses(g) = {moving'[g].from, moving'[g].to} \ {None}
      BY <2>1 DEF Alike, Uses
    <3>5. Quiet({moving[g].from, moving[g].to} \ {None})'
      BY <3>3, <3>4 DEF Quiet
    <3>6. (\A r : MoveType(r) /\ Quiet({r.from, r.to} \ {None}) => Safe(r))'
      BY QuietIsSafe, PTL
    <3> DEFINE r == moving'[g]
    <3>7. \A k \in Key : k[1] \in {r.from, r.to} \ {None} => store'[k] \notin Care'
      BY <3>5 DEF Quiet
    <3>8. MoveType(r)
      BY <2>1
    <3> QED
      BY <3>6, <3>7, <3>8 DEF Quiet, Safe, MoveType, Harmless
  <2>3. CASE ~Overlap(g, h)
    <3>1. \A k \in Key : k[1] \in {moving[g].from, moving[g].to} \ {None} => Settled(k)
      BY <2>3 DEF Mild, Uses
    <3>2. Safe(moving[g])
      OBVIOUS
    <3> QED
      BY <2>1, <3>1, <3>2, SafeIfSettled
  <2> QED
    BY <2>2, <2>3
<1> QED
  BY <1>4, <1>5

\* Steps that write nothing that is cared for.
LEMMA Trimming ==
  ASSUME Types, Types', NEW h \in Handler, Care' \subseteq Care,
         \A k \in Key : store'[k] = store[k] \/ (store'[k] = None /\ k[1] \in Uses(h))
  PROVE  Mild(h)
<1>1. \A k \in Key : Kept(k)
  BY NoneIsNoContent DEF Kept
<1>2. ASSUME NEW g \in Handler \ {h}, NEW k \in Key, ~Overlap(g, h), k[1] \in Uses(g) PROVE Settled(k)
  BY <1>2 DEF Overlap, Settled
<1> QED
  BY <1>1, <1>2 DEF Mild

\* Steps that write nothing.
LEMMA Still ==
  ASSUME BInv, NEW h \in Handler, OthersGoOn(h), MoveType(moving'[h]), Uses(h)' \subseteq Uses(h),
         Safe(moving[h])', UNCHANGED <<store, made, wanted>>, exposed \subseteq exposed', exposed' \subseteq 1 .. made
  PROVE  BInv'
<1>1. Types'
  BY TypesKept DEF BInv, Types
<1>2. Care' \subseteq Care
  BY DEF Care
<1>3. Mild(h)
  BY <1>1, <1>2, Trimming DEF BInv
<1>4. NothingLost'
  BY DEF BInv, NothingLost
<1> QED
  BY <1>1, <1>3, <1>4, Carry DEF BInv

LEMMA EndOfMove ==
  ASSUME Types, NEW h \in Handler, moving'[h] = NoMove
  PROVE  MoveType(moving'[h]) /\ Uses(h)' \subseteq Uses(h) /\ Safe(moving[h])'
<1>1. /\ moving'[h].op = "none" /\ moving'[h].pc = "idle"
      /\ moving'[h].from = None /\ moving'[h].to = None
  BY DEF NoMove
<1> QED
  BY <1>1, NoMoveType DEF Uses, Safe

\* A step that writes nothing and ends the request.
LEMMA StillFails ==
  ASSUME BInv, NEW h \in Handler, Fail(h), UNCHANGED <<store, made, wanted, exposed>>
  PROVE  BInv'
<1>1. OthersGoOn(h) /\ moving'[h] = NoMove
  BY FailFields DEF BInv
<1>2. Types /\ exposed \subseteq 1 .. made
  BY DEF BInv, Types
<1>3. MoveType(moving'[h]) /\ Uses(h)' \subseteq Uses(h) /\ Safe(moving[h])'
  BY <1>1, <1>2, EndOfMove
<1> QED
  BY <1>1, <1>2, <1>3, Still

\* A step that writes nothing, and takes its request from pc to pc'.
LEMMA StillGoesTo ==
  ASSUME BInv, NEW h \in Handler, NEW pc, NEW todo, Goto(h, pc, todo), MoveType(moving'[h]), Safe(moving[h])',
         UNCHANGED <<store, made, wanted, exposed>>
  PROVE  BInv'
<1>1. OthersGoOn(h) /\ moving'[h].from = moving[h].from /\ moving'[h].to = moving[h].to
  BY GotoFields DEF BInv
<1>2. Uses(h)' \subseteq Uses(h) /\ exposed \subseteq 1 .. made
  BY <1>1 DEF Uses, BInv, Types
<1> QED
  BY <1>1, <1>2, Still

----------------------------------------------------------------------------
(* The steps that write nothing *)

\* A request begins: what is in its folders, and in those of the requests that share one, is exposed.
LEMMA BeginStep ==
  ASSUME BInv, NEW h \in Handler, NEW op, NEW pc, NEW from, NEW to, Begin(h, op, pc, from, to),
         \A r : /\ DOMAIN r = DOMAIN NoMove /\ r.todo = {} /\ r.name = 0 /\ r.met \in BOOLEAN
                /\ r.op = op /\ r.pc = pc /\ r.from = from /\ r.to = to
                => MoveType(r),
         op \in {"move", "copy"} => pc = "stat", pc # "put",
         UNCHANGED <<store, made, wanted>>
  PROVE  BInv'
<1>1. Types /\ moving[h].pc = "idle" /\ MoveType(moving[h])
  BY DEF BInv, Types, Begin
<1> DEFINE b == IF from = None THEN << >> ELSE Due(from)
           r == [NoMove EXCEPT !.op = op, !.pc = pc, !.from = from, !.to = to, !.began = b]
           F == {from, to}
<1>2. /\ DOMAIN r = DOMAIN NoMove /\ r.pc = pc /\ r.todo = {} /\ r.op = op /\ r.from = from /\ r.to = to
      /\ r.name = 0
  <2> HIDE DEF b
  <2> QED
    BY DEF NoMove
<1>3. Meet(h, F, r)
  BY DEF Begin
<1> HIDE DEF r
<1>4. /\ OthersGoOn(h)
      /\ DOMAIN moving'[h] = DOMAIN NoMove
      /\ moving'[h].pc = pc /\ moving'[h].todo = {} /\ moving'[h].op = op
      /\ moving'[h].from = from /\ moving'[h].to = to /\ moving'[h].name = 0
      /\ moving'[h].met \in BOOLEAN
  <2>1. DOMAIN r = DOMAIN NoMove
    BY <1>2
  <2>2. /\ OthersGoOn(h)
        /\ DOMAIN moving'[h] = DOMAIN NoMove
        /\ moving'[h].pc = r.pc /\ moving'[h].todo = r.todo /\ moving'[h].op = r.op
        /\ moving'[h].from = r.from /\ moving'[h].to = r.to /\ moving'[h].name = r.name
    BY <1>1, <1>3, <2>1, MeetFields
  <2>3. moving'[h].met = (r # NoMove /\ Beside(h, F) # {})
    BY <1>1, <1>3, <2>1, MeetFields
  <2>4. moving'[h].met \in BOOLEAN
    BY <2>3
  <2> QED
    BY <1>2, <2>2, <2>4
<1>5. MoveType(moving'[h])
  BY <1>4
<1> DEFINE X == IF Beside(h, F) = {} THEN {} ELSE Contents(F \cup Touched(h, F))
<1>6. exposed' = exposed \cup X
  BY DEF Begin
<1>7. X \subseteq 1 .. made
  BY <1>1 DEF Types, Contents
<1>8. exposed' \subseteq 1 .. made /\ exposed \subseteq exposed' /\ Care' \subseteq Care
  BY <1>1, <1>6, <1>7 DEF Types, Care
<1> HIDE DEF X
<1>9. Types'
  BY <1>1, <1>4, <1>5, <1>8, TypesKept DEF Types
<1>10. \A g \in Handler \ {h} : Uses(g)' = Uses(g)
  BY <1>4 DEF OthersGoOn, Alike, Uses
<1>11. Uses(h) = {} /\ Uses(h)' = F \ {None}
  BY <1>1, <1>4 DEF MoveType, Uses
<1>12. ASSUME NEW g \in Handler, Overlap(g, h)'
       PROVE  Quiet(Uses(g) \cup Uses(h))'
  <2>1. g \in Handler \ {h} /\ Uses(g)' = Uses(g) /\ Uses(g) \cap (F \ {None}) # {}
    BY <1>10, <1>11, <1>12 DEF Overlap
  <2>2. g \in Beside(h, F)
    BY <2>1 DEF Beside, Uses
  <2>3. X = Contents(F \cup Touched(h, F)) /\ Uses(g) \subseteq Touched(h, F)
    BY <2>2 DEF X, Touched, Uses
  <2>4. \A k \in Key : k[1] \in Uses(g) \cup F => store[k] = None \/ store[k] \in X
    BY <2>3 DEF Contents
  <2>5. None \notin Care' /\ \A c \in X : c \notin Care'
    BY <1>1, <1>6, <1>8, NoneIsNoContent DEF Care
  <2>6. Uses(g)' \cup Uses(h)' \subseteq Uses(g) \cup F
    BY <1>11, <2>1
  <2>7. \A k \in Key : k[1] \in Uses(g)' \cup Uses(h)' => store'[k] \notin Care'
    BY <2>4, <2>5, <2>6
  <2> QED
    BY <2>7 DEF Quiet
<1>13. ASSUME NEW g \in Handler \ {h}, NEW i \in Handler \ {h}, Overlap(g, i)'
       PROVE  Quiet(Uses(g) \cup Uses(i))'
  <2>1. Overlap(g, i)
    BY <1>10, <1>13 DEF Overlap
  <2>2. Quiet(Uses(g) \cup Uses(i))
    BY <2>1 DEF BInv, Apart
  <2> QED
    BY <1>8, <1>10, <2>2 DEF Quiet
<1>14. ASSUME NEW g \in Handler, NEW i \in Handler, Overlap(g, i)'
       PROVE  Quiet(Uses(g) \cup Uses(i))'
  <2>1. CASE g # h /\ i # h
    BY <1>13, <1>14, <2>1
  <2>2. CASE i = h
    BY <1>12, <1>14, <2>2
  <2>3. CASE g = h
    <3>1. Overlap(i, h)'
      BY <1>14, <2>3 DEF Overlap
    <3>2. Quiet(Uses(i) \cup Uses(h))'
      BY <1>12, <3>1
    <3> QED
      BY <2>3, <3>2 DEF Quiet
  <2> QED
    BY <2>1, <2>2, <2>3
<1>16. ASSUME NEW g \in Handler \ {h} PROVE Safe(moving[g])'
  <2>1. MoveType(moving[g]) /\ Alike(moving'[g], moving[g]) /\ Safe(moving[g])
    BY <1>1, <1>4 DEF Types, OthersGoOn, BInv
  <2>2. \A k \in Key : Settled(k)
    BY <1>8 DEF Settled
  <2> QED
    BY <1>1, <1>9, <2>1, <2>2, SafeIfSettled
<1>17. Safe(moving[h])'
  BY <1>4 DEF Safe, Harmless
<1>18. NothingLost'
  BY <1>8 DEF NothingLost, BInv, Care
<1> QED
  BY <1>9, <1>14, <1>16, <1>17, <1>18 DEF BInv, Apart

----------------------------------------------------------------------------
(* Listings *)

LEMMA OfTheFolder ==
  ASSUME NEW f \in Folder
  PROVE  /\ \A k \in Prefixed(f) : k \in Key /\ k[2] \in 1 .. Names /\ k = <<f, k[2]>> /\ store[k] # None
         /\ \A n \in 1 .. Names : store[<<f, n>>] # None => <<f, n>> \in Prefixed(f)
<1>1. ASSUME NEW k \in Prefixed(f)
      PROVE  k \in Key /\ k[2] \in 1 .. Names /\ k = <<f, k[2]>> /\ store[k] # None
  <2>1. k \in Key /\ store[k] # None /\ k[1] = f /\ k # <<f, 0>>
    BY DEF Prefixed, Self
  <2>2. k[2] \in 0 .. Names /\ k = <<f, k[2]>>
    BY <2>1, Keys
  <2>3. k[2] # 0
    BY <2>1, <2>2
  <2> QED
    BY <2>1, <2>2, <2>3, BucketAssumption
<1>2. ASSUME NEW n \in 1 .. Names, store[<<f, n>>] # None
      PROVE  <<f, n>> \in Prefixed(f)
  <2>1. n \in 0 .. Names /\ n # 0
    BY BucketAssumption
  <2>2. <<f, n>> \in Key /\ <<f, n>>[1] = f /\ <<f, n>> # <<f, 0>>
    BY <2>1, Keys
  <2> QED
    BY <1>2, <2>2 DEF Prefixed, Self
<1> QED
  BY <1>1, <1>2

LEMMA FewNames ==
  /\ IsFiniteSet(1 .. Names)
  /\ \A f, n : Before(f, n) \subseteq 1 .. Names /\ IsFiniteSet(Before(f, n)) /\ Cardinality(Before(f, n)) \in Nat
<1>1. IsFiniteSet(1 .. Names)
  <2>1. 1 \in Int /\ Names \in Int
    BY BucketAssumption
  <2> QED
    BY <2>1, FS_Interval
<1>2. ASSUME NEW f, NEW n PROVE Before(f, n) \subseteq 1 .. Names
  BY DEF Before
<1> QED
  BY <1>1, <1>2, FS_Subset, FS_CardinalityType

\* Keys of one folder are as many as their names.
LEMMA NamesOfKeys ==
  ASSUME NEW f \in Folder, NEW keys \in SUBSET Prefixed(f), NEW M, IsFiniteSet(M), \A k \in keys : k[2] \in M
  PROVE  IsFiniteSet(keys) /\ Cardinality(keys) \in Nat /\ Cardinality(keys) <= Cardinality(M)
<1> DEFINE name == [k \in keys |-> k[2]]
<1>1. name \in Injection(keys, M)
  <2>1. name \in [keys -> M]
    OBVIOUS
  <2>2. \A j, k \in keys : name[j] = name[k] => j = k
    BY OfTheFolder
  <2> QED
    BY <2>1, <2>2 DEF Injection, IsInjective
<1> QED
  BY <1>1, FS_Injection, FS_CardinalityType

\* A key that is there and is not listed is beyond the listing.
LEMMA CutOff ==
  ASSUME NEW f \in Folder \ Drive, NEW keys, Listed(f, keys), NEW n \in 1 .. Names,
         store[<<f, n>>] # None, <<f, n>> \notin keys
  PROVE  Beyond(f, n)
<1>1. <<f, n>> \in Prefixed(f) /\ keys \subseteq Prefixed(f)
  BY OfTheFolder DEF Listed
<1>2. /\ Cardinality(keys) = MaxS3Objects
      /\ \A k \in keys, j \in Prefixed(f) \ keys : k[1] = j[1] => k[2] < j[2]
  BY <1>1 DEF Listed
<1>3. ASSUME NEW k \in keys PROVE k[2] \in Before(f, n)
  <2>1. k = <<f, k[2]>> /\ k[2] \in 1 .. Names /\ store[k] # None
    BY <1>1, OfTheFolder
  <2>2. k[1] = f /\ <<f, n>>[1] = f /\ <<f, n>>[2] = n
    BY <2>1
  <2>3. k[2] < n
    BY <1>1, <1>2, <2>2
  <2> QED
    BY <2>1, <2>3 DEF Before
<1>4. Cardinality(keys) <= Cardinality(Before(f, n))
  BY <1>1, <1>3, FewNames, NamesOfKeys
<1> QED
  BY <1>2, <1>4, BucketAssumption DEF Beyond

\* A key that is listed is not beyond the listing.
LEMMA WithinListing ==
  ASSUME NEW f \in Folder \ Drive, NEW keys, Listed(f, keys), NEW n \in 1 .. Names, <<f, n>> \in keys
  PROVE  ~Beyond(f, n)
<1>1. keys \subseteq Prefixed(f)
  BY DEF Listed
<1>2. \A k \in Prefixed(f) : k[2] \in 1 .. Names
  BY OfTheFolder
<1>3. IsFiniteSet(keys) /\ Cardinality(keys) \in Nat
  BY <1>1, <1>2, FewNames, NamesOfKeys
<1>4. Cardinality(keys) <= MaxS3Objects
  BY <1>3, BucketAssumption DEF Listed
<1> DEFINE rest == keys \ {<<f, n>>}
           key == [m \in Before(f, n) |-> <<f, m>>]
<1>5. ASSUME NEW m \in Before(f, n) PROVE <<f, m>> \in rest
  <2>1. m \in 1 .. Names /\ m < n /\ store[<<f, m>>] # None
    BY DEF Before
  <2>2. <<f, m>> \in Prefixed(f)
    BY <2>1, OfTheFolder
  <2>3. <<f, n>>[1] = <<f, m>>[1] /\ <<f, n>>[2] = n /\ <<f, m>>[2] = m
    OBVIOUS
  <2>4. <<f, m>> \in keys
    <3>1. CASE keys = Prefixed(f)
      BY <2>2, <3>1
    <3>2. CASE \A k \in keys, j \in Prefixed(f) \ keys : k[1] = j[1] => k[2] < j[2]
      <4>1. <<f, m>> \notin keys => n < m
        BY <2>2, <2>3, <3>2
      <4> QED
        BY <2>1, <4>1
    <3> QED
      BY <3>1, <3>2 DEF Listed
  <2>5. <<f, m>> # <<f, n>>
    BY <2>1
  <2> QED
    BY <2>4, <2>5
<1>6. key \in Injection(Before(f, n), rest)
  <2>1. key \in [Before(f, n) -> rest]
    BY <1>5
  <2>2. \A m, l \in Before(f, n) : key[m] = key[l] => m = l
    OBVIOUS
  <2> QED
    BY <2>1, <2>2 DEF Injection, IsInjective
<1>7. IsFiniteSet(rest) /\ Cardinality(rest) = Cardinality(keys) - 1
  BY <1>3, FS_RemoveElement
<1>8. Cardinality(Before(f, n)) <= Cardinality(rest)
  BY <1>6, <1>7, FS_Injection
<1> DEFINE a == Cardinality(Before(f, n))
           b == Cardinality(rest)
           c == Cardinality(keys)
<1>9. a \in Nat /\ b = c - 1 /\ c \in Nat /\ a <= b /\ c <= MaxS3Objects
  BY <1>3, <1>4, <1>7, <1>8, FewNames
<1> HIDE DEF a, b, c
<1>10. ~(MaxS3Objects <= a)
  BY <1>9, BucketAssumption
<1> QED
  BY <1>10 DEF Beyond, a

----------------------------------------------------------------------------
(* The steps of a request *)

\* The kind of a request is told by its step.
LEMMA StepOf ==
  ASSUME BInv, NEW h \in Handler
  PROVE  /\ Types /\ MoveType(moving[h]) /\ Safe(moving[h]) /\ DOMAIN moving[h] = DOMAIN NoMove
         /\ exposed \subseteq 1 .. made
         /\ moving[h].pc \in {"stat", "walk", "copy", "remove all", "head again", "list again"} =>
              moving[h].op \in {"move", "copy"}
         /\ moving[h].op \in {"move", "copy"} =>
              Harmless(moving[h]) /\ moving[h].from \in Folder /\ moving[h].to \in Folder
              /\ moving[h].from # moving[h].to
         /\ moving[h].op \in {"move", "copy", "delete"} =>
              moving[h].from \in Folder /\ moving[h].from # None
         /\ moving[h].pc \in {"head", "list", "delete"} =>
              moving[h].op \in {"move", "copy", "delete"} /\ moving[h].from \in Folder \ Drive
BY BucketAssumption DEF BInv, Types, MoveType, Safe

LEMMA AskStep == ASSUME BInv, NEW h \in Handler, Ask(h) PROVE BInv'
<1>1. PICK f \in Folder, t \in Folder : MoveAcross(h, f, t) \/ CopyAcross(h, f, t) \/ DeleteS3(h, f)
  BY DEF Ask
<1>2. UNCHANGED <<store, made, wanted>>
  BY DEF Ask
<1>3. CASE MoveAcross(h, f, t)
  <2>1. f # t /\ Begin(h, "move", "stat", f, t)
    BY <1>3 DEF MoveAcross, Across
  <2>2. \A r : /\ DOMAIN r = DOMAIN NoMove /\ r.todo = {} /\ r.name = 0 /\ r.met \in BOOLEAN
               /\ r.op = "move" /\ r.pc = "stat" /\ r.from = f /\ r.to = t
               => MoveType(r)
    BY <2>1, Keys DEF MoveType
  <2> QED
    BY <1>2, <2>1, <2>2, BeginStep
<1>4. CASE CopyAcross(h, f, t)
  <2>1. f # t /\ Begin(h, "copy", "stat", f, t)
    BY <1>4 DEF CopyAcross, Across
  <2>2. \A r : /\ DOMAIN r = DOMAIN NoMove /\ r.todo = {} /\ r.name = 0 /\ r.met \in BOOLEAN
               /\ r.op = "copy" /\ r.pc = "stat" /\ r.from = f /\ r.to = t
               => MoveType(r)
    BY <2>1, Keys DEF MoveType
  <2> QED
    BY <1>2, <2>1, <2>2, BeginStep
<1>5. CASE DeleteS3(h, f)
  <2>1. f \notin Drive /\ Begin(h, "delete", "head", f, None)
    BY <1>5 DEF DeleteS3
  <2>2. \A r : /\ DOMAIN r = DOMAIN NoMove /\ r.todo = {} /\ r.name = 0 /\ r.met \in BOOLEAN
               /\ r.op = "delete" /\ r.pc = "head" /\ r.from = f /\ r.to = None
               => MoveType(r)
    BY <2>1, Keys DEF MoveType
  <2> QED
    BY <1>2, <2>1, <2>2, BeginStep
<1> QED
  BY <1>1, <1>3, <1>4, <1>5

LEMMA UploadBeginStep == ASSUME BInv, NEW h \in Handler, NEW f \in Folder, UploadBegin(h, f) PROVE BInv'
<1>1. f \notin Drive /\ Begin(h, "upload", "probe", None, f) /\ UNCHANGED <<store, made, wanted>>
  BY DEF UploadBegin
<1>2. \A r : /\ DOMAIN r = DOMAIN NoMove /\ r.todo = {} /\ r.name = 0 /\ r.met \in BOOLEAN
             /\ r.op = "upload" /\ r.pc = "probe" /\ r.from = None /\ r.to = f
             => MoveType(r)
  BY <1>1, Keys DEF MoveType
<1> QED
  BY <1>1, <1>2, BeginStep

\* What is not there is not cared for.
LEMMA NothingThere ==
  ASSUME Types, NEW f \in Folder, ~Exists(f)
  PROVE  Quiet({f})
<1>1. ASSUME NEW k \in Key, k[1] = f PROVE store[k] = None
  BY <1>1 DEF Exists, Prefixed
<1> QED
  BY <1>1, NoneIsNoContent DEF Quiet

LEMMA StatStep == ASSUME BInv, NEW h \in Handler, Stat(h) PROVE BInv'
<1> DEFINE r == moving[h]
           q == moving'[h]
<1>1. r.pc = "stat" /\ UNCHANGED <<store, made, wanted>>
  BY DEF Stat
<1>2. /\ Types /\ MoveType(r) /\ r.op \in {"move", "copy"} /\ r.from \in Folder /\ r.to \in Folder
      /\ r.to # None
  BY <1>1, StepOf, BucketAssumption
<1>3. CASE Fail(h) /\ UNCHANGED exposed
  BY <1>1, <1>3, StillFails
<1>4. ASSUME Goto(h, Source(h), {}), exposed \subseteq exposed', exposed' \subseteq 1 .. made,
             Quiet({r.to})'
      PROVE  BInv'
  <2>1. /\ OthersGoOn(h) /\ DOMAIN q = DOMAIN NoMove /\ q.pc = Source(h) /\ q.todo = {}
        /\ q.op = r.op /\ q.from = r.from /\ q.to = r.to /\ q.name = r.name /\ q.met = r.met
    BY <1>2, <1>4, GotoFields
  <2>2. q.pc \in {"walk", "head"} /\ (q.pc = "walk" <=> q.from \in Drive)
    BY <2>1 DEF Source
  <2>3. MoveType(q)
    BY <1>2, <2>1, <2>2 DEF MoveType
  <2>4. Uses(h)' \subseteq Uses(h)
    BY <2>1 DEF Uses
  <2>5. \A k \in Key : k[1] = r.to => store'[k] \notin Care'
    BY <1>4, <2>1 DEF Quiet
  <2>6. Safe(moving[h])'
    BY <2>1, <2>2, <2>5 DEF Safe, Harmless, Quiet
  <2> QED
    BY <1>1, <1>4, <2>1, <2>3, <2>4, <2>6, Still
<1>5. CASE ~Exists(r.to) /\ Goto(h, Source(h), {}) /\ UNCHANGED exposed
  <2>1. Quiet({r.to})
    BY <1>2, <1>5, NothingThere
  <2>2. r.to = q.to
    BY <1>2, <1>5, GotoFields
  <2>3. \A k \in Key : k[1] \in {q.to} => store'[k] \notin Care'
    BY <1>1, <1>5, <2>1, <2>2 DEF Quiet, Care
  <2>4. Quiet({r.to})'
    BY <2>3 DEF Quiet
  <2> QED
    BY <1>2, <1>4, <1>5, <2>4 DEF Types
<1>6. CASE Goto(h, Source(h), {}) /\ exposed' = exposed \cup Contents({r.to})
  <2>1. Contents({r.to}) \subseteq 1 .. made
    BY <1>2 DEF Types, Contents
  <2>2. \A k \in Key : k[1] = r.to => store[k] = None \/ store[k] \in Contents({r.to})
    BY DEF Contents
  <2>3. r.to = q.to
    BY <1>2, <1>6, GotoFields
  <2>4. \A k \in Key : k[1] \in {q.to} => store'[k] \notin Care'
    BY <1>1, <1>2, <1>6, <2>2, <2>3, NoneIsNoContent DEF Care
  <2>5. Quiet({r.to})'
    BY <2>4 DEF Quiet
  <2> QED
    BY <1>2, <1>4, <1>6, <2>1, <2>5 DEF Types
<1> QED
  BY <1>3, <1>5, <1>6 DEF Stat

LEMMA HeadKeyStep == ASSUME BInv, NEW h \in Handler, HeadKey(h) PROVE BInv'
<1> DEFINE r == moving[h]
           q == moving'[h]
           f == r.from
<1>1. r.pc \in {"head", "head again"} /\ UNCHANGED <<store, made, wanted, exposed>>
  BY DEF HeadKey
<1>2. /\ Types /\ MoveType(r) /\ Safe(r) /\ r.op \in {"move", "copy", "delete"} /\ f \in Folder \ Drive
      /\ r.pc = "head again" => r.op = "move"
      /\ r.op \in {"move", "copy"} => Harmless(r)
      /\ r.todo = {}
  BY <1>1, StepOf DEF MoveType
<1>3. /\ <<f, 0>> \in Key /\ Self(f) = <<f, 0>> /\ 0 \in 0 .. Names
      /\ \A n \in 0 .. Names : <<f, n>> \in {<<f, 0>>} => n = 0
  BY <1>2, Keys
<1>4. CASE store[Self(f)] # None /\ Goto(h, Then(h), {Self(f)})
  <2>1. /\ DOMAIN q = DOMAIN NoMove /\ q.pc = Then(h) /\ q.todo = {<<f, 0>>}
        /\ q.op = r.op /\ q.from = f /\ q.to = r.to /\ q.name = r.name /\ q.met = r.met
    <3>1. Types /\ Goto(h, Then(h), {Self(f)}) /\ {Self(f)} = {<<f, 0>>}
      BY <1>2, <1>3, <1>4
    <3> QED
      BY <3>1, GotoFields
  <2>2. q.pc = IF r.op # "delete" /\ r.pc = "head" THEN "copy" ELSE "delete"
    BY <1>1, <2>1 DEF Then
  <2>3. MoveType(q)
    <3>1. /\ q.todo \subseteq Key /\ q.name \in 0 .. Names /\ q.met \in BOOLEAN
          /\ \A k \in q.todo : k[1] = q.from
          /\ q.from \in Folder \ Drive
      <4>1. r.name \in 0 .. Names /\ r.met \in BOOLEAN
        BY <1>2 DEF MoveType
      <4>2. \A k \in {<<f, 0>>} : k[1] = f
        OBVIOUS
      <4>3. \A k \in q.todo : k[1] = q.from
        BY <2>1, <4>2
      <4> QED
        BY <1>2, <1>3, <2>1, <4>1, <4>3
    <3>2. CASE r.op = "delete"
      <4>1. q.pc = "delete" /\ q.to = None
        BY <1>2, <2>1, <2>2, <3>2 DEF MoveType
      <4> QED
        BY <2>1, <3>1, <3>2, <4>1 DEF MoveType
    <3>3. CASE r.op \in {"move", "copy"}
      <4>1. q.to \in Folder /\ q.from # q.to
        BY <1>2, <2>1, <3>3 DEF MoveType
      <4>2. q.pc = "copy" \/ (q.op = "move" /\ q.pc = "delete")
        BY <1>1, <1>2, <2>1, <2>2, <3>3
      <4> QED
        BY <2>1, <3>1, <3>3, <4>1, <4>2 DEF MoveType
    <3> QED
      BY <1>2, <3>2, <3>3
  <2>4. CASE r.op = "delete"
    <3>1. Safe(moving[h])'
      BY <2>1, <2>2, <2>4 DEF Safe
    <3> QED
      BY <1>1, <1>4, <2>3, <3>1, StillGoesTo
  <2>5. CASE r.op \in {"move", "copy"} /\ r.pc = "head"
    <3>1. q.pc = "copy" /\ \A k \in Key : k[1] = r.to => store[k] \notin Care
      BY <1>2, <2>2, <2>5 DEF Harmless, Quiet
    <3>2. \A n \in 0 .. Names : store[<<r.to, n>>] \notin Care
      BY <2>5, <3>1, StepOf, Keys
    <3>3. Safe(moving[h])'
      BY <1>1, <1>2, <1>3, <1>4, <2>1, <2>5, <3>1, <3>2 DEF Safe, Harmless, Care
    <3> QED
      BY <1>1, <1>4, <2>3, <3>3, StillGoesTo
  <2>6. CASE r.pc = "head again"
    <3>1. q.pc = "delete" /\ r.op = "move"
      BY <1>2, <2>2, <2>6
    <3>2. ASSUME store[<<f, 0>>] \in Care PROVE store[<<r.to, 0>>] = store[<<f, 0>>]
      <4>1. ~Beyond(f, 0)
        BY DEF Beyond
      <4> QED
        BY <1>2, <1>3, <2>6, <3>1, <3>2, <4>1 DEF Harmless, Copied1
    <3>3. Safe(moving[h])'
      BY <1>1, <1>3, <2>1, <3>1, <3>2 DEF Safe, Harmless, Copied1, Care
    <3> QED
      BY <1>1, <1>4, <2>3, <3>3, StillGoesTo
  <2> QED
    BY <1>1, <1>2, <2>4, <2>5, <2>6
<1>5. CASE store[Self(f)] = None /\ Goto(h, Following(r.pc), {})
  <2>1. /\ DOMAIN q = DOMAIN NoMove /\ q.pc = Following(r.pc) /\ q.todo = {}
        /\ q.op = r.op /\ q.from = f /\ q.to = r.to /\ q.name = r.name /\ q.met = r.met
    <3> DEFINE pc == Following(r.pc)
    <3>1. Goto(h, pc, {})
      BY <1>5
    <3> HIDE DEF pc
    <3>2. /\ DOMAIN q = DOMAIN NoMove /\ q.pc = pc /\ q.todo = {}
          /\ q.op = r.op /\ q.from = f /\ q.to = r.to /\ q.name = r.name /\ q.met = r.met
      <4>1. Types
        BY <1>2
      <4> QED
        BY <3>1, <4>1, GotoFields
    <3> QED
      BY <3>2 DEF pc
  <2>2. q.pc = IF r.pc = "head" THEN "list" ELSE "list again"
    BY <2>1 DEF Following
  <2>3. MoveType(q)
    BY <1>1, <1>2, <2>1, <2>2 DEF MoveType
  <2>4. store[<<f, 0>>] = None /\ None \notin Care
    BY <1>2, <1>3, <1>5, NoneIsNoContent
  <2>5. CASE r.op = "delete"
    <3>1. q.pc # "put"
      BY <2>2
    <3>2. Safe(moving[h])'
      BY <2>1, <2>5, <3>1 DEF Safe
    <3> QED
      BY <1>1, <1>5, <2>3, <3>2, StillGoesTo
  <2>6. CASE r.op \in {"move", "copy"} /\ r.pc = "head"
    <3>1. q.pc = "list" /\ \A k \in Key : k[1] = r.to => store[k] \notin Care
      BY <1>2, <2>2, <2>6 DEF Harmless, Quiet
    <3>2. Safe(moving[h])'
      BY <1>1, <1>3, <2>1, <2>4, <3>1 DEF Safe, Harmless, Care, Quiet
    <3> QED
      BY <1>1, <1>5, <2>3, <3>2, StillGoesTo
  <2>7. CASE r.pc = "head again"
    <3>1. q.pc = "list again" /\ r.op = "move"
      BY <1>2, <2>2, <2>7
    <3>2. \A n \in 0 .. Names : store[<<f, n>>] \in Care => Copied1(r, n) \/ Beyond(f, n)
      BY <1>2, <1>3, <2>4, <2>7, <3>1 DEF Harmless
    <3>3. ASSUME NEW n \in 0 .. Names, store'[<<q.from, n>>] \in Care'
          PROVE  store'[<<q.to, n>>] = store'[<<q.from, n>>] \/ Beyond(f, n)'
      BY <1>1, <2>1, <3>2, <3>3 DEF Copied1, Beyond, Before, Care
    <3>4. Safe(moving[h])'
      BY <2>1, <3>1, <3>3 DEF Safe, Harmless, Copied1
    <3> QED
      BY <1>1, <1>5, <2>3, <3>4, StillGoesTo
  <2> QED
    BY <1>1, <1>2, <2>5, <2>6, <2>7
<1> QED
  BY <1>4, <1>5 DEF HeadKey

LEMMA ListStep == ASSUME BInv, NEW h \in Handler, List(h) PROVE BInv'
<1> DEFINE r == moving[h]
           q == moving'[h]
           f == r.from
<1>1. r.pc \in {"list", "list again"} /\ UNCHANGED <<store, made, wanted, exposed>>
  BY DEF List
<1>2. /\ Types /\ MoveType(r) /\ Safe(r) /\ r.op \in {"move", "copy", "delete"} /\ f \in Folder \ Drive
      /\ r.pc = "list again" => r.op = "move"
      /\ r.op \in {"move", "copy"} => Harmless(r)
      /\ r.todo = {} /\ DOMAIN r = DOMAIN NoMove
  BY <1>1, StepOf DEF MoveType
<1>3. PICK keys \in SUBSET Prefixed(f) :
        /\ Listed(f, keys)
        /\ \/ Fail(h)
           \/ /\ ~(keys = {} /\ Then(h) = "copy")
              /\ moving' = [moving EXCEPT ![h].pc = Then(h), ![h].todo = keys,
                                        ![h].met = @ \/ keys # Prefixed(f)]
  BY DEF List
<1>4. CASE Fail(h)
  BY <1>1, <1>4, StillFails
<1>5. CASE moving' = [moving EXCEPT ![h].pc = Then(h), ![h].todo = keys, ![h].met = @ \/ keys # Prefixed(f)]
  <2>1. /\ OthersGoOn(h) /\ DOMAIN q = DOMAIN NoMove /\ q.pc = Then(h) /\ q.todo = keys
        /\ q.op = r.op /\ q.from = f /\ q.to = r.to /\ q.name = r.name /\ q.met \in BOOLEAN
    <3> DEFINE b == r.met \/ keys # Prefixed(f)
               x == [[[r EXCEPT !.pc = Then(h)] EXCEPT !.todo = keys] EXCEPT !.met = b]
    <3>1. b \in BOOLEAN
      BY <1>2 DEF MoveType
    <3>2. DOMAIN moving = Handler
      BY <1>2 DEF Types
    <3>3. moving' = [moving EXCEPT ![h] = x]
      BY <1>5, <3>2
    <3> HIDE DEF b
    <3>4. /\ DOMAIN x = DOMAIN NoMove /\ x.pc = Then(h) /\ x.todo = keys
          /\ x.op = r.op /\ x.from = f /\ x.to = r.to /\ x.name = r.name /\ x.met = b
      BY <1>2 DEF NoMove
    <3> HIDE DEF x
    <3>5. OthersGoOn(h)
      BY <1>2, <3>2, <3>3, AlikeItself DEF OthersGoOn, Types
    <3>6. q = x
      BY <3>2, <3>3
    <3> QED
      BY <3>1, <3>4, <3>5, <3>6
  <2>2. q.pc = IF r.op # "delete" /\ r.pc = "list" THEN "copy" ELSE "delete"
    BY <1>1, <2>1 DEF Then
  <2>3. /\ keys \subseteq Key
        /\ \A k \in keys : k[1] = f /\ k[2] \in 1 .. Names /\ k = <<f, k[2]>> /\ store[k] # None
    <3>1. \A k \in keys : k[1] = f
      BY DEF Prefixed
    <3> QED
      BY <1>2, <3>1, OfTheFolder
  <2>4. MoveType(q)
    <3>1. r.name \in 0 .. Names
      BY <1>2 DEF MoveType
    <3>2. /\ q.todo \subseteq Key /\ q.name \in 0 .. Names /\ q.met \in BOOLEAN
          /\ \A k \in q.todo : k[1] = q.from
          /\ q.from \in Folder \ Drive
      BY <1>2, <2>1, <2>3, <3>1
    <3>3. CASE r.op = "delete"
      <4>1. q.pc = "delete" /\ q.to = None
        BY <1>2, <2>1, <2>2, <3>3 DEF MoveType
      <4> QED
        BY <2>1, <3>2, <3>3, <4>1 DEF MoveType
    <3>4. CASE r.op \in {"move", "copy"}
      <4>1. q.to \in Folder /\ q.from # q.to
        BY <1>2, <2>1, <3>4 DEF MoveType
      <4>2. q.pc = "copy" \/ (q.op = "move" /\ q.pc = "delete")
        BY <1>1, <1>2, <2>1, <2>2, <3>4
      <4> QED
        BY <2>1, <3>2, <3>4, <4>1, <4>2 DEF MoveType
    <3> QED
      BY <1>2, <3>3, <3>4
  <2>5. Uses(h)' \subseteq Uses(h) /\ exposed' \subseteq 1 .. made
    BY <1>1, <1>2, <2>1 DEF Uses, Types
  <2>6. \A n \in 1 .. Names : n \in 0 .. Names /\ n # 0
    OBVIOUS
  <2>7. Safe(moving[h])'
    <3>1. CASE r.op = "delete"
      BY <2>1, <2>2, <3>1 DEF Safe
    <3>2. CASE r.op \in {"move", "copy"} /\ r.pc = "list"
      <4>1. q.pc = "copy" /\ (\A k \in Key : k[1] = r.to => store[k] \notin Care)
            /\ store[<<f, 0>>] \notin Care
        BY <1>2, <2>2, <3>2 DEF Harmless, Quiet, Self
      <4>2. \A n \in 0 .. Names : store[<<r.to, n>>] \notin Care
        BY <3>2, <4>1, StepOf, Keys
      <4>3. ASSUME NEW n \in 0 .. Names, store[<<f, n>>] \in Care, <<f, n>> \notin keys
            PROVE  Beyond(f, n)
        <5>1. n \in 1 .. Names
          BY <4>1, <4>3, BucketAssumption
        <5>2. store[<<f, n>>] # None
          BY <1>2, <4>3, NoneIsNoContent
        <5> QED
          BY <1>2, <1>3, <4>3, <5>1, <5>2, CutOff
      <4>4. ASSUME NEW n \in 0 .. Names, store'[<<f, n>>] \in Care'
            PROVE  <<f, n>> \in keys \/ Beyond(f, n)'
        BY <1>1, <2>1, <4>3, <4>4 DEF Care, Beyond, Before
      <4>5. \A n \in 0 .. Names : store'[<<r.to, n>>] \notin Care'
        BY <1>1, <4>2 DEF Care
      <4> QED
        BY <2>1, <4>1, <4>4, <4>5 DEF Safe, Harmless
    <3>3. CASE r.pc = "list again"
      <4>1. q.pc = "delete" /\ r.op = "move"
        BY <1>2, <2>2, <3>3
      <4>2. ASSUME NEW n \in 0 .. Names, <<f, n>> \in keys, store[<<f, n>>] \in Care
            PROVE  store[<<r.to, n>>] = store[<<f, n>>]
        <5>1. n \in 1 .. Names
          BY <2>3, <4>2
        <5>2. ~Beyond(f, n)
          BY <1>2, <1>3, <4>2, <5>1, WithinListing
        <5>3. <<f, n>> \notin r.todo
          BY <1>2
        <5> QED
          BY <1>2, <3>3, <4>1, <4>2, <5>2, <5>3 DEF Harmless, Copied1
      <4>3. \A n \in 0 .. Names : <<f, n>> \in keys /\ store'[<<f, n>>] \in Care' => store'[<<r.to, n>>] = store'[<<f, n>>]
        BY <1>1, <4>2 DEF Care
      <4> QED
        BY <2>1, <4>1, <4>3 DEF Safe, Harmless, Copied1
    <3> QED
      BY <1>1, <1>2, <3>1, <3>2, <3>3
  <2> QED
    BY <1>1, <2>1, <2>4, <2>5, <2>7, Still
<1> QED
  BY <1>3, <1>4, <1>5

LEMMA WalkStep == ASSUME BInv, NEW h \in Handler, Walk(h) PROVE BInv'
<1> DEFINE r == moving[h]
           q == moving'[h]
           f == r.from
           keys == {k \in Key : k[1] = f /\ store[k] # None}
<1>1. r.pc = "walk" /\ UNCHANGED <<store, made, wanted, exposed>>
  BY DEF Walk
<1>2. /\ Types /\ MoveType(r) /\ Harmless(r) /\ r.op \in {"move", "copy"} /\ f \in Folder
      /\ r.to \in Folder /\ f # r.to
  BY <1>1, StepOf
<1>3. CASE Fail(h)
  BY <1>1, <1>3, StillFails
<1>4. CASE Goto(h, "copy", keys)
  <2>1. /\ DOMAIN q = DOMAIN NoMove /\ q.pc = "copy" /\ q.todo = keys
        /\ q.op = r.op /\ q.from = f /\ q.to = r.to /\ q.name = r.name /\ q.met = r.met
    BY <1>2, <1>4, GotoFields
  <2>2. r.name \in 0 .. Names /\ r.met \in BOOLEAN
    BY <1>2 DEF MoveType
  <2>3. MoveType(q)
    BY <1>2, <2>1, <2>2 DEF MoveType
  <2>4. \A n \in 0 .. Names : store[<<r.to, n>>] \notin Care
    BY <1>1, <1>2, Keys DEF Harmless, Quiet
  <2>5. \A n \in 0 .. Names : store[<<f, n>>] \in Care => <<f, n>> \in keys
    BY <1>2, Keys, NoneIsNoContent
  <2>6. /\ \A n \in 0 .. Names : store'[<<r.to, n>>] \notin Care'
        /\ \A n \in 0 .. Names : store'[<<f, n>>] \in Care' => <<f, n>> \in keys
    BY <1>1, <2>4, <2>5 DEF Care
  <2> HIDE DEF keys
  <2>7. Safe(moving[h])'
    BY <2>1, <2>6 DEF Safe, Harmless
  <2> QED
    BY <1>1, <1>4, <2>3, <2>7, StillGoesTo
<1> QED
  BY <1>3, <1>4 DEF Walk

LEMMA CopiedStep == ASSUME BInv, NEW h \in Handler, Copied(h) PROVE BInv'
<1> DEFINE r == moving[h]
           q == moving'[h]
           f == r.from
<1>1. r.pc = "copy" /\ r.todo = {} /\ UNCHANGED <<store, made, wanted, exposed>>
  BY DEF Copied
<1>2. /\ Types /\ MoveType(r) /\ Harmless(r) /\ r.op \in {"move", "copy"} /\ f \in Folder
      /\ r.to \in Folder /\ f # r.to
  BY <1>1, StepOf
<1>3. CASE Fail(h)
  BY <1>1, <1>3, StillFails
<1>4. ASSUME r.op = "move",
             NEW pc, pc = IF r.from \in Drive THEN "remove all" ELSE "head again", Goto(h, pc, {})
      PROVE  BInv'
  <2>1. /\ DOMAIN q = DOMAIN NoMove /\ q.pc = pc /\ q.todo = {}
        /\ q.op = "move" /\ q.from = f /\ q.to = r.to /\ q.name = r.name /\ q.met = r.met
    BY <1>2, <1>4, GotoFields, ZenonT(40)
  <2>2. r.name \in 0 .. Names /\ r.met \in BOOLEAN
    BY <1>2 DEF MoveType
  <2>3. MoveType(q)
    BY <1>2, <1>4, <2>1, <2>2 DEF MoveType
  <2>4. ASSUME NEW n \in 0 .. Names, store'[<<q.from, n>>] \in Care'
        PROVE  \/ store'[<<q.to, n>>] = store'[<<q.from, n>>]
               \/ Beyond(f, n)'
               \/ n # 0 /\ q.from \notin Drive /\ store'[Self(q.from)] # None
    <3>1. store[<<f, n>>] \in Care
      BY <1>1, <2>1, <2>4 DEF Care
    <3>2. \/ Copied1(r, n)
          \/ Beyond(f, n)
          \/ n # 0 /\ f \notin Drive /\ store[Self(f)] # None
      BY <1>1, <1>2, <3>1 DEF Harmless
    <3> QED
      BY <1>1, <2>1, <3>2 DEF Copied1, Beyond, Before
  <2>5. Safe(moving[h])'
    BY <1>4, <2>1, <2>4 DEF Safe, Harmless, Copied1, Self
  <2> QED
    BY <1>1, <1>4, <2>3, <2>5, StillGoesTo
<1>5. Fail(h) \/ (r.op = "move" /\ Goto(h, IF r.from \in Drive THEN "remove all" ELSE "head again", {}))
  BY DEF Copied, Succeed
<1> QED
  BY <1>3, <1>4, <1>5

LEMMA DeletedStep == ASSUME BInv, NEW h \in Handler, Deleted(h) PROVE BInv'
BY StillFails DEF Deleted, Succeed

LEMMA RequestFailsStep == ASSUME BInv, NEW h \in Handler, RequestFails(h) PROVE BInv'
BY StillFails DEF RequestFails

LEMMA UploadFailsStep == ASSUME BInv, NEW h \in Handler, UploadFails(h) PROVE BInv'
BY StillFails DEF UploadFails

LEMMA ProbeStep == ASSUME BInv, NEW h \in Handler, Probe(h) PROVE BInv'
<1> DEFINE r == moving[h]
           q == moving'[h]
           n == r.name + 1
<1>1. /\ r.pc = "probe" /\ r.name < Names /\ UNCHANGED <<store, made, wanted, exposed>>
      /\ moving' = [moving EXCEPT ![h].name = @ + 1,
                      ![h].pc = IF store[<<r.to, n>>] = None THEN "put" ELSE "probe"]
  BY DEF Probe
<1>2. Types /\ MoveType(r) /\ DOMAIN r = DOMAIN NoMove /\ r.op = "upload" /\ r.name \in 0 .. Names
  BY <1>1, StepOf DEF MoveType
<1>3. /\ OthersGoOn(h) /\ DOMAIN q = DOMAIN NoMove /\ q.name = n /\ q.todo = r.todo
      /\ q.pc = (IF store[<<r.to, n>>] = None THEN "put" ELSE "probe")
      /\ q.op = r.op /\ q.from = r.from /\ q.to = r.to /\ q.met = r.met
  <2> DEFINE c == IF store[<<r.to, n>>] = None THEN "put" ELSE "probe"
             x == [[r EXCEPT !.name = n] EXCEPT !.pc = c]
  <2>1. DOMAIN moving = Handler
    BY <1>2 DEF Types
  <2>2. moving' = [moving EXCEPT ![h] = x]
    BY <1>1, <2>1
  <2> HIDE DEF c, n
  <2>3. /\ DOMAIN x = DOMAIN NoMove /\ x.pc = c /\ x.todo = r.todo
        /\ x.op = r.op /\ x.from = r.from /\ x.to = r.to /\ x.name = n /\ x.met = r.met
    BY <1>2 DEF NoMove
  <2> HIDE DEF x
  <2>4. OthersGoOn(h)
    BY <1>2, <2>1, <2>2, AlikeItself DEF OthersGoOn, Types
  <2>5. q = x
    BY <2>1, <2>2
  <2> QED
    BY <2>3, <2>4, <2>5 DEF c
<1>4. q.name \in 0 .. Names
  BY <1>1, <1>2, <1>3, BucketAssumption
<1>5. MoveType(q)
  BY <1>1, <1>2, <1>3, <1>4 DEF MoveType
<1>6. q.pc = "put" => store'[<<q.to, q.name>>] \notin Care'
  BY <1>1, <1>2, <1>3, NoneIsNoContent DEF Care
<1>7. Safe(moving[h])'
  BY <1>2, <1>3, <1>6 DEF Safe
<1>8. Uses(h)' \subseteq Uses(h) /\ exposed' \subseteq 1 .. made
  BY <1>1, <1>2, <1>3 DEF Uses, Types
<1> QED
  BY <1>1, <1>3, <1>5, <1>7, <1>8, Still

----------------------------------------------------------------------------
(* The steps that write *)

\* A content somewhere else.
LEMMA StillThere ==
  ASSUME Types, Types', NothingLost, Care' \subseteq Care,
         \A k \in Key : store[k] \in Care' => \E j \in Key : store'[j] = store[k]
  PROVE  NothingLost'
<1>1. DOMAIN store = Key /\ DOMAIN store' = Key
  BY DEF Types
<1>2. ASSUME NEW c \in Care' PROVE c \in Range(store')
  <2>1. PICK k \in Key : store[k] = c
    BY <1>1 DEF NothingLost, Range, Care
  <2> QED
    BY <1>1, <2>1 DEF Range
<1> QED
  BY <1>2 DEF NothingLost, Care

LEMMA CopyKeyStep == ASSUME BInv, NEW h \in Handler, NEW k \in Key, CopyKey(h, k) PROVE BInv'
<1> DEFINE r == moving[h]
           q == moving'[h]
           f == r.from
           t == r.to
           m == k[2]
<1>1. /\ r.pc = "copy" /\ k \in r.todo /\ store[k] # None /\ UNCHANGED <<made, wanted, exposed>>
      /\ store' = [store EXCEPT ![<<t, m>>] = store[k]]
  BY DEF CopyKey, Mapped
<1>2. /\ Types /\ MoveType(r) /\ Harmless(r) /\ r.op \in {"move", "copy"} /\ f \in Folder
      /\ t \in Folder /\ f # t /\ f # None /\ t # None
  BY <1>1, StepOf, BucketAssumption
<1>3. k = <<f, m>> /\ m \in 0 .. Names /\ <<t, m>> \in Key /\ <<t, m>>[1] = t
  BY <1>1, <1>2, Keys DEF MoveType
<1>4. DOMAIN store = Key /\ store[k] \in 1 .. made
  BY <1>1, <1>2 DEF Types
<1>5. /\ store' \in [Key -> 1 .. made' \cup {None}]
      /\ store'[<<t, m>>] = store[<<f, m>>]
      /\ \A j \in Key : j # <<t, m>> => store'[j] = store[j]
  BY <1>1, <1>2, <1>3, <1>4 DEF Types
<1>6. /\ \A n \in 0 .. Names : store'[<<f, n>>] = store[<<f, n>>]
      /\ \A n \in 0 .. Names : n # m => store'[<<t, n>>] = store[<<t, n>>]
  BY <1>2, <1>3, <1>5, Keys
<1>7. /\ OthersGoOn(h) /\ MoveType(q) /\ q.pc = "copy" /\ q.todo \in {r.todo, r.todo \ {k}}
      /\ q.op = r.op /\ q.from = f /\ q.to = t
  <2>1. CASE Goto(h, "copy", r.todo \ {k})
    <3>1. /\ OthersGoOn(h) /\ DOMAIN q = DOMAIN NoMove /\ q.pc = "copy" /\ q.todo = r.todo \ {k}
          /\ q.op = r.op /\ q.from = f /\ q.to = t /\ q.name = r.name /\ q.met = r.met
      BY <1>2, <2>1, GotoFields
    <3>2. r.name \in 0 .. Names /\ r.met \in BOOLEAN /\ r.todo \subseteq Key /\ \A j \in r.todo : j[1] = f
      BY <1>2 DEF MoveType
    <3>3. MoveType(q)
      BY <1>2, <3>1, <3>2 DEF MoveType
    <3> QED
      BY <3>1, <3>3
  <2>2. CASE UNCHANGED moving
    BY <1>1, <1>2, <2>2, StayFields
  <2> QED
    BY <2>1, <2>2 DEF CopyKey
<1>8. Types'
  BY <1>1, <1>2, <1>5, <1>7, TypesKept DEF Types
<1>9. Care' = Care
  BY <1>1 DEF Care
<1>10. Uses(h) = {f, t} /\ Uses(h)' \subseteq Uses(h)
  BY <1>2, <1>7 DEF Uses
<1>11. ASSUME NEW g \in Handler \ {h}, NEW j \in Key, Overlap(g, h) PROVE Kept(j)
  <2>1. Quiet(Uses(g) \cup Uses(h))
    BY <1>11 DEF BInv, Apart
  <2>2. store[k] \notin Care
    BY <1>3, <1>10, <2>1 DEF Quiet
  <2> QED
    BY <1>3, <1>5, <1>9, <2>2 DEF Kept
<1>12. ASSUME NEW g \in Handler \ {h}, NEW j \in Key, ~Overlap(g, h), j[1] \in Uses(g) PROVE Settled(j)
  <2>1. j[1] # t
    BY <1>10, <1>12 DEF Overlap
  <2>2. store'[j] = store[j]
    BY <1>3, <1>5, <2>1
  <2> QED
    BY <1>9, <2>2 DEF Settled
<1>13. Mild(h)
  BY <1>11, <1>12 DEF Mild
<1>14. ASSUME NEW n \in 0 .. Names, store'[<<t, n>>] \in Care'
       PROVE  store'[<<t, n>>] = store'[<<f, n>>]
  <2>1. CASE n = m
    BY <1>3, <1>5, <1>6, <2>1
  <2>2. CASE n # m
    BY <1>1, <1>2, <1>6, <1>9, <1>14, <2>2 DEF Harmless, Copied1
  <2> QED
    BY <2>1, <2>2
<1>15. ASSUME NEW n \in 0 .. Names, store'[<<f, n>>] \in Care'
       PROVE  \/ <<f, n>> \in q.todo
              \/ store'[<<t, n>>] = store'[<<f, n>>]
              \/ Beyond(f, n)'
              \/ n # 0 /\ f \notin Drive /\ store'[Self(f)] # None
  <2>1. CASE n = m
    BY <1>3, <1>5, <1>6, <2>1
  <2>2. CASE n # m
    <3>1. store[<<f, n>>] \in Care
      BY <1>6, <1>9, <1>15
    <3>2. \/ <<f, n>> \in r.todo
          \/ Copied1(r, n)
          \/ Beyond(f, n)
          \/ n # 0 /\ f \notin Drive /\ store[Self(f)] # None
      BY <1>1, <1>2, <3>1 DEF Harmless
    <3>3. <<f, n>> \in r.todo => <<f, n>> \in q.todo
      BY <1>3, <1>7, <2>2
    <3>4. Copied1(r, n) => store'[<<t, n>>] = store'[<<f, n>>]
      BY <1>6, <2>2 DEF Copied1
    <3>5. \A i \in 1 .. Names : store[<<f, i>>] # None => store'[<<f, i>>] # None
      BY <1>6
    <3>6. PICK g : g = f
      OBVIOUS
    <3>7. Beyond(g, n) => Beyond(g, n)'
      BY <3>5, <3>6, BeyondStays
    <3>8. Beyond(f, n) => Beyond(f, n)'
      BY <1>7, <3>6, <3>7 DEF Beyond, Before
    <3>9. store'[Self(f)] = store[Self(f)]
      BY <1>6, Keys DEF Self
    <3> QED
      BY <3>2, <3>3, <3>4, <3>8, <3>9
  <2> QED
    BY <2>1, <2>2
<1>16. Safe(moving[h])'
  BY <1>7, <1>14, <1>15 DEF Safe, Harmless, Copied1, Self
<1>17. Apart' /\ \A g \in Handler : Safe(moving[g])'
  BY <1>7, <1>8, <1>10, <1>13, <1>16, Carry DEF BInv
<1>18. ASSUME NEW j \in Key, store[j] \in Care' PROVE \E i \in Key : store'[i] = store[j]
  <2>1. CASE j # <<t, m>>
    BY <1>5, <2>1
  <2>2. CASE j = <<t, m>>
    <3>1. store[<<t, m>>] = store[<<f, m>>]
      BY <1>1, <1>2, <1>3, <1>9, <1>18, <2>2 DEF Harmless, Copied1
    <3> QED
      BY <1>3, <1>5, <2>2, <3>1
  <2> QED
    BY <2>1, <2>2
<1>19. NothingLost'
  BY <1>2, <1>8, <1>9, <1>18, StillThere DEF BInv
<1> QED
  BY <1>8, <1>17, <1>19 DEF BInv

LEMMA CopyFailsStep == ASSUME BInv, NEW h \in Handler, NEW k \in Key, CopyFails(h, k) PROVE BInv'
<1> DEFINE r == moving[h]
           t == r.to
           m == k[2]
<1>1. /\ r.pc = "copy" /\ k \in r.todo /\ UNCHANGED <<made, wanted, exposed>> /\ Fail(h)
      /\ store' = store \/ store' = [store EXCEPT ![<<t, m>>] = None]
  BY DEF CopyFails, Mapped
<1>2. CASE UNCHANGED store
  BY <1>1, <1>2, StillFails
<1>3. CASE store' = [store EXCEPT ![<<t, m>>] = None]
  <2>1. /\ Types /\ MoveType(r) /\ Harmless(r) /\ r.from \in Folder /\ r.from # t
        /\ t \in Folder /\ t # None
    BY <1>1, StepOf, BucketAssumption
  <2>2. k = <<r.from, m>> /\ m \in 0 .. Names /\ <<t, m>> \in Key /\ <<t, m>>[1] = t /\ k # <<t, m>>
    BY <1>1, <2>1, Keys DEF MoveType
  <2>3. /\ store' \in [Key -> 1 .. made' \cup {None}] /\ store'[<<t, m>>] = None
        /\ \A j \in Key : j # <<t, m>> => store'[j] = store[j]
    BY <1>1, <1>3, <2>1, <2>2 DEF Types
  <2>4. OthersGoOn(h) /\ MoveType(moving'[h]) /\ Uses(h)' \subseteq Uses(h) /\ Safe(moving[h])'
    BY <1>1, <2>1, FailFields, EndOfMove
  <2>5. Types' /\ Care' = Care
    BY <1>1, <2>1, <2>3, <2>4, TypesKept DEF Types, Care
  <2>6. Mild(h)
    BY <2>1, <2>2, <2>3, <2>5, Trimming DEF Uses
  <2>7. ASSUME NEW j \in Key, store[j] \in Care' PROVE \E i \in Key : store'[i] = store[j]
    <3>1. CASE j # <<t, m>>
      BY <2>3, <3>1
    <3>2. CASE j = <<t, m>>
      <4>1. store[<<t, m>>] = store[k]
        BY <1>1, <2>1, <2>2, <2>5, <2>7, <3>2 DEF Harmless, Copied1
      <4> QED
        BY <2>2, <2>3, <3>2, <4>1
    <3> QED
      BY <3>1, <3>2
  <2>8. NothingLost'
    BY <2>1, <2>5, <2>7, StillThere DEF BInv
  <2> QED
    BY <2>4, <2>5, <2>6, <2>8, Carry DEF BInv
<1> QED
  BY <1>1, <1>2, <1>3

LEMMA DeleteKeyStep == ASSUME BInv, NEW h \in Handler, NEW k \in Key, DeleteKey(h, k) PROVE BInv'
<1> DEFINE r == moving[h]
           q == moving'[h]
           f == r.from
           t == r.to
           m == k[2]
<1>1. /\ r.pc = "delete" /\ k \in r.todo /\ UNCHANGED <<made, exposed>>
      /\ store' = [store EXCEPT ![k] = None]
      /\ wanted' = wanted \ Unwanted(h, {k})
  BY DEF DeleteKey
<1>2. /\ Types /\ MoveType(r) /\ f \in Folder /\ f # None
      /\ r.op \in {"move", "copy"} => Harmless(r) /\ f # t /\ t \in Folder
  BY <1>1, StepOf, BucketAssumption
<1>3. k = <<f, m>> /\ m \in 0 .. Names /\ k[1] = f
  BY <1>1, <1>2, Keys DEF MoveType
<1>4. /\ store' \in [Key -> 1 .. made' \cup {None}] /\ store'[k] = None
      /\ \A j \in Key : j # k => store'[j] = store[j]
  BY <1>1, <1>2 DEF Types
<1>5. /\ OthersGoOn(h) /\ MoveType(q) /\ q.pc = "delete" /\ q.todo \in {r.todo, r.todo \ {k}}
      /\ q.op = r.op /\ q.from = f /\ q.to = t
  <2>1. CASE Goto(h, "delete", r.todo \ {k})
    <3>1. /\ OthersGoOn(h) /\ DOMAIN q = DOMAIN NoMove /\ q.pc = "delete" /\ q.todo = r.todo \ {k}
          /\ q.op = r.op /\ q.from = f /\ q.to = t /\ q.name = r.name /\ q.met = r.met
      BY <1>2, <2>1, GotoFields
    <3>2. r.name \in 0 .. Names /\ r.met \in BOOLEAN /\ r.todo \subseteq Key /\ \A j \in r.todo : j[1] = f
      BY <1>2 DEF MoveType
    <3>3. MoveType(q)
      BY <1>1, <1>2, <3>1, <3>2 DEF MoveType
    <3> QED
      BY <3>1, <3>3
  <2>2. CASE UNCHANGED moving
    BY <1>1, <1>2, <2>2, StayFields
  <2> QED
    BY <2>1, <2>2 DEF DeleteKey
<1>6. wanted' \subseteq wanted
  BY <1>1
<1>7. Types' /\ Care' \subseteq Care
  BY <1>1, <1>2, <1>4, <1>5, <1>6, TypesKept DEF Types, Care
<1>8. Mild(h) /\ Uses(h)' \subseteq Uses(h)
  BY <1>2, <1>3, <1>4, <1>5, <1>7, Trimming DEF Uses
<1>9. None \notin Care'
  BY <1>2, <1>7, NoneIsNoContent
<1>10. Safe(moving[h])'
  <2>1. CASE r.op \in {"move", "copy"}
    <3>1. ASSUME NEW n \in 0 .. Names, <<f, n>> \in q.todo, store'[<<f, n>>] \in Care'
          PROVE  store'[<<t, n>>] = store'[<<f, n>>]
      <4>1. <<f, n>> # k /\ <<f, n>> \in r.todo /\ <<f, n>> \in Key
        BY <1>2, <1>4, <1>5, <1>9, <3>1, Keys
      <4>2. store'[<<f, n>>] = store[<<f, n>>] /\ store[<<f, n>>] \in Care
        BY <1>4, <1>7, <3>1, <4>1
      <4>3. store[<<t, n>>] = store[<<f, n>>]
        BY <1>1, <1>2, <2>1, <4>1, <4>2 DEF Harmless, Copied1
      <4>4. <<t, n>> \in Key /\ <<t, n>> # k
        BY <1>2, <1>3, <2>1, Keys
      <4> QED
        BY <1>4, <4>2, <4>3, <4>4
    <3> QED
      BY <1>5, <3>1 DEF Safe, Harmless, Copied1
  <2>2. CASE r.op \notin {"move", "copy"}
    BY <1>5, <2>2 DEF Safe
  <2> QED
    BY <2>1, <2>2
<1>11. ASSUME NEW j \in Key, store[j] \in Care' PROVE \E i \in Key : store'[i] = store[j]
  <2>1. CASE j # k
    BY <1>4, <2>1
  <2>2. CASE j = k /\ r.op = "delete"
    BY <1>1, <1>11, <2>2 DEF Unwanted, Care
  <2>3. CASE j = k /\ r.op \in {"move", "copy"}
    <3>1. store[<<t, m>>] = store[k]
      BY <1>1, <1>2, <1>3, <1>7, <1>11, <2>3 DEF Harmless, Copied1
    <3>2. <<t, m>> \in Key /\ <<t, m>> # k
      BY <1>2, <1>3, <2>3, Keys
    <3> QED
      BY <1>4, <2>3, <3>1, <3>2
  <2> QED
    BY <1>1, <2>1, <2>2, <2>3, StepOf
<1>12. NothingLost'
  BY <1>2, <1>7, <1>11, StillThere DEF BInv
<1> QED
  BY <1>2, <1>5, <1>7, <1>8, <1>10, <1>12, Carry DEF BInv

LEMMA RemoveAllStep == ASSUME BInv, NEW h \in Handler, RemoveAll(h) PROVE BInv'
<1> DEFINE r == moving[h]
           f == r.from
           t == r.to
<1>1. /\ r.pc = "remove all" /\ UNCHANGED <<made, wanted, exposed>> /\ Fail(h)
      /\ store' = [k \in Key |-> IF k[1] = f THEN None ELSE store[k]]
  BY DEF RemoveAll, Succeed
<1>2. /\ Types /\ MoveType(r) /\ Harmless(r) /\ f \in Folder /\ t \in Folder /\ f # t /\ f # None
      /\ f \in Drive /\ r.todo = {}
  BY <1>1, StepOf, BucketAssumption DEF MoveType
<1>3. /\ store' \in [Key -> 1 .. made' \cup {None}]
      /\ \A j \in Key : store'[j] = store[j] \/ (store'[j] = None /\ j[1] = f)
      /\ \A j \in Key : j[1] # f => store'[j] = store[j]
  BY <1>1, <1>2 DEF Types
<1>4. OthersGoOn(h) /\ MoveType(moving'[h]) /\ Uses(h)' \subseteq Uses(h) /\ Safe(moving[h])'
  BY <1>1, <1>2, FailFields, EndOfMove
<1>5. Types' /\ Care' = Care
  BY <1>1, <1>2, <1>3, <1>4, TypesKept DEF Types, Care
<1>6. Mild(h)
  BY <1>2, <1>3, <1>5, Trimming DEF Uses
<1>7. ASSUME NEW j \in Key, store[j] \in Care' PROVE \E i \in Key : store'[i] = store[j]
  <2>1. CASE j[1] # f
    BY <1>3, <2>1
  <2>2. CASE j[1] = f
    <3> DEFINE n == j[2]
    <3>1. n \in 0 .. Names /\ j = <<f, n>> /\ <<t, n>> \in Key /\ <<t, n>>[1] = t
      BY <1>2, <2>2, Keys
    <3>2. ~Beyond(f, n)
      BY <1>2 DEF Beyond
    <3>3. store[<<t, n>>] = store[j]
      BY <1>1, <1>2, <1>5, <1>7, <3>1, <3>2 DEF Harmless, Copied1
    <3> QED
      BY <1>2, <1>3, <3>1, <3>3
  <2> QED
    BY <2>1, <2>2
<1>8. NothingLost'
  BY <1>2, <1>5, <1>7, StillThere DEF BInv
<1> QED
  BY <1>2, <1>4, <1>5, <1>6, <1>8, Carry DEF BInv

\* A content is written where nothing is cared for, or where what is there is given up.
LEMMA Writing ==
  ASSUME BInv, NEW h \in Handler, NEW f \in Folder, NEW n \in 0 .. Names, OthersGoOn(h), MoveType(moving'[h]),
         Uses(h) \subseteq {f}, Uses(h)' \subseteq Uses(h), Safe(moving[h])',
         made < MaxWrites + 2, made' = made + 1, store' = [store EXCEPT ![<<f, n>>] = made + 1],
         store[<<f, n>>] \notin wanted' \ exposed,
         wanted' \subseteq wanted \cup {made + 1},
         exposed' = exposed \cup (IF Beside(h, {f}) = {} THEN {} ELSE {made + 1})
  PROVE  BInv'
<1> DEFINE k == <<f, n>>
<1>1. Types /\ k \in Key /\ k[1] = f /\ f # None /\ made \in Nat
  BY Keys, BucketAssumption DEF BInv, Types
<1>2. /\ store' \in [Key -> 1 .. made' \cup {None}] /\ store'[k] = made + 1
      /\ \A j \in Key : j # k => store'[j] = store[j]
  <2>1. store' \in [Key -> 1 .. made + 1 \cup {None}]
    BY <1>1 DEF Types
  <2> QED
    BY <1>1, <2>1 DEF Types
<1>3. /\ made' \in 2 .. MaxWrites + 2 /\ wanted' \subseteq 1 .. made' /\ exposed' \subseteq 1 .. made'
      /\ made + 1 \notin Care
  <2>1. /\ made \in 2 .. MaxWrites + 2 /\ wanted \subseteq 1 .. made /\ exposed \subseteq 1 .. made
    BY <1>1 DEF Types
  <2>2. MaxWrites \in Nat
    BY BucketAssumption
  <2> QED
    BY <2>1, <2>2 DEF Care
<1>4. Types'
  BY <1>1, <1>2, <1>3, TypesKept
<1>5. made + 1 # None
  BY <1>1, <1>3, BucketAssumption
<1>6. Care' \subseteq Care \cup {made + 1}
  BY DEF Care
<1>7. \A j \in Key : store[j] # made + 1
  BY <1>1, <1>5 DEF Types
<1>8. \A j \in Key : store[j] \in Care' => store[j] \in Care
  BY <1>6, <1>7
<1>9. store[k] \notin Care'
  BY DEF Care
<1>10. ASSUME NEW g \in Handler \ {h}, Overlap(g, h) \/ f \in Uses(g) PROVE store'[k] \notin Care'
  <2>1. f \in Uses(g)
    BY <1>10 DEF Overlap
  <2>2. g \in Beside(h, {f})
    BY <1>1, <2>1 DEF Beside, Uses
  <2> QED
    BY <1>2, <2>2 DEF Care
<1>11. ASSUME NEW g \in Handler \ {h}, NEW j \in Key, Overlap(g, h) PROVE Kept(j)
  <2>1. CASE j = k
    BY <1>10, <1>11, <2>1 DEF Kept
  <2>2. CASE j # k
    BY <1>2, <1>8, <2>2 DEF Kept
  <2> QED
    BY <2>1, <2>2
<1>12. ASSUME NEW g \in Handler \ {h}, NEW j \in Key, j[1] \in Uses(g) PROVE Settled(j)
  <2>1. CASE j = k
    <3>1. store'[k] \notin Care' /\ store'[k] # None
      BY <1>1, <1>2, <1>5, <1>10, <1>12, <2>1
    <3> QED
      BY <1>8, <1>9, <2>1, <3>1 DEF Settled
  <2>2. CASE j # k
    BY <1>2, <1>8, <2>2 DEF Settled
  <2> QED
    BY <2>1, <2>2
<1>13. Mild(h)
  BY <1>11, <1>12 DEF Mild
<1>14. ASSUME NEW c \in Care' PROVE c \in Range(store')
  <2>1. DOMAIN store = Key /\ DOMAIN store' = Key
    BY <1>1, <1>2 DEF Types
  <2>2. CASE c = made + 1
    BY <1>1, <1>2, <2>1, <2>2 DEF Range
  <2>3. CASE c # made + 1
    <3>1. PICK j \in Key : store[j] = c
      BY <1>6, <2>1, <2>3 DEF BInv, NothingLost, Range, Care
    <3>2. j # k
      BY <1>9, <3>1
    <3> QED
      BY <1>2, <2>1, <3>1, <3>2 DEF Range
  <2> QED
    BY <2>2, <2>3
<1>15. NothingLost'
  BY <1>14 DEF NothingLost, Care
<1> QED
  BY <1>1, <1>4, <1>13, <1>15, Carry DEF BInv

LEMMA UploadPutStep == ASSUME BInv, NEW h \in Handler, UploadPut(h) PROVE BInv'
<1> DEFINE r == moving[h]
<1>1. r.pc = "put" /\ Put(h, <<r.to, r.name>>, {r.to}) /\ Fail(h)
  BY DEF UploadPut
<1>2. /\ Types /\ MoveType(r) /\ r.to \in Folder /\ r.from = None /\ r.name \in 0 .. Names
      /\ store[<<r.to, r.name>>] \notin Care
  BY <1>1, StepOf DEF MoveType, Safe
<1>3. OthersGoOn(h) /\ MoveType(moving'[h]) /\ Uses(h)' \subseteq Uses(h) /\ Safe(moving[h])'
  BY <1>1, <1>2, FailFields, EndOfMove
<1>4. Uses(h) \subseteq {r.to}
  BY <1>2 DEF Uses
<1>5. store[<<r.to, r.name>>] # made + 1
  <2>1. <<r.to, r.name>> \in Key
    BY <1>2, Keys
  <2>2. store[<<r.to, r.name>>] \in 1 .. made \cup {None} /\ made \in Nat
    BY <1>2, <2>1 DEF Types
  <2>3. made < MaxWrites + 2
    BY <1>1 DEF Put
  <2> QED
    BY <2>2, <2>3, BucketAssumption
<1>6. store[<<r.to, r.name>>] \notin wanted' \ exposed
  BY <1>1, <1>2, <1>5 DEF Put, Care
<1> QED
  BY <1>1, <1>2, <1>3, <1>4, <1>6, Writing DEF Put

\* A write of one step.
LEMMA WriteFields ==
  ASSUME BInv, NEW h \in Handler, moving[h].pc = "idle", NEW F, Meet(h, F, NoMove)
  PROVE  OthersGoOn(h) /\ MoveType(moving'[h]) /\ Uses(h) = {} /\ Uses(h)' = {} /\ Safe(moving[h])'
<1>1. Types /\ MoveType(moving[h])
  BY DEF BInv, Types
<1>2. DOMAIN moving'[h] = DOMAIN NoMove /\ OthersGoOn(h)
  BY <1>1, MeetFields
<1>3. /\ moving'[h].pc = NoMove.pc /\ moving'[h].todo = NoMove.todo /\ moving'[h].op = NoMove.op
      /\ moving'[h].from = NoMove.from /\ moving'[h].to = NoMove.to /\ moving'[h].name = NoMove.name
  BY <1>1, MeetFields
<1>4. moving'[h].met = (NoMove # NoMove /\ Beside(h, F) # {})
  BY <1>1, MeetFields
<1>5. moving'[h].met \in BOOLEAN
  BY <1>4
<1>6. /\ moving'[h].pc = "idle" /\ moving'[h].todo = {} /\ moving'[h].op = "none"
      /\ moving'[h].from = None /\ moving'[h].to = None /\ moving'[h].name = 0
  BY <1>3 DEF NoMove
<1>7. MoveType(moving'[h])
  BY <1>2, <1>5, <1>6, BucketAssumption DEF MoveType
<1>8. Uses(h) = {} /\ Uses(h)' = {} /\ Safe(moving[h])'
  BY <1>1, <1>6 DEF MoveType, Uses, Safe
<1> QED
  BY <1>2, <1>7, <1>8

LEMMA UploadToDriveStep ==
  ASSUME BInv, NEW h \in Handler, NEW f \in Folder, NEW n \in 1 .. Names, UploadToDrive(h, f, n)
  PROVE  BInv'
<1>1. moving[h].pc = "idle" /\ store[<<f, n>>] = None /\ Put(h, <<f, n>>, {f}) /\ Meet(h, {f}, NoMove)
  BY DEF UploadToDrive
<1>2. OthersGoOn(h) /\ MoveType(moving'[h]) /\ Uses(h) = {} /\ Uses(h)' = {} /\ Safe(moving[h])'
  BY <1>1, WriteFields
<1>3. n \in 0 .. Names
  OBVIOUS
<1>4. made < MaxWrites + 2 /\ made + 1 \in 1 .. MaxWrites + 2 /\ wanted \subseteq 1 .. MaxWrites + 2
  BY <1>1, BucketAssumption DEF Put, BInv, Types
<1>5. store[<<f, n>>] \notin wanted' \ exposed
  BY <1>1, <1>4, BucketAssumption DEF Put
<1> QED
  BY <1>1, <1>2, <1>3, <1>5, Writing DEF Put

LEMMA WriteS3Step ==
  ASSUME BInv, NEW h \in Handler, NEW f \in Folder, NEW n \in 1 .. Names, WriteS3(h, f, n)
  PROVE  BInv'
<1>1. /\ moving[h].pc = "idle" /\ store[<<f, n>>] # None /\ Meet(h, {f}, NoMove)
      /\ made < MaxWrites + 2 /\ made' = made + 1
      /\ store' = [store EXCEPT ![<<f, n>>] = made + 1]
      /\ wanted' = (wanted \ {store[<<f, n>>]}) \cup {made + 1}
      /\ exposed' = exposed \cup (IF Beside(h, {f}) = {} THEN {} ELSE {made + 1})
  BY DEF WriteS3
<1>2. OthersGoOn(h) /\ MoveType(moving'[h]) /\ Uses(h) = {} /\ Uses(h)' = {} /\ Safe(moving[h])'
  BY <1>1, WriteFields
<1>3. n \in 0 .. Names
  OBVIOUS
<1>4. store[<<f, n>>] \in 1 .. made /\ made \in Nat
  BY <1>1, <1>3, Keys DEF BInv, Types
<1>5. store[<<f, n>>] \notin wanted'
  BY <1>1, <1>4
<1> QED
  BY <1>1, <1>2, <1>3, <1>5, Writing

LEMMA BucketRestartStep == ASSUME BInv, BucketRestart PROVE BInv'
<1>1. UNCHANGED <<store, made, wanted, exposed>> /\ moving' = [h \in Handler |-> NoMove]
  BY DEF BucketRestart
<1>2. \A g \in Handler : moving'[g].from = None /\ moving'[g].to = None /\ moving'[g].op = "none" /\ moving'[g].pc = "idle"
  BY <1>1 DEF NoMove
<1>3. Types'
  BY <1>1, NoMoveType DEF BInv, Types, MoveType
<1>4. Apart' /\ \A g \in Handler : Safe(moving[g])'
  BY <1>2 DEF Apart, Overlap, Uses, Safe
<1>5. NothingLost'
  BY <1>1 DEF BInv, NothingLost
<1> QED
  BY <1>3, <1>4, <1>5 DEF BInv

----------------------------------------------------------------------------
(* Nothing is lost *)

LEMMA BInvStarts == ASSUME BucketInit PROVE BInv
<1>1. PICK f \in Folder, n \in {0, 1} :
        store = [k \in Key |-> IF k = <<f, n>> THEN 1 ELSE IF k = <<f, n + 1>> THEN 2 ELSE None]
  BY DEF BucketInit
<1>2. /\ made = 2 /\ wanted = {1, 2} /\ exposed = {} /\ moving = [h \in Handler |-> NoMove]
  BY DEF BucketInit
<1>3. \A g \in Handler : moving[g] = NoMove
  BY <1>2
<1>4. \A g \in Handler : moving[g].from = None /\ moving[g].to = None /\ moving[g].op = "none" /\ moving[g].pc = "idle"
  BY <1>3 DEF NoMove
<1>5. store \in [Key -> 1 .. made \cup {None}]
  <2>1. \A k \in Key : store[k] \in {1, 2, None}
    BY <1>1
  <2> QED
    BY <1>1, <1>2, <2>1
<1>6. made \in 2 .. MaxWrites + 2 /\ wanted \subseteq 1 .. made
  BY <1>2, BucketAssumption
<1>7. Types
  BY <1>2, <1>3, <1>5, <1>6, NoMoveType DEF Types
<1>8. Apart /\ \A g \in Handler : Safe(moving[g])
  BY <1>4 DEF Apart, Overlap, Uses, Safe
<1>9. /\ n \in 0 .. Names /\ n + 1 \in 0 .. Names /\ n + 1 # n
  BY BucketAssumption
<1>10. <<f, n>> \in Key /\ <<f, n + 1>> \in Key /\ <<f, n>> # <<f, n + 1>>
  BY <1>9, Keys
<1>11. 1 \in Range(store) /\ 2 \in Range(store)
  BY <1>1, <1>10 DEF Range
<1> QED
  BY <1>2, <1>7, <1>8, <1>11 DEF BInv, NothingLost

LEMMA BInvStays == ASSUME BInv, UNCHANGED bucketVars PROVE BInv'
<1>1. UNCHANGED <<store, made, moving, wanted, exposed>>
  BY DEF bucketVars
<1>2. Types'
  <2>1. (\A g \in Handler : MoveType(moving[g]))'
    <3>1. \A g \in Handler : MoveType(moving'[g])
      BY <1>1 DEF BInv, Types
    <3> QED
      BY <3>1 DEF MoveType
  <2> QED
    BY <1>1, <2>1 DEF BInv, Types
<1>3. Apart'
  BY <1>1 DEF BInv, Apart, Overlap, Uses, Quiet, Care
<1>4. ASSUME NEW g \in Handler PROVE Safe(moving[g])'
  <2>1. Safe(moving[g])
    BY DEF BInv
  <2> QED
    BY <1>1, <2>1 DEF Safe, Harmless, Quiet, Care, Copied1, Beyond, Before, Self
<1>5. NothingLost'
  BY <1>1 DEF BInv, NothingLost
<1> QED
  BY <1>2, <1>3, <1>4, <1>5 DEF BInv

LEMMA BInvSteps == ASSUME BInv, BucketNext PROVE BInv'
BY BucketRestartStep, AskStep, StatStep, HeadKeyStep, ListStep, WalkStep, CopiedStep, DeletedStep, RemoveAllStep,
   RequestFailsStep, CopyKeyStep, CopyFailsStep, DeleteKeyStep, ProbeStep, UploadPutStep, UploadFailsStep,
   UploadBeginStep, UploadToDriveStep, WriteS3Step
   DEF BucketNext

LEMMA ServerStep == Next => BucketNext \/ UNCHANGED bucketVars
BY DEF Next

LEMMA BInvNext == ASSUME BInv, [Next]_serverVars PROVE BInv'
<1>1. CASE BucketNext
  BY <1>1, BInvSteps
<1>2. CASE UNCHANGED bucketVars
  BY <1>2, BInvStays
<1>3. UNCHANGED serverVars => UNCHANGED bucketVars
  BY DEF serverVars
<1> QED
  BY <1>1, <1>2, <1>3, ServerStep

LEMMA BInvAlways == ServerSpec => []BInv
<1>1. Init => BInv
  BY BInvStarts DEF Init
<1>2. BInv /\ [Next]_serverVars => BInv'
  BY BInvNext
<1> QED
  BY <1>1, <1>2, PTL DEF ServerSpec

\* A content that was acknowledged, and that nobody deleted or replaced, is somewhere at every step of
\* every move, copy and delete, through failed and repeated requests and restarts
\* (mountfs.go moveAcross, renameS3, deleteS3), unless a second request was at work beside it.
THEOREM NothingIsLost == ServerSpec => []NothingLost
<1>1. BInv => NothingLost
  BY DEF BInv
<1> QED
  BY <1>1, BInvAlways, PTL

----------------------------------------------------------------------------
(* Finished is whole *)

\* Whoever shares a folder knows it.
Met == \A g, h \in Handler : Overlap(g, h) => moving[h].met

\* How far a request has come that met no other: what it was to bring about is still what its folder
\* holds, until it deletes; and it is copied, and deleted, but for what is still to do.
Whole(r) ==
  /\ r.pc \in {"stat", "head", "list", "walk", "copy", "head again", "list again", "remove all"} =>
       r.began = Due(r.from)
  /\ r.pc \in {"list", "list again"} => store[Self(r.from)] = None
  /\ r.pc = "copy" =>
       \A n \in DOMAIN r.began : <<r.from, n>> \in r.todo \/ store[<<r.to, n>>] = r.began[n]
  /\ r.op = "move" /\ r.pc \in {"head again", "list again", "remove all", "delete"} =>
       \A n \in DOMAIN r.began : store[<<r.to, n>>] = r.began[n]
  /\ r.pc = "delete" =>
       \A n \in DOMAIN r.began : n \in 0 .. Names /\ (<<r.from, n>> \in r.todo \/ store[<<r.from, n>>] = None)

WInv == Met /\ (\A h \in Handler : moving[h].met \/ Whole(moving[h])) /\ whole

LEMMA DueNames ==
  ASSUME NEW f
  PROVE  \A n \in DOMAIN Due(f) : /\ n \in 0 .. Names /\ Due(f)[n] = store[<<f, n>>] /\ store[<<f, n>>] # None
                                  /\ n > 0 => store[Self(f)] = None
BY DEF Due

LEMMA DueStays ==
  ASSUME NEW f, \A n \in 0 .. Names : store'[<<f, n>>] = store[<<f, n>>]
  PROVE  Due(f)' = Due(f)
<1>1. store'[Self(f)] = store[Self(f)]
  BY BucketAssumption DEF Self
<1> DEFINE D == {m \in 0 .. Names : store[<<f, m>>] # None /\ (m > 0 => store[Self(f)] = None)}
           E == {m \in 0 .. Names : store'[<<f, m>>] # None /\ (m > 0 => store'[Self(f)] = None)}
<1>2. D = E
  BY <1>1
<1>3. \A n \in D : store'[<<f, n>>] = store[<<f, n>>]
  OBVIOUS
<1>4. Due(f) = [n \in D |-> store[<<f, n>>]] /\ Due(f)' = [n \in E |-> store'[<<f, n>>]]
  BY DEF Due
<1> HIDE DEF D, E
<1> QED
  BY <1>2, <1>3, <1>4

\* A request goes on as it was while its folders stay as they are.
LEMMA WholeStays ==
  ASSUME Types, NEW r, NEW s, MoveType(r), Alike(s, r), Whole(r),
         \A k \in Key : k[1] \in {r.from, r.to} \ {None} => store'[k] = store[k]
  PROVE  Whole(s)'
<1>1. /\ s.op = r.op /\ s.pc = r.pc /\ s.from = r.from /\ s.to = r.to /\ s.name = r.name /\ s.todo = r.todo
      /\ s.began = r.began
  BY DEF Alike
<1>2. /\ r.from \in Folder => \A n \in 0 .. Names : store'[<<r.from, n>>] = store[<<r.from, n>>]
      /\ r.to \in Folder => \A n \in 0 .. Names : store'[<<r.to, n>>] = store[<<r.to, n>>]
  BY Keys, BucketAssumption
<1>3. CASE r.op \in {"move", "copy", "delete"}
  <2>1. r.from \in Folder /\ (r.op # "delete" => r.to \in Folder)
        /\ (r.op = "delete" => r.pc # "copy")
    BY <1>3 DEF MoveType
  <2>2. Due(r.from)' = Due(r.from) /\ store'[Self(r.from)] = store[Self(r.from)]
    <3>1. PICK f : f = r.from
      OBVIOUS
    <3>2. Due(f)' = Due(f)
      BY <1>2, <2>1, <3>1, DueStays
    <3>3. store'[Self(f)] = store[Self(f)]
      BY <1>2, <2>1, <3>1, Keys DEF Self
    <3> QED
      BY <3>1, <3>2, <3>3
  <2>3. s.pc \in {"stat", "head", "list", "walk", "copy", "head again", "list again", "remove all"} =>
          s.began = Due(s.from)'
    BY <1>1, <2>2 DEF Whole
  <2>4. s.pc \in {"list", "list again"} => store'[Self(s.from)] = None
    BY <1>1, <2>2 DEF Whole
  <2>5. r.pc = "copy" => \A n \in DOMAIN r.began : n \in 0 .. Names
    BY DueNames DEF Whole
  <2>6. s.pc = "copy" =>
          \A n \in DOMAIN s.began : <<s.from, n>> \in s.todo \/ store'[<<s.to, n>>] = s.began[n]
    BY <1>1, <1>2, <2>1, <2>5 DEF Whole
  <2>7. r.op = "move" /\ r.pc \in {"head again", "list again", "remove all", "delete"} =>
          \A n \in DOMAIN r.began : n \in 0 .. Names
    BY DueNames DEF Whole
  <2>8. s.op = "move" /\ s.pc \in {"head again", "list again", "remove all", "delete"} =>
          \A n \in DOMAIN s.began : store'[<<s.to, n>>] = s.began[n]
    BY <1>1, <1>2, <2>1, <2>7 DEF Whole
  <2>9. s.pc = "delete" =>
          \A n \in DOMAIN s.began : n \in 0 .. Names /\ (<<s.from, n>> \in s.todo \/ store'[<<s.from, n>>] = None)
    BY <1>1, <1>2, <2>1 DEF Whole
  <2> QED
    BY <2>3, <2>4, <2>6, <2>8, <2>9 DEF Whole
<1>4. CASE r.op \notin {"move", "copy", "delete"}
  <2>1. s.pc \in {"idle", "probe", "put"}
    BY <1>1, <1>4 DEF MoveType
  <2> QED
    BY <2>1 DEF Whole
<1> QED
  BY <1>3, <1>4

LEMMA MetStays ==
  ASSUME Met, NEW h \in Handler, OthersGoOn(h), Uses(h)' \subseteq Uses(h),
         Uses(h)' = {} \/ (moving[h].met => moving'[h].met)
  PROVE  Met'
<1>1. \A g \in Handler \ {h} : Uses(g)' = Uses(g) /\ (moving[g].met => moving'[g].met)
  BY DEF OthersGoOn, Alike, Uses
<1>2. ASSUME NEW g \in Handler, NEW i \in Handler, Overlap(g, i)' PROVE moving'[i].met
  <2>1. Uses(g)' \subseteq Uses(g) /\ Uses(i)' \subseteq Uses(i)
    BY <1>1
  <2>2. Overlap(g, i)
    BY <1>2, <2>1 DEF Overlap
  <2>3. moving[i].met
    BY <2>2 DEF Met
  <2>4. i = h => Uses(h)' # {}
    BY <1>2 DEF Overlap
  <2> QED
    BY <1>1, <2>3, <2>4
<1> QED
  BY <1>2 DEF Met

LEMMA OthersStayWhole ==
  ASSUME Types, WInv, NEW h \in Handler, OthersGoOn(h), NEW g \in Handler \ {h},
         moving'[g].met \/ \A k \in Key : k[1] \in Uses(g) => store'[k] = store[k]
  PROVE  moving'[g].met \/ Whole(moving[g])'
<1>1. MoveType(moving[g]) /\ Alike(moving'[g], moving[g]) /\ (moving[g].met => moving'[g].met)
  BY DEF Types, OthersGoOn, Alike
<1>2. moving[g].met \/ Whole(moving[g])
  BY DEF WInv
<1> SUFFICES ASSUME ~moving'[g].met PROVE Whole(moving[g])'
  OBVIOUS
<1>3. Whole(moving[g])
  BY <1>1, <1>2
<1>4. \A k \in Key : k[1] \in {moving[g].from, moving[g].to} \ {None} => store'[k] = store[k]
  BY DEF Uses
<1> QED
  BY <1>1, <1>3, <1>4, WholeStays

\* A step of a request that writes in its own folders.
LEMMA WholeCarry ==
  ASSUME Types, WInv, NEW h \in Handler, OthersGoOn(h), Uses(h)' \subseteq Uses(h),
         Uses(h)' = {} \/ (moving[h].met => moving'[h].met),
         \A k \in Key : store'[k] = store[k] \/ k[1] \in Uses(h),
         moving'[h].met \/ Whole(moving[h])', whole'
  PROVE  WInv'
<1>1. Met'
  BY MetStays DEF WInv
<1>2. ASSUME NEW g \in Handler \ {h} PROVE moving'[g].met \/ Whole(moving[g])'
  <2>1. CASE Overlap(g, h)
    <3>1. Overlap(h, g)
      BY <2>1 DEF Overlap
    <3>2. moving[g].met
      BY <3>1 DEF WInv, Met
    <3>3. moving'[g].met
      BY <3>2 DEF OthersGoOn, Alike
    <3> QED
      BY <3>3
  <2>2. CASE ~Overlap(g, h)
    <3>1. \A k \in Key : k[1] \in Uses(g) => store'[k] = store[k]
      BY <2>2 DEF Overlap
    <3> QED
      BY <3>1, OthersStayWhole
  <2> QED
    BY <2>1, <2>2
<1> QED
  BY <1>1, <1>2 DEF WInv

\* A request that ends.
LEMMA WholeEnds ==
  ASSUME BInv, WInv, NEW h \in Handler, Fail(h), whole',
         \A k \in Key : store'[k] = store[k] \/ k[1] \in Uses(h)
  PROVE  WInv'
<1>1. Types /\ OthersGoOn(h) /\ moving'[h] = NoMove
  BY FailFields DEF BInv
<1>2. moving'[h].pc = "idle" /\ moving'[h].op = "none" /\ Uses(h)' = {}
  BY <1>1 DEF NoMove, Uses
<1>3. Whole(moving[h])'
  BY <1>2 DEF Whole
<1> QED
  BY <1>1, <1>2, <1>3, WholeCarry

\* A request that goes on.
LEMMA WholeGoesTo ==
  ASSUME BInv, WInv, NEW h \in Handler, NEW pc, NEW todo, Goto(h, pc, todo), UNCHANGED whole,
         \A k \in Key : store'[k] = store[k] \/ k[1] \in Uses(h),
         moving[h].met \/ Whole(moving[h])'
  PROVE  WInv'
<1>1. Types /\ whole'
  BY DEF BInv, WInv
<1>2. /\ OthersGoOn(h) /\ moving'[h].from = moving[h].from /\ moving'[h].to = moving[h].to
      /\ moving'[h].met = moving[h].met
  BY <1>1, GotoFields
<1>3. Uses(h)' \subseteq Uses(h)
  BY <1>2 DEF Uses
<1> QED
  BY <1>1, <1>2, <1>3, WholeCarry

\* A request that begins, and a write of one step: all that share the folder are met.
LEMMA MeetIsMet ==
  ASSUME Types, WInv, NEW h \in Handler, NEW F, NEW r, DOMAIN r = DOMAIN NoMove, Meet(h, F, r), UNCHANGED whole,
         {r.from, r.to} \ {None} = F \ {None} \/ {r.from, r.to} \ {None} = {},
         r # NoMove \/ {r.from, r.to} \ {None} = {},
         \A k \in Key : store'[k] = store[k] \/ k[1] \in F \ {None},
         moving'[h].met \/ Whole(moving[h])'
  PROVE  WInv'
<1> DEFINE q == moving'[h]
<1>1. /\ OthersGoOn(h) /\ q.from = r.from /\ q.to = r.to
  BY MeetFields
<1>2. \A g \in Beside(h, F) : moving'[g].met
  BY MeetFields
<1>3. q.met = (r # NoMove /\ Beside(h, F) # {})
  BY MeetFields
<1>4. \A g \in Handler \ {h} : Uses(g)' = Uses(g) /\ (moving[g].met => moving'[g].met)
  BY <1>1 DEF OthersGoOn, Alike, Uses
<1>5. \A g \in Handler \ {h} : Uses(g) \cap (F \ {None}) # {} => g \in Beside(h, F)
  BY DEF Beside, Uses
<1>6. (Uses(h)' = F \ {None} /\ r # NoMove) \/ Uses(h)' = {}
  BY <1>1 DEF Uses
<1>7. ASSUME NEW g \in Handler, NEW i \in Handler, Overlap(g, i)' PROVE moving'[i].met
  <2>1. CASE g # h /\ i # h
    <3>1. Overlap(g, i)
      BY <1>4, <1>7, <2>1 DEF Overlap
    <3> QED
      BY <1>4, <2>1, <3>1 DEF WInv, Met
  <2>2. CASE g = h
    <3>1. i # h /\ Uses(i)' = Uses(i) /\ Uses(i) \cap (F \ {None}) # {}
      BY <1>4, <1>6, <1>7, <2>2 DEF Overlap
    <3> QED
      BY <1>2, <1>5, <3>1
  <2>3. CASE i = h
    <3>1. g # h /\ Uses(g) \cap (F \ {None}) # {} /\ r # NoMove
      BY <1>4, <1>6, <1>7, <2>3 DEF Overlap
    <3> QED
      BY <1>3, <1>5, <2>3, <3>1
  <2> QED
    BY <2>1, <2>2, <2>3
<1>8. ASSUME NEW g \in Handler \ {h} PROVE moving'[g].met \/ Whole(moving[g])'
  <2>1. CASE Uses(g) \cap (F \ {None}) # {}
    BY <1>2, <1>5, <2>1
  <2>2. CASE Uses(g) \cap (F \ {None}) = {}
    <3>1. \A k \in Key : k[1] \in Uses(g) => store'[k] = store[k]
      BY <2>2
    <3> QED
      BY <1>1, <3>1, OthersStayWhole
  <2> QED
    BY <2>1, <2>2
<1> QED
  BY <1>7, <1>8 DEF WInv, Met

LEMMA WholeBegin ==
  ASSUME BInv, WInv, NEW h \in Handler, NEW op, NEW pc, NEW from, NEW to, Begin(h, op, pc, from, to),
         op # "none", from # None => pc \in {"stat", "head"}, from = None => pc = "probe", UNCHANGED <<store, whole>>
  PROVE  WInv'
<1>1. Types
  BY DEF BInv
<1> DEFINE b == IF from = None THEN << >> ELSE Due(from)
           r == [NoMove EXCEPT !.op = op, !.pc = pc, !.from = from, !.to = to, !.began = b]
           F == {from, to}
           q == moving'[h]
<1>2. /\ DOMAIN r = DOMAIN NoMove /\ r.op = op /\ r.pc = pc /\ r.todo = {} /\ r.from = from /\ r.to = to
      /\ r.began = b /\ r # NoMove
  <2> HIDE DEF b
  <2>1. DOMAIN r = DOMAIN NoMove /\ r.op = op /\ r.pc = pc /\ r.todo = {} /\ r.from = from /\ r.to = to /\ r.began = b
    BY DEF NoMove
  <2>2. NoMove.op = "none"
    BY DEF NoMove
  <2> QED
    BY <2>1, <2>2
<1>3. Meet(h, F, r)
  BY DEF Begin
<1> HIDE DEF r
<1>4. q.pc = pc /\ q.op = op /\ q.from = from /\ q.began = b
  <2>1. DOMAIN r = DOMAIN NoMove
    BY <1>2
  <2>2. q.pc = r.pc /\ q.op = r.op /\ q.from = r.from /\ q.began = r.began
    BY <1>1, <1>3, <2>1, MeetFields
  <2> QED
    BY <1>2, <2>2
<1>5. from # None => q.began = Due(moving[h].from)'
  <2>1. Due(from)' = Due(from)
    BY DueStays
  <2>2. Due(moving[h].from)' = Due(from)'
    BY <1>4 DEF Due
  <2> QED
    BY <1>4, <2>1, <2>2
<1>6. Whole(moving[h])'
  BY <1>4, <1>5 DEF Whole
<1>7. {r.from, r.to} \ {None} = F \ {None} /\ DOMAIN r = DOMAIN NoMove /\ r # NoMove
  BY <1>2
<1> QED
  BY <1>1, <1>3, <1>6, <1>7, MeetIsMet

LEMMA WholeAsk == ASSUME BInv, WInv, NEW h \in Handler, Ask(h) PROVE WInv'
<1>1. PICK f \in Folder, t \in Folder : MoveAcross(h, f, t) \/ CopyAcross(h, f, t) \/ DeleteS3(h, f)
  BY DEF Ask
<1>2. UNCHANGED <<store, whole>> /\ f # None
  BY BucketAssumption DEF Ask
<1>3. CASE Begin(h, "move", "stat", f, t)
  BY <1>2, <1>3, WholeBegin
<1>4. CASE Begin(h, "copy", "stat", f, t)
  BY <1>2, <1>4, WholeBegin
<1>5. CASE Begin(h, "delete", "head", f, None)
  BY <1>2, <1>5, WholeBegin
<1> QED
  BY <1>1, <1>3, <1>4, <1>5 DEF MoveAcross, CopyAcross, DeleteS3

LEMMA WholeUploadBegin == ASSUME BInv, WInv, NEW h \in Handler, NEW f \in Folder, UploadBegin(h, f) PROVE WInv'
BY WholeBegin DEF UploadBegin

LEMMA WholeStat == ASSUME BInv, WInv, NEW h \in Handler, Stat(h) PROVE WInv'
<1> DEFINE r == moving[h]
           q == moving'[h]
<1>1. r.pc = "stat" /\ UNCHANGED <<store, whole>> /\ Types /\ (r.met \/ Whole(r)) /\ whole
  BY DEF Stat, BInv, WInv
<1>2. CASE Fail(h)
  BY <1>1, <1>2, WholeEnds
<1>3. ASSUME NEW pc, pc \in {"walk", "head"}, Goto(h, pc, {}) PROVE WInv'
  <2>1. q.pc = pc /\ q.from = r.from /\ q.op = r.op /\ q.began = r.began
    BY <1>1, <1>3, GotoFields
  <2>2. \A f : Due(f)' = Due(f)
    BY <1>1, DueStays
  <2>3. r.met \/ Whole(moving[h])'
    BY <1>1, <1>3, <2>1, <2>2 DEF Whole
  <2> QED
    BY <1>1, <1>3, <2>3, WholeGoesTo
<1>4. Source(h) \in {"walk", "head"}
  BY DEF Source
<1> QED
  BY <1>2, <1>3, <1>4 DEF Stat

LEMMA WholeHeadKey == ASSUME BInv, WInv, NEW h \in Handler, HeadKey(h) PROVE WInv'
<1> DEFINE r == moving[h]
           q == moving'[h]
           f == r.from
<1>1. /\ r.pc \in {"head", "head again"} /\ UNCHANGED <<store, whole>> /\ Types /\ (r.met \/ Whole(r)) /\ whole
      /\ f \in Folder /\ r.op \in {"move", "copy", "delete"} /\ (r.pc = "head again" => r.op = "move")
  BY StepOf DEF HeadKey, BInv, WInv, MoveType
<1>2. Due(f)' = Due(f)
  <2>1. PICK g : g = f
    OBVIOUS
  <2>2. Due(g)' = Due(g)
    BY <1>1, DueStays
  <2>3. moving'[h].from = f
    BY <1>1, GotoFields DEF HeadKey
  <2> QED
    BY <2>1, <2>2, <2>3 DEF Due
<1>3. \A n \in DOMAIN Due(f) : n \in 0 .. Names /\ Due(f)[n] = store[<<f, n>>] /\ (n > 0 => store[Self(f)] = None)
  BY DueNames
<1>4. ASSUME NEW pc, pc = Then(h), store[Self(f)] # None, Goto(h, pc, {Self(f)}) PROVE WInv'
  <2>1. q.pc = pc /\ q.from = f /\ q.op = r.op /\ q.began = r.began /\ q.todo = {Self(f)} /\ q.to = r.to
    BY <1>1, <1>4, GotoFields, ZenonT(40)
  <2>2. pc = IF r.op # "delete" /\ r.pc = "head" THEN "copy" ELSE "delete"
    BY <1>1, <1>4 DEF Then
  <2>3. ASSUME NEW n \in DOMAIN Due(f) PROVE n = 0
    <3>1. n \in 0 .. Names /\ ~(n > 0)
      BY <1>3, <1>4
    <3> QED
      BY <3>1, BucketAssumption
  <2>4. \A n \in DOMAIN Due(f) : <<f, n>> \in {Self(f)}
    BY <2>3 DEF Self
  <2>5. ASSUME Whole(r) PROVE Whole(moving[h])'
    <3>1. q.began = Due(f) /\ q.began = Due(f)'
      BY <1>1, <1>2, <2>1, <2>5 DEF Whole
    <3>2. \A n \in DOMAIN q.began : <<q.from, n>> \in q.todo /\ n \in 0 .. Names
      BY <1>3, <2>1, <2>4, <3>1
    <3>3. q.op = "move" /\ q.pc = "delete" => \A n \in DOMAIN q.began : store'[<<q.to, n>>] = q.began[n]
      <4>1. q.op = "move" /\ q.pc = "delete" => r.pc = "head again" /\ r.op = "move"
        BY <1>1, <2>1, <2>2
      <4> QED
        BY <1>1, <2>1, <2>5, <4>1 DEF Whole
    <3> QED
      BY <2>1, <2>2, <3>1, <3>2, <3>3 DEF Whole
  <2> QED
    BY <1>1, <1>4, <2>5, WholeGoesTo
<1>5. ASSUME NEW pc, pc = Following(r.pc), store[Self(f)] = None, Goto(h, pc, {}) PROVE WInv'
  <2>1. q.pc = pc /\ q.from = f /\ q.op = r.op /\ q.began = r.began /\ q.todo = {} /\ q.to = r.to
    BY <1>1, <1>5, GotoFields, ZenonT(40)
  <2>2. pc = IF r.pc = "head" THEN "list" ELSE "list again"
    BY <1>5 DEF Following
  <2>3. ASSUME Whole(r) PROVE Whole(moving[h])'
    <3>1. q.began = Due(f)'
      BY <1>1, <1>2, <2>1, <2>3 DEF Whole
    <3>2. store'[Self(q.from)] = None
      BY <1>1, <1>5, <2>1
    <3>3. q.pc = "list again" => \A n \in DOMAIN q.began : store'[<<q.to, n>>] = q.began[n]
      BY <1>1, <2>1, <2>2, <2>3 DEF Whole
    <3> QED
      BY <2>1, <2>2, <3>1, <3>2, <3>3 DEF Whole
  <2> QED
    BY <1>1, <1>5, <2>3, WholeGoesTo
<1> QED
  BY <1>4, <1>5 DEF HeadKey

LEMMA WholeList == ASSUME BInv, WInv, NEW h \in Handler, List(h) PROVE WInv'
<1> DEFINE r == moving[h]
           q == moving'[h]
           f == r.from
<1>1. /\ r.pc \in {"list", "list again"} /\ UNCHANGED <<store, whole>> /\ Types /\ (r.met \/ Whole(r)) /\ whole
      /\ f \in Folder /\ r.op \in {"move", "copy", "delete"} /\ (r.pc = "list again" => r.op = "move")
      /\ DOMAIN r = DOMAIN NoMove /\ r.met \in BOOLEAN
  BY StepOf DEF List, BInv, WInv, MoveType
<1>2. PICK keys \in SUBSET Prefixed(f) :
        \/ Fail(h)
        \/ moving' = [moving EXCEPT ![h].pc = Then(h), ![h].todo = keys, ![h].met = @ \/ keys # Prefixed(f)]
  BY DEF List
<1>3. CASE Fail(h)
  BY <1>1, <1>3, WholeEnds
<1>4. CASE moving' = [moving EXCEPT ![h].pc = Then(h), ![h].todo = keys, ![h].met = @ \/ keys # Prefixed(f)]
  <2>1. /\ OthersGoOn(h) /\ q.pc = Then(h) /\ q.todo = keys
        /\ q.op = r.op /\ q.from = f /\ q.to = r.to /\ q.began = r.began
        /\ (r.met => q.met) /\ (keys # Prefixed(f) => q.met)
    <3> DEFINE b == r.met \/ keys # Prefixed(f)
               x == [[[r EXCEPT !.pc = Then(h)] EXCEPT !.todo = keys] EXCEPT !.met = b]
    <3>1. (r.met => b) /\ (keys # Prefixed(f) => b)
      OBVIOUS
    <3>2. DOMAIN moving = Handler
      BY <1>1 DEF Types
    <3>3. moving' = [moving EXCEPT ![h] = x]
      BY <1>4, <3>2
    <3> HIDE DEF b
    <3>4. /\ x.pc = Then(h) /\ x.todo = keys
          /\ x.op = r.op /\ x.from = f /\ x.to = r.to /\ x.began = r.began /\ x.met = b
      BY <1>1 DEF NoMove
    <3> HIDE DEF x
    <3>5. OthersGoOn(h)
      BY <1>1, <3>2, <3>3, AlikeItself DEF OthersGoOn, Types
    <3>6. q = x
      BY <3>2, <3>3
    <3> QED
      BY <3>1, <3>4, <3>5, <3>6
  <2>2. q.pc = IF r.op # "delete" /\ r.pc = "list" THEN "copy" ELSE "delete"
    BY <1>1, <2>1 DEF Then
  <2>3. Uses(h)' \subseteq Uses(h)
    BY <2>1 DEF Uses
  <2>4. ASSUME ~q.met PROVE Whole(moving[h])'
    <3>1. Whole(r) /\ keys = Prefixed(f)
      BY <1>1, <2>1, <2>4
    <3>2. r.began = Due(f) /\ store[Self(f)] = None
      BY <1>1, <3>1 DEF Whole
    <3>3. ASSUME NEW n \in DOMAIN Due(f) PROVE n \in 0 .. Names /\ <<f, n>> \in keys
      <4>1. n \in 0 .. Names /\ store[<<f, n>>] # None
        BY DueNames
      <4>2. n \in 1 .. Names
        BY <3>2, <4>1, BucketAssumption DEF Self
      <4> QED
        BY <1>1, <3>1, <4>1, <4>2, OfTheFolder
    <3>4. Due(f)' = Due(f)
      <4>1. PICK g : g = f
        OBVIOUS
      <4>2. Due(g)' = Due(g)
        BY <1>1, DueStays
      <4> QED
        BY <2>1, <4>1, <4>2 DEF Due
    <3>5. q.began = Due(f)' /\ \A n \in DOMAIN q.began : n \in 0 .. Names /\ <<q.from, n>> \in q.todo
      BY <2>1, <3>2, <3>3, <3>4
    <3>6. q.op = "move" /\ q.pc = "delete" => \A n \in DOMAIN q.began : store'[<<q.to, n>>] = q.began[n]
      <4>1. q.op = "move" /\ q.pc = "delete" => r.pc = "list again" /\ r.op = "move"
        BY <1>1, <2>1, <2>2
      <4> QED
        BY <1>1, <2>1, <3>1, <4>1 DEF Whole
    <3> QED
      BY <2>1, <2>2, <3>5, <3>6 DEF Whole
  <2> QED
    BY <1>1, <2>1, <2>3, <2>4, WholeCarry
<1> QED
  BY <1>2, <1>3, <1>4

LEMMA WholeWalk == ASSUME BInv, WInv, NEW h \in Handler, Walk(h) PROVE WInv'
<1> DEFINE r == moving[h]
           q == moving'[h]
           f == r.from
           keys == {k \in Key : k[1] = f /\ store[k] # None}
<1>1. /\ r.pc = "walk" /\ UNCHANGED <<store, whole>> /\ Types /\ (r.met \/ Whole(r)) /\ whole
      /\ f \in Folder
  BY StepOf DEF Walk, BInv, WInv, MoveType
<1>2. CASE Fail(h)
  BY <1>1, <1>2, WholeEnds
<1>3. CASE Goto(h, "copy", keys)
  <2>1. q.pc = "copy" /\ q.from = f /\ q.op = r.op /\ q.began = r.began /\ q.todo = keys /\ q.to = r.to
    BY <1>1, <1>3, GotoFields
  <2>2. \A n \in DOMAIN Due(f) : n \in 0 .. Names /\ <<f, n>> \in keys
    BY <1>1, DueNames, Keys
  <2>3. Due(f)' = Due(f)
    <3>1. PICK g : g = f
      OBVIOUS
    <3>2. Due(g)' = Due(g)
      BY <1>1, DueStays
    <3> QED
      BY <2>1, <3>1, <3>2 DEF Due
  <2> HIDE DEF keys
  <2>4. ASSUME Whole(r) PROVE Whole(moving[h])'
    <3>1. q.began = Due(f)'
      BY <1>1, <2>1, <2>3, <2>4 DEF Whole
    <3>2. \A n \in DOMAIN q.began : <<q.from, n>> \in q.todo
      BY <2>1, <2>2, <2>3, <3>1
    <3> QED
      BY <2>1, <3>1, <3>2 DEF Whole
  <2> QED
    BY <1>1, <1>3, <2>4, WholeGoesTo
<1> QED
  BY <1>2, <1>3 DEF Walk

LEMMA WholeCopyKey == ASSUME BInv, WInv, NEW h \in Handler, NEW k \in Key, CopyKey(h, k) PROVE WInv'
<1> DEFINE r == moving[h]
           q == moving'[h]
           f == r.from
           t == r.to
           m == k[2]
<1>1. /\ r.pc = "copy" /\ k \in r.todo /\ UNCHANGED whole
      /\ store' = [store EXCEPT ![<<t, m>>] = store[k]]
      /\ Types /\ (r.met \/ Whole(r)) /\ whole
  BY DEF CopyKey, Mapped, BInv, WInv
<1>2. MoveType(r) /\ f \in Folder /\ t \in Folder /\ f # t /\ f # None /\ t # None
  BY <1>1, StepOf, BucketAssumption
<1>3. k = <<f, m>> /\ m \in 0 .. Names /\ <<t, m>> \in Key /\ <<t, m>>[1] = t
  BY <1>1, <1>2, Keys DEF MoveType
<1>4. DOMAIN store = Key
  BY <1>1 DEF Types
<1>5. /\ store'[<<t, m>>] = store[<<f, m>>]
      /\ \A j \in Key : store'[j] = store[j] \/ j = <<t, m>>
      /\ \A n \in 0 .. Names : store'[<<f, n>>] = store[<<f, n>>]
      /\ \A n \in 0 .. Names : n # m => store'[<<t, n>>] = store[<<t, n>>]
  BY <1>1, <1>2, <1>3, <1>4, Keys
<1>6. /\ OthersGoOn(h) /\ q.pc = "copy" /\ q.todo \in {r.todo, r.todo \ {k}} /\ (r.met => q.met)
      /\ q.op = r.op /\ q.from = f /\ q.to = t /\ q.began = r.began
  <2>1. CASE Goto(h, "copy", r.todo \ {k})
    BY <1>1, <2>1, GotoFields
  <2>2. CASE UNCHANGED moving
    BY <1>1, <2>2, StayFields
  <2> QED
    BY <2>1, <2>2 DEF CopyKey
<1>7. Uses(h) = {f, t} /\ Uses(h)' \subseteq Uses(h)
  BY <1>2, <1>6 DEF Uses
<1>8. ASSUME Whole(r) PROVE Whole(moving[h])'
  <2>1. r.began = Due(f) /\ \A n \in DOMAIN r.began : <<f, n>> \in r.todo \/ store[<<t, n>>] = r.began[n]
    BY <1>1, <1>8 DEF Whole
  <2>2. Due(f)' = Due(f)
    <3>1. PICK g : g = f
      OBVIOUS
    <3>2. Due(g)' = Due(g)
      BY <1>5, <3>1, DueStays
    <3> QED
      BY <1>6, <3>1, <3>2 DEF Due
  <2>3. ASSUME NEW n \in DOMAIN r.began PROVE <<f, n>> \in q.todo \/ store'[<<t, n>>] = r.began[n]
    <3>1. n \in 0 .. Names /\ r.began[n] = store[<<f, n>>]
      BY <2>1, DueNames
    <3>2. CASE n = m
      BY <1>5, <3>1, <3>2
    <3>3. CASE n # m
      <4>1. <<f, n>> \in r.todo => <<f, n>> \in q.todo
        BY <1>3, <1>6, <3>3
      <4> QED
        BY <1>5, <2>1, <3>1, <3>3, <4>1
    <3> QED
      BY <3>2, <3>3
  <2> QED
    BY <1>6, <2>1, <2>2, <2>3 DEF Whole
<1>9. \A j \in Key : store'[j] = store[j] \/ j[1] \in Uses(h)
  BY <1>3, <1>5, <1>7
<1> QED
  BY <1>1, <1>6, <1>7, <1>8, <1>9, WholeCarry

LEMMA WholeCopyFails == ASSUME BInv, WInv, NEW h \in Handler, NEW k \in Key, CopyFails(h, k) PROVE WInv'
<1> DEFINE r == moving[h]
           t == r.to
<1>1. /\ r.pc = "copy" /\ k \in r.todo /\ Fail(h) /\ whole'
      /\ store' = store \/ store' = [store EXCEPT ![<<t, k[2]>>] = None]
  BY DEF CopyFails, Mapped, WInv
<1>2. t \in Folder /\ t # None /\ DOMAIN store = Key
  BY <1>1, StepOf, BucketAssumption DEF Types
<1>3. \A j \in Key : store'[j] = store[j] \/ j[1] = t
  BY <1>1, <1>2
<1>4. \A j \in Key : store'[j] = store[j] \/ j[1] \in Uses(h)
  BY <1>2, <1>3 DEF Uses
<1> QED
  BY <1>1, <1>4, WholeEnds

LEMMA WholeCopied == ASSUME BInv, WInv, NEW h \in Handler, Copied(h) PROVE WInv'
<1> DEFINE r == moving[h]
           q == moving'[h]
           f == r.from
<1>1. r.pc = "copy" /\ r.todo = {} /\ UNCHANGED store /\ Types /\ (r.met \/ Whole(r)) /\ whole
  BY DEF Copied, BInv, WInv
<1>2. Whole(r) => \A n \in DOMAIN r.began : store[<<r.to, n>>] = r.began[n]
  BY <1>1 DEF Whole
<1>3. CASE r.op = "copy" /\ Succeed(h)
  <2>1. Fail(h) /\ whole' = (whole /\ (r.met \/ Done(h)))
    BY <1>3 DEF Succeed
  <2>2. Whole(r) => Done(h)
    BY <1>1, <1>2, <1>3 DEF Done
  <2>3. whole'
    BY <1>1, <2>1, <2>2
  <2> QED
    BY <1>1, <2>1, <2>3, WholeEnds
<1>4. ASSUME NEW pc, pc \in {"remove all", "head again"}, r.op = "move", UNCHANGED whole, Goto(h, pc, {})
      PROVE  WInv'
  <2>1. q.pc = pc /\ q.from = f /\ q.op = r.op /\ q.began = r.began /\ q.todo = {} /\ q.to = r.to
    BY <1>1, <1>4, GotoFields, ZenonT(40)
  <2>2. Due(f)' = Due(f)
    <3>1. PICK g : g = f
      OBVIOUS
    <3>2. Due(g)' = Due(g)
      BY <1>1, DueStays
    <3> QED
      BY <2>1, <3>1, <3>2 DEF Due
  <2>3. ASSUME Whole(r) PROVE Whole(moving[h])'
    <3>1. q.began = Due(f)'
      BY <1>1, <2>1, <2>2, <2>3 DEF Whole
    <3>2. \A n \in DOMAIN q.began : store'[<<q.to, n>>] = q.began[n]
      BY <1>1, <1>2, <2>1, <2>3
    <3> QED
      BY <1>4, <2>1, <3>1, <3>2 DEF Whole
  <2> QED
    BY <1>1, <1>4, <2>3, WholeGoesTo
<1>5. (IF r.from \in Drive THEN "remove all" ELSE "head again") \in {"remove all", "head again"}
  OBVIOUS
<1> QED
  BY <1>3, <1>4, <1>5 DEF Copied

LEMMA WholeDeleteKey == ASSUME BInv, WInv, NEW h \in Handler, NEW k \in Key, DeleteKey(h, k) PROVE WInv'
<1> DEFINE r == moving[h]
           q == moving'[h]
           f == r.from
           t == r.to
           m == k[2]
<1>1. /\ r.pc = "delete" /\ k \in r.todo /\ UNCHANGED whole
      /\ store' = [store EXCEPT ![k] = None]
      /\ Types /\ (r.met \/ Whole(r)) /\ whole
  BY DEF DeleteKey, BInv, WInv
<1>2. /\ MoveType(r) /\ f \in Folder /\ f # None /\ (r.op = "move" => t \in Folder /\ f # t)
  BY <1>1, StepOf, BucketAssumption
<1>3. k = <<f, m>> /\ m \in 0 .. Names /\ k[1] = f
  BY <1>1, <1>2, Keys DEF MoveType
<1>4. DOMAIN store = Key
  BY <1>1 DEF Types
<1>5. /\ store'[k] = None
      /\ \A j \in Key : store'[j] = store[j] \/ j = k
      /\ r.op = "move" => \A n \in 0 .. Names : store'[<<t, n>>] = store[<<t, n>>]
  BY <1>1, <1>2, <1>3, <1>4, Keys
<1>6. /\ OthersGoOn(h) /\ q.pc = "delete" /\ q.todo \in {r.todo, r.todo \ {k}} /\ (r.met => q.met)
      /\ q.op = r.op /\ q.from = f /\ q.to = t /\ q.began = r.began
  <2>1. CASE Goto(h, "delete", r.todo \ {k})
    BY <1>1, <2>1, GotoFields
  <2>2. CASE UNCHANGED moving
    BY <1>1, <2>2, StayFields
  <2> QED
    BY <2>1, <2>2 DEF DeleteKey
<1>7. f \in Uses(h) /\ Uses(h)' \subseteq Uses(h)
  BY <1>2, <1>6 DEF Uses
<1>8. ASSUME Whole(r) PROVE Whole(moving[h])'
  <2>1. ASSUME NEW n \in DOMAIN r.began
        PROVE  n \in 0 .. Names /\ (<<f, n>> \in q.todo \/ store'[<<f, n>>] = None)
    <3>1. n \in 0 .. Names /\ (<<f, n>> \in r.todo \/ store[<<f, n>>] = None) /\ <<f, n>> \in Key
      BY <1>1, <1>2, <1>8, Keys DEF Whole
    <3> QED
      BY <1>5, <1>6, <3>1
  <2>2. r.op = "move" => \A n \in DOMAIN r.began : store'[<<t, n>>] = r.began[n]
    BY <1>1, <1>5, <1>8, <2>1 DEF Whole
  <2> QED
    BY <1>6, <2>1, <2>2 DEF Whole
<1>9. \A j \in Key : store'[j] = store[j] \/ j[1] \in Uses(h)
  BY <1>3, <1>5, <1>7
<1> QED
  BY <1>1, <1>6, <1>7, <1>8, <1>9, WholeCarry

LEMMA WholeDeleted == ASSUME BInv, WInv, NEW h \in Handler, Deleted(h) PROVE WInv'
<1> DEFINE r == moving[h]
<1>1. /\ r.pc = "delete" /\ r.todo = {} /\ UNCHANGED store /\ Types /\ MoveType(r) /\ (r.met \/ Whole(r)) /\ whole
      /\ Fail(h) /\ whole' = (whole /\ (r.met \/ Done(h)))
  BY StepOf DEF Deleted, Succeed, BInv, WInv
<1>2. r.op = "move" \/ r.to = None
  BY <1>1 DEF MoveType
<1>3. Whole(r) => Done(h)
  BY <1>1, <1>2 DEF Whole, Done
<1>4. whole'
  BY <1>1, <1>3
<1> QED
  BY <1>1, <1>4, WholeEnds

LEMMA WholeRemoveAll == ASSUME BInv, WInv, NEW h \in Handler, RemoveAll(h) PROVE WInv'
<1> DEFINE r == moving[h]
           f == r.from
           t == r.to
<1>1. /\ r.pc = "remove all" /\ Types /\ MoveType(r) /\ (r.met \/ Whole(r)) /\ whole
      /\ store' = [k \in Key |-> IF k[1] = f THEN None ELSE store[k]]
      /\ Fail(h) /\ whole' = (whole /\ (r.met \/ Done(h)))
      /\ f \in Folder /\ t \in Folder /\ f # t /\ f # None
  BY StepOf, BucketAssumption DEF RemoveAll, Succeed, BInv, WInv
<1>2. r.op = "move"
  BY <1>1 DEF MoveType
<1>3. ASSUME Whole(r) PROVE Done(h)
  <2>1. r.began = Due(f) /\ \A n \in DOMAIN r.began : store[<<t, n>>] = r.began[n]
    BY <1>1, <1>2, <1>3 DEF Whole
  <2>2. \A n \in DOMAIN r.began : n \in 0 .. Names
    BY <2>1, DueNames
  <2>3. \A n \in 0 .. Names : store'[<<f, n>>] = None /\ store'[<<t, n>>] = store[<<t, n>>]
    BY <1>1, Keys
  <2> QED
    BY <2>1, <2>2, <2>3 DEF Done
<1>4. whole'
  BY <1>1, <1>3
<1>5. \A j \in Key : store'[j] = store[j] \/ j[1] \in Uses(h)
  BY <1>1 DEF Uses
<1> QED
  BY <1>1, <1>4, <1>5, WholeEnds

LEMMA WholeRequestFails == ASSUME BInv, WInv, NEW h \in Handler, RequestFails(h) PROVE WInv'
<1>1. Fail(h) /\ whole' /\ UNCHANGED store
  BY DEF RequestFails, WInv
<1> QED
  BY <1>1, WholeEnds

LEMMA WholeUploadFails == ASSUME BInv, WInv, NEW h \in Handler, UploadFails(h) PROVE WInv'
<1>1. Fail(h) /\ whole' /\ UNCHANGED store
  BY DEF UploadFails, WInv
<1> QED
  BY <1>1, WholeEnds

LEMMA WholeUploadPut == ASSUME BInv, WInv, NEW h \in Handler, UploadPut(h) PROVE WInv'
<1> DEFINE t == moving[h].to
<1>1. /\ Fail(h) /\ whole' /\ store' = [store EXCEPT ![<<t, moving[h].name>>] = made + 1]
      /\ moving[h].pc = "put"
  BY DEF UploadPut, Put, WInv
<1>2. t \in Folder /\ t # None /\ DOMAIN store = Key
  BY <1>1, StepOf, BucketAssumption DEF Types, MoveType
<1>3. \A j \in Key : store'[j] = store[j] \/ j[1] = t
  BY <1>1, <1>2
<1>4. \A j \in Key : store'[j] = store[j] \/ j[1] \in Uses(h)
  BY <1>2, <1>3 DEF Uses
<1> QED
  BY <1>1, <1>4, WholeEnds

LEMMA WholeProbe == ASSUME BInv, WInv, NEW h \in Handler, Probe(h) PROVE WInv'
<1> DEFINE r == moving[h]
           q == moving'[h]
           n == r.name + 1
<1>1. /\ r.pc = "probe" /\ UNCHANGED store /\ whole'
      /\ moving' = [moving EXCEPT ![h].name = @ + 1,
                      ![h].pc = IF store[<<r.to, n>>] = None THEN "put" ELSE "probe"]
  BY DEF Probe, WInv
<1>2. Types /\ MoveType(r) /\ DOMAIN r = DOMAIN NoMove /\ r.op = "upload"
  BY <1>1, StepOf DEF MoveType
<1>3. /\ OthersGoOn(h) /\ q.pc \in {"put", "probe"} /\ q.op = "upload" /\ q.from = r.from /\ q.to = r.to
      /\ q.met = r.met
  <2> DEFINE c == IF store[<<r.to, n>>] = None THEN "put" ELSE "probe"
             x == [[r EXCEPT !.name = n] EXCEPT !.pc = c]
  <2>1. DOMAIN moving = Handler /\ c \in {"put", "probe"}
    BY <1>2 DEF Types
  <2>2. moving' = [moving EXCEPT ![h] = x]
    BY <1>1, <2>1
  <2> HIDE DEF c, n
  <2>3. /\ x.pc = c /\ x.op = r.op /\ x.from = r.from /\ x.to = r.to /\ x.met = r.met
    BY <1>2 DEF NoMove
  <2> HIDE DEF x
  <2>4. OthersGoOn(h)
    BY <1>2, <2>1, <2>2, AlikeItself DEF OthersGoOn, Types
  <2>5. q = x
    BY <2>1, <2>2
  <2> QED
    BY <1>2, <2>1, <2>3, <2>4, <2>5
<1>4. Whole(moving[h])'
  BY <1>3 DEF Whole
<1>5. Uses(h)' \subseteq Uses(h)
  BY <1>3 DEF Uses
<1> QED
  BY <1>1, <1>2, <1>3, <1>4, <1>5, WholeCarry

\* A write of one step.
LEMMA WholeWrite ==
  ASSUME BInv, WInv, NEW h \in Handler, NEW f \in Folder, NEW n, NEW c,
         Meet(h, {f}, NoMove), store' = [store EXCEPT ![<<f, n>>] = c], UNCHANGED whole
  PROVE  WInv'
<1>1. Types /\ f # None /\ DOMAIN store = Key
  BY BucketAssumption DEF BInv, Types
<1>2. moving'[h].pc = NoMove.pc /\ moving'[h].op = NoMove.op
  BY <1>1, MeetFields
<1>3. Whole(moving[h])'
  BY <1>2 DEF Whole, NoMove
<1>4. \A k \in Key : store'[k] = store[k] \/ k[1] \in {f} \ {None}
  BY <1>1
<1>5. {NoMove.from, NoMove.to} \ {None} = {}
  BY DEF NoMove
<1> QED
  BY <1>1, <1>3, <1>4, <1>5, MeetIsMet

LEMMA WholeUploadToDrive ==
  ASSUME BInv, WInv, NEW h \in Handler, NEW f \in Folder, NEW n \in 1 .. Names, UploadToDrive(h, f, n)
  PROVE  WInv'
<1>1. Meet(h, {f}, NoMove) /\ UNCHANGED whole
  BY DEF UploadToDrive
<1>2. PICK c : c = made + 1
  OBVIOUS
<1>3. store' = [store EXCEPT ![<<f, n>>] = c]
  BY <1>2 DEF UploadToDrive, Put
<1> QED
  BY <1>1, <1>3, WholeWrite

LEMMA WholeWriteS3 ==
  ASSUME BInv, WInv, NEW h \in Handler, NEW f \in Folder, NEW n \in 1 .. Names, WriteS3(h, f, n)
  PROVE  WInv'
<1>1. Meet(h, {f}, NoMove) /\ UNCHANGED whole
  BY DEF WriteS3
<1>2. PICK c : c = made + 1
  OBVIOUS
<1>3. store' = [store EXCEPT ![<<f, n>>] = c]
  BY <1>2 DEF WriteS3
<1> QED
  BY <1>1, <1>3, WholeWrite

LEMMA WholeRestart == ASSUME WInv, BucketRestart PROVE WInv'
<1>1. moving' = [h \in Handler |-> NoMove] /\ whole'
  BY DEF BucketRestart, WInv
<1>2. \A g \in Handler : moving'[g].from = None /\ moving'[g].to = None /\ moving'[g].op = "none" /\ moving'[g].pc = "idle"
  BY <1>1 DEF NoMove
<1> QED
  BY <1>1, <1>2 DEF WInv, Met, Overlap, Uses, Whole

LEMMA WInvStarts == ASSUME BucketInit PROVE WInv
<1>1. moving = [h \in Handler |-> NoMove] /\ whole
  BY DEF BucketInit
<1>2. \A g \in Handler : moving[g].from = None /\ moving[g].to = None /\ moving[g].op = "none" /\ moving[g].pc = "idle"
  BY <1>1 DEF NoMove
<1> QED
  BY <1>1, <1>2 DEF WInv, Met, Overlap, Uses, Whole

LEMMA WInvStays == ASSUME WInv, UNCHANGED bucketVars PROVE WInv'
<1>1. UNCHANGED <<store, moving, whole>>
  BY DEF bucketVars
<1>2. Met' /\ whole'
  BY <1>1 DEF WInv, Met, Overlap, Uses
<1>3. ASSUME NEW g \in Handler, Whole(moving[g]) PROVE Whole(moving[g])'
  BY <1>1, <1>3 DEF Whole, Due, Self
<1> QED
  BY <1>1, <1>2, <1>3 DEF WInv

LEMMA WInvSteps == ASSUME BInv, WInv, BucketNext PROVE WInv'
BY WholeRestart, WholeAsk, WholeStat, WholeHeadKey, WholeList, WholeWalk, WholeCopied, WholeDeleted, WholeRemoveAll,
   WholeRequestFails, WholeCopyKey, WholeCopyFails, WholeDeleteKey, WholeProbe, WholeUploadPut, WholeUploadFails,
   WholeUploadBegin, WholeUploadToDrive, WholeWriteS3
   DEF BucketNext

\* A request that met no other, nor a listing cut short, has moved, copied or deleted all it was to
\* when it says so (mountfs.go moveAcross, renameS3, copyAcross, deleteS3).
THEOREM FinishedMeansWhole == ServerSpec => []FinishedIsWhole
<1>1. Init => BInv /\ WInv
  BY BInvStarts, WInvStarts DEF Init
<1>2. BInv /\ WInv /\ [Next]_serverVars => (BInv /\ WInv)'
  <2>1. ASSUME BInv, WInv, [Next]_serverVars PROVE BInv' /\ WInv'
    <3>1. BInv'
      BY <2>1, BInvNext
    <3>2. CASE BucketNext
      BY <2>1, <3>1, <3>2, WInvSteps
    <3>3. CASE UNCHANGED bucketVars
      BY <2>1, <3>1, <3>3, WInvStays
    <3>4. UNCHANGED serverVars => UNCHANGED bucketVars
      BY DEF serverVars
    <3> QED
      BY <2>1, <3>2, <3>3, <3>4, ServerStep
  <2> QED
    BY <2>1
<1>3. BInv /\ WInv => FinishedIsWhole
  BY DEF WInv, FinishedIsWhole
<1> QED
  BY <1>1, <1>2, <1>3, PTL DEF ServerSpec
============================================================================
