--------------------------------- MODULE Tags ---------------------------------
(***************************************************************************)
(* The tags of files (src/web/static/js/app/tags.js), kept whole in the    *)
(* page and on the server: every change is cached and, 400 ms after the    *)
(* last one, sent as one blob (saveTags).  The preferences are kept the    *)
(* same way (savePrefs in prefs.js).  One tag stands for the blob: the set *)
(* of the files that have it.                                              *)
(***************************************************************************)
EXTENDS Session

CONSTANT Songs    \* the files, in folder order

VARIABLES
  tags,     \* state.fileTags: the files that have the tag
  kept,     \* the copy in localStorage
  timer,    \* tagsSyncTimer: the blob it will send, in a set, empty when it does not run
  puts,     \* blobs on their way: [n, blob]
  gets,     \* the server's answers on their way to syncTagsFromServer
  server,   \* tags.json
  shared    \* observer: an exception to LastTagsReachServer has happened (see there)

tagsVars == <<tags, kept, timer, puts, gets, server, shared>>

\* Seeded fault (see the README): a timer that runs is left to send what it was started with.
SaveTagsOnce(new) ==
  /\ tags' = new /\ kept' = new /\ timer' = IF timer = {} THEN {new} ELSE timer
  /\ UNCHANGED <<puts, gets, server, shared>>

\* saveTags: the timer starts over with what the page holds now.
SaveTags(new) ==
  /\ tags' = new /\ kept' = new /\ timer' = {new}
  /\ UNCHANGED <<puts, gets, server, shared>>

\* The user sets or takes a file's tag.
SetFileTag(f) == SaveTags(IF f \in tags THEN tags \ {f} ELSE tags \cup {f})

\* retagPath and retagUnder: a file that takes another's place takes its tags with it.
RetagPath(from, to) ==
  SaveTags(IF from \in tags THEN (tags \ {from}) \cup {to} ELSE tags)

SyncTimer ==
  /\ timer # {}
  /\ timer' = {}
  /\ puts' = puts \cup {[n |-> left, blob |-> b] : b \in timer}
  \* two blobs on their way may be written in either order
  /\ shared' = (shared \/ puts # {})
  /\ UNCHANGED <<left, tags, kept, gets, server>>

ServePut(p) ==
  /\ puts' = puts \ {p}
  /\ server' = p.blob
  /\ UNCHANGED <<left, tags, kept, timer, gets, shared>>

\* A put that fails is not sent again; the next change sends everything.
LosePut(p) ==
  /\ Gesture
  /\ puts' = puts \ {p}
  /\ shared' = TRUE
  /\ UNCHANGED <<tags, kept, timer, gets, server>>

\* The page comes up, or is logged in to, and asks for the server's tags.
SyncTags ==
  /\ Gesture
  /\ gets' = gets \cup {server}
  /\ UNCHANGED <<tags, kept, timer, puts, server, shared>>

\* They replace the page's own, and what was changed meanwhile.
LandTags(g) ==
  /\ gets' = gets \ {g}
  /\ tags' = g /\ kept' = g
  /\ shared' = (shared \/ timer # {} \/ puts # {} \/ g # server)
  /\ UNCHANGED <<left, timer, puts, server>>

\* Another page, or the server's own retagging, writes the whole blob.
TaggedElsewhere(f) ==
  /\ Gesture
  /\ server' = IF f \in server THEN server \ {f} ELSE server \cup {f}
  /\ shared' = TRUE
  /\ UNCHANGED <<tags, kept, timer, puts, gets>>

TagsInit ==
  /\ tags = {} /\ kept = {} /\ timer = {} /\ puts = {} /\ gets = {} /\ server = {}
  /\ shared = FALSE

TagsAsync ==
  \/ SyncTimer \/ (\E p \in puts : ServePut(p)) \/ (\E g \in gets : LandTags(g))

TagsNext ==
  \/ TagsAsync
  \/ \E p \in puts : LosePut(p)
  \/ SyncTags
  \/ \E f \in ToSet(Songs) : \/ Gesture /\ SetFileTag(f)
                             \/ TaggedElsewhere(f)
                             \/ \E to \in ToSet(Songs) \ {f} : Gesture /\ RetagPath(f, to)
------------------------------------------------------------------------------
\* Once nothing is on its way, the server and the device have the tags the page shows: no change is
\* lost between the timer and the blobs.  Excepted (shared) is what the code leaves to chance: a put that
\* was lost, two puts at once, an answer that replaced newer tags, another page's write.
LastTagsReachServer ==
  /\ kept = tags
  /\ timer = {} /\ puts = {} /\ gets = {} /\ ~shared => server = tags
==============================================================================
