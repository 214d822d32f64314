-------------------------------- MODULE Player --------------------------------
(***************************************************************************)
(* The song player (src/web/static/js/app/audio.js): one run of songs      *)
(* through a folder, in the viewer or in the bar, in order or shuffled,    *)
(* with a tag that is given to songs heard and taken from songs skipped    *)
(* (autotagging), and each song's own loudness gain.  The run is of one    *)
(* folder of songs; Tags keeps which of them have the tag.                 *)
(***************************************************************************)
EXTENDS Tags

VARIABLES
  play,     \* [where, song, track, manual, head, pos, token, gain, mode, filter, tagging, mix]: where
            \* is "none", "viewer" or "bar"; pos tells whether the song has played for
            \* TAG_KEEP_SECS; gain is the song whose level is applied, None for the user's own
  order,    \* shuffleOrder
  level,    \* normalizeOn()
  gains,    \* [cache, asked, waits]: songs measured, being measured, and who waits: <<token, song>>
  ghost,    \* [peek, went, newest]: the song last read as the next one, the direction of the last
            \* step, and the newest song of the run
  fate      \* observer: [earned, unsure, open]: the songs that ought to have the tag, those nothing is
            \* said of, and whether the song at the player is still to be judged by how it is left

playerVars == <<play, order, level, gains, ghost, fate>>

Song == ToSet(Songs)

\* null is no direction of a step, and no song.
ASSUME PlayerAssumption == None \notin {"on", "end", "back"} \cup Song
------------------------------------------------------------------------------
(* What plays next.  p is play and t the tagged songs, now or in the next  *)
(* state; a random pick is any of the songs it may fall on.                *)

\* What a sequence has of a set, in order (SelectSeq, as a function a proof can expand).
Place(i, s, S) == Cardinality({j \in 1 .. i : s[j] \in S})
Only(s, S) ==
  LET at == {i \in DOMAIN s : s[i] \in S}
  IN  [k \in {Place(i, s, S) : i \in at} |-> s[CHOOSE i \in at : Place(i, s, S) = k]]

\* audioQueue
QueueOf(p, t) == IF p.filter /\ Song \cap t # {} THEN Only(Songs, t) ELSE Songs

\* mixRoll: with a mix, either side of the tag; without one, every song.
Sides(p, t) == IF p.tagging /\ p.mix /\ p.mode = "shuffle" THEN {t, Song \ t} ELSE {Song}

FirstOf(pools) ==
  IF \E i \in DOMAIN pools : pools[i] # {}
    THEN pools[CHOOSE i \in DOMAIN pools : pools[i] # {} /\ \A j \in 1 .. i - 1 : pools[j] = {}]
    ELSE {}

\* dealForward: a song not yet in the order, or a fresh pass that starts after the one playing.
Dealt(q, o, p, t) ==
  LET rest == q \ {p.song}
      deal(side) ==
        LET fresh == (q \cap side) \ ToSet(o)
            start == IF fresh # {} THEN o ELSE IF p.song \in q THEN <<p.song>> ELSE << >>
            pool  == FirstOf(<<fresh, rest \cap side, rest>>)
        IN  IF pool = {} THEN {start} ELSE {Append(start, s) : s \in pool}
  IN  UNION {deal(side) : side \in Sides(p, t)}

\* shuffledQueue
Shuffled(o, p, t) ==
  LET q    == ToSet(QueueOf(p, t))
      run  == IF p.song \in q /\ p.song \notin ToSet(o) THEN <<p.song>> ELSE o
      rest_ == Only(run, q)
  IN  IF rest_ = << >> \/ Last(rest_) = p.song THEN Dealt(q, rest_, p, t) ELSE {rest_}

\* dealBack: a pick put in front of the order.
DealtBack(o, p, t) ==
  LET rest  == ToSet(QueueOf(p, t)) \ {p.song}
      fresh == rest \ ToSet(o)
      pool(side) == FirstOf(<<fresh \cap side, rest \cap side, fresh, rest>>)
  IN  IF rest = {} THEN {[to |-> Last(o), order |-> o]}
      ELSE UNION {{[to |-> s, order |-> <<s>> \o o] : s \in pool(side)} : side \in Sides(p, t)}

\* Seeded fault (see the README): what a read deals is not kept.
NeighborsUnkept(delta, o, p, t) ==
  LET at(qu) == IF p.song \in ToSet(qu) THEN CHOOSE i \in DOMAIN qu : qu[i] = p.song ELSE 0
  IN  {[to |-> qu[((at(qu) + Len(qu) + delta - 1) % Len(qu)) + 1], order |-> o] :
         qu \in IF p.mode = "shuffle" THEN Shuffled(o, p, t) ELSE {QueueOf(p, t)}}

\* Where a song is in a queue, and what is beside it, around the ends.
Where(s, qu) == IF s \in ToSet(qu) THEN CHOOSE i \in DOMAIN qu : qu[i] = s ELSE 0
Beside(delta, at, qu) ==
  CASE at = 0 -> qu[1]
    [] at # 0 /\ at + delta \in DOMAIN qu -> qu[at + delta]
    [] at = Len(qu) /\ delta = 1 -> qu[1]
    [] OTHER -> Last(qu)

\* songNeighbor: where a skip lands, and what reading it makes of the order.
Neighbors(delta, o, p, t) ==
  IF p.mode = "shuffle"
    THEN UNION {IF Where(p.song, qu) = 1 /\ delta = -1 THEN DealtBack(qu, p, t)
                ELSE {[to |-> Beside(delta, Where(p.song, qu), qu), order |-> qu]} :
                  qu \in Shuffled(o, p, t)}
    ELSE LET qu == QueueOf(p, t)
         IN  {[to |-> Beside(delta, Where(p.song, qu), qu), order |-> o]}

\* updatePreviewNav, warmNeighborGains: both ways out of the song are read, and so settled on.
ReadNeighbors(o, p, t) ==
  \E back \in Neighbors(-1, o, p, t) : \E on \in Neighbors(1, back.order, p, t) :
    order' = on.order /\ ghost' = [ghost EXCEPT !.peek = on.to]
------------------------------------------------------------------------------
(* Verdicts and gains.                                                     *)

Heard(finished) == finished \/ play.pos = "past"

\* Seeded fault: the tag the user has just set by hand is judged too.
DueByHandToo(finished, keepOnly) ==
  /\ play.tagging /\ play.track # None
  /\ Heard(finished) \/ (~keepOnly /\ play.track = play.head)
  /\ Heard(finished) # (play.track \in tags)

\* settleTagging: heard out, the song keeps the tag; skipped, it loses it; or nothing is due.
Due(finished, keepOnly) ==
  /\ play.tagging /\ play.track # None /\ ~play.manual
  /\ Heard(finished) \/ (~keepOnly /\ play.track = play.head)
  /\ Heard(finished) # (play.track \in tags)

Settled(finished, keepOnly) ==
  IF ~Due(finished, keepOnly) THEN tags
  ELSE IF Heard(finished) THEN tags \cup {play.track} ELSE tags \ {play.track}

SetTags(new) == IF new = tags THEN UNCHANGED tagsVars ELSE SaveTags(new)

\* loadTrackGain: a measured song is levelled at once, another plays at the user's level until then.
GainOf(s, on) == IF on /\ s \in gains.cache THEN s ELSE None

LoadTrackGain(s, token, on) ==
  gains' = IF on /\ s \notin gains.cache
             THEN [gains EXCEPT !.asked = @ \cup {s}, !.waits = @ \cup {<<token, s>>}] ELSE gains

\* loadSong: the song starts, and owes a verdict.
Loaded(p, s, paging) ==
  [p EXCEPT !.song = s, !.track = s, !.manual = FALSE, !.pos = "start", !.token = @ + 1,
            !.head = IF paging THEN @ ELSE s,
            !.gain = GainOf(s, level)]

\* What a song's tag ought to be once the song is left: skipped ("on" or "back"), ended, or for
\* another one or silence ("away").  "Adds a tag to an audio file if you listen past 15 seconds, and
\* removes it if you skip early" (README.md:151); a song behind the newest of the run was chosen, and
\* is not removed (audio.js:150).  Where the head is not the newest song, nothing is said of a skip.
Judgement(how) ==
  LET judged == {x \in {play.song} : fate.open /\ play.tagging}
      heard  == {x \in judged : how = "end" \/ play.pos = "past"}
      early  == {x \in judged \ heard : how = "on"}
      lost   == early \cap {ghost.newest}
      vague  == {x \in early : play.head # ghost.newest}
  IN  [earned |-> (fate.earned \cup heard) \ lost,
       unsure |-> (fate.unsure \ (heard \cup lost)) \cup vague,
       open   |-> FALSE]

\* endAudioSession
SessionEnded(p) == [p EXCEPT !.filter = FALSE, !.tagging = FALSE]

\* Seeded fault: it is applied whichever song plays by then.
LandAnyGain(s, ok) ==
  /\ s \in gains.asked
  /\ play' = [play EXCEPT !.gain = IF ok THEN s ELSE None]
  /\ gains' = [cache |-> IF ok THEN gains.cache \cup {s} ELSE gains.cache,
               asked |-> gains.asked \ {s},
               waits |-> {w \in gains.waits : w[2] # s}]
  /\ UNCHANGED <<left, tagsVars, order, level, ghost, fate>>

\* The measurement arrives: it is applied only to the song it was asked for.
LandGain(s, ok) ==
  /\ s \in gains.asked
  /\ LET mine == <<play.token, s>> \in gains.waits
     IN  play' = IF mine THEN [play EXCEPT !.gain = IF ok THEN s ELSE None] ELSE play
  /\ gains' = [cache |-> IF ok THEN gains.cache \cup {s} ELSE gains.cache,
               asked |-> gains.asked \ {s},
               waits |-> {w \in gains.waits : w[2] # s}]
  /\ UNCHANGED <<left, tagsVars, order, level, ghost, fate>>

\* warmGains: a song on screen is measured before it is opened.
WarmGain(s) ==
  /\ Gesture
  /\ level /\ s \notin gains.cache \cup gains.asked
  /\ gains' = [gains EXCEPT !.asked = @ \cup {s}]
  /\ UNCHANGED <<tagsVars, play, order, level, ghost, fate>>
------------------------------------------------------------------------------
(* The run.                                                                *)

\* A song is opened from the list, or the one in the bar is: that one goes on where it is.
OpenSong(s) ==
  /\ Gesture
  /\ play.where # "viewer"
  /\ UNCHANGED level
  /\ LET there == [play EXCEPT !.where = "viewer"]
     IN  IF play.where = "bar" /\ play.song = s
           THEN /\ play' = there
                /\ UNCHANGED <<tagsVars, gains, fate>>
                /\ ReadNeighbors(order, there, tags)
           ELSE LET p == IF play.where = "bar" THEN SessionEnded(there) ELSE there
                    o == IF play.where = "bar" THEN << >> ELSE order
                IN  /\ SetTags(IF play.where = "bar" THEN Settled(FALSE, TRUE) ELSE tags)
                    /\ play' = Loaded(p, s, FALSE)
                    /\ fate' = [Judgement("away") EXCEPT !.open = TRUE]
                    /\ LoadTrackGain(s, play'.token, level)
                    /\ \E back \in Neighbors(-1, o, play', tags') :
                         \E on \in Neighbors(1, back.order, play', tags') :
                           order' = on.order /\ ghost' = [peek |-> on.to, went |-> None, newest |-> s]

\* previewNavigate, songNavigate: where it lands is read first, with the tags t.  The run grows only
\* off its newest song.
Step(went, fromHead, t, verdict) ==
  LET delta == IF went = "back" THEN -1 ELSE 1 IN
  \E next \in Neighbors(delta, order, play, t) :
    LET extend == delta = 1 /\ fromHead
        loaded == Loaded(play, next.to, TRUE)
    IN  /\ SetTags(verdict)
        /\ play' = IF extend THEN [loaded EXCEPT !.head = next.to] ELSE loaded
        /\ fate' = [Judgement(went) EXCEPT !.open = TRUE]
        /\ LoadTrackGain(next.to, play'.token, level)
        /\ UNCHANGED level
        /\ \E back \in Neighbors(-1, next.order, play', verdict) :
             \E on \in Neighbors(1, back.order, play', verdict) :
               /\ order' = on.order
               /\ ghost' = [peek |-> on.to, went |-> went,
                            newest |-> IF delta = 1 /\ play.song = ghost.newest THEN next.to
                                       ELSE ghost.newest]

\* The user skips; a step back takes no tag.  In the bar the track has been settled, and so is null,
\* by the time it is compared with the head: the run never grows there.
Skip(went) ==
  /\ Gesture
  /\ play.where # "none"
  /\ Step(went, play.where = "viewer" /\ play.track = play.head, tags, Settled(FALSE, went = "back"))

\* The song ends: its verdict is settled before the next is read.
SongEnds ==
  /\ Gesture
  /\ play.where # "none"
  /\ LET verdict == Settled(TRUE, FALSE)
     IN  IF play.mode # "off" THEN Step("end", play.track = play.head, verdict, verdict)
         ELSE /\ SetTags(verdict)
              /\ play' = [play EXCEPT !.track = None]
              /\ fate' = Judgement("end")
              /\ UNCHANGED <<order, level, gains, ghost>>

\* currentTime passes TAG_KEEP_SECS.
PlaysOn ==
  /\ play.where # "none" /\ play.pos = "start"
  /\ play' = [play EXCEPT !.pos = "past"]
  /\ UNCHANGED <<left, tagsVars, order, level, gains, ghost, fate>>

\* silencePreview, stopSongInBar: a song that plays goes on in the bar; one that stops settles its
\* verdict, and leaving is no skip.
LeaveSong(playing) ==
  /\ Gesture
  /\ play.where # "none" /\ (playing => play.where = "viewer")
  /\ UNCHANGED <<level, gains, ghost>>
  /\ IF playing THEN play' = [play EXCEPT !.where = "bar"] /\ UNCHANGED <<tagsVars, order, fate>>
     ELSE /\ SetTags(Settled(FALSE, TRUE))
          /\ fate' = Judgement("away")
          /\ play' = [SessionEnded(play) EXCEPT !.where = "none", !.track = None]
          /\ order' = << >>

\* The buttons of the viewer's audio bar: each deals the order anew, and reads it.
Arrange(p, o) ==
  /\ Gesture
  /\ play.where = "viewer"
  /\ play' = p
  /\ UNCHANGED <<tagsVars, level, gains, fate>>
  /\ ReadNeighbors(o, p, tags)

NextMode == [off |-> "sequential", sequential |-> "shuffle", shuffle |-> "off"]

ChangeMode    == Arrange([play EXCEPT !.mode = NextMode[@]], << >>)
ChangeTagging ==
  Arrange([play EXCEPT !.tagging = ~@, !.filter = @ /\ play.tagging], << >>)
ChangeFilter  ==
  Arrange([play EXCEPT !.filter = ~@, !.tagging = @ /\ play.filter],
          IF play.tagging /\ ~play.filter THEN << >> ELSE order)
ApplyMix(on)  ==
  /\ play.tagging
  /\ Arrange([play EXCEPT !.mix = on, !.mode = IF on THEN "shuffle" ELSE @], << >>)

\* The user sets or takes the tag: of the open song it settles the verdict (manual).
HandTag(s) ==
  /\ Gesture
  /\ SetFileTag(s)
  /\ play' = IF play.tagging /\ play.track = s THEN [play EXCEPT !.manual = TRUE] ELSE play
  /\ fate' = [earned |-> IF s \in tags' THEN fate.earned \cup {s} ELSE fate.earned \ {s},
              unsure |-> fate.unsure \ {s},
              open   |-> fate.open /\ ~(play.tagging /\ play.song = s)]
  /\ UNCHANGED <<level, gains>>
  /\ IF play.where = "viewer" THEN s = play.song /\ ReadNeighbors(order, play', tags')
     ELSE UNCHANGED order /\ ghost' = [ghost EXCEPT !.peek = None]

\* Levelling is switched on or off in the viewer.
ToggleLevel ==
  /\ Gesture
  /\ play.where = "viewer"
  /\ level' = ~level
  /\ play' = [play EXCEPT !.token = @ + 1, !.gain = GainOf(play.song, level')]
  /\ LoadTrackGain(play.song, play'.token, level')
  /\ UNCHANGED <<tagsVars, order, ghost, fate>>

\* Tags that do not come from this player are as they ought to be.
TagsGiven == fate' = IF tags' = tags THEN fate ELSE [fate EXCEPT !.earned = tags', !.unsure = {}]

\* The server's tags arrive, or another page's do: a filtered queue moves with them.
TagsMove ==
  /\ TagsAsync \/ SyncTags \/ (\E p \in puts : LosePut(p))
  /\ ghost' = IF tags' = tags THEN ghost ELSE [ghost EXCEPT !.peek = None]
  /\ TagsGiven
  /\ UNCHANGED <<play, order, level, gains>>
------------------------------------------------------------------------------
PlayerInit ==
  /\ TagsInit
  /\ \E mode \in {"off", "sequential", "shuffle"}, mix \in BOOLEAN :
       play = [where |-> "none", song |-> None, track |-> None, manual |-> FALSE, head |-> None,
               pos |-> "start", token |-> 0, gain |-> None, mode |-> mode, filter |-> FALSE,
               tagging |-> FALSE, mix |-> mix]
  /\ order = << >> /\ level = FALSE
  /\ gains = [cache |-> {}, asked |-> {}, waits |-> {}]
  /\ ghost = [peek |-> None, went |-> None, newest |-> None]
  /\ fate = [earned |-> tags, unsure |-> {}, open |-> FALSE]

Listen ==
  \/ \E s \in Song : OpenSong(s)
  \/ \E went \in {"on", "back"} : Skip(went)
  \/ \E playing \in BOOLEAN : LeaveSong(playing)
  \/ SongEnds \/ PlaysOn \/ ChangeMode

Autotag ==
  \/ \E s \in Song : HandTag(s)
  \/ \E on \in BOOLEAN : ApplyMix(on)
  \/ ChangeTagging \/ ChangeFilter

LevelSongs ==
  \/ \E s \in Song : WarmGain(s)
  \/ \E s \in Song, ok \in BOOLEAN : LandGain(s, ok)
  \/ ToggleLevel
------------------------------------------------------------------------------
\* Whatever was heard, skipped, taken up again, put in the bar or tagged by hand, and in whichever
\* order: each song has the tag if and only if it was last heard out, or given it by hand, and not
\* skipped as the newest song of the run since; and once set by hand, the tag of the song that
\* plays stays ("no verdict may overrule it", tags.js:463).  Excepted (unsure) are songs skipped while
\* the head was not the newest song, in the bar or after a song ended with autoplay off: see the README.
VerdictsAreEarned == \A s \in Song \ fate.unsure : s \in tags <=> s \in fate.earned

\* Read as the next song, a song is the next one: the shuffle's pick is kept, whatever is read
\* or skipped to in between, and back again.
NextIsTheOnePeeked ==
  [][play'.token # play.token /\ level' = level /\ ghost'.went \in {"on", "end"} /\ ghost.peek # None
       => play'.song = ghost.peek]_<<play, ghost>>

\* The level applied is the user's own or that of the song that plays, never of one skipped past.
GainIsTheSongs == play.gain \in {None, play.song}
==============================================================================
