------------------------------- MODULE Viewer --------------------------------
(***************************************************************************)
(* The viewer of photos and videos (src/web/static/js/app/preview.js): the *)
(* files of one folder, opened, paged with keys or swipes, and zoomed.     *)
(* The two pointer handlers of the viewer's body, the swipe's and the      *)
(* zoom's, see the same fingers.                                           *)
(***************************************************************************)
EXTENDS Session, Integers

CONSTANTS Kind,    \* the viewable files in order: the type of each, "image" or "video"
          Fingers  \* the fingers that may touch the screen

ASSUME ViewerAssumption == Kind \in Seq({"image", "video"})

VARIABLES
  viewer,  \* [shown, at, vault, chrome]: at is state.previewIdx, chrome whether the bars show
  swipe,   \* [start, gesture, peeks, home, sliding]: start is "none", "down" or "drag"; peeks
           \* whether the neighbours are mounted; home whether the body is in its place
  slides,  \* animations under way: [delta, token], delta 0 for a bounce back
  opens,   \* files of a vault being decrypted to be shown: [at, settling]
  touch    \* [pts, moved, zoomed, tapped, timer]: the zoom's fingers and its double tap

viewerVars == <<viewer, swipe, slides, opens, touch>>

Neighbor(delta) == viewer.at + delta \in DOMAIN Kind

IsImage(at) == at \in DOMAIN Kind /\ Kind[at] = "image"
------------------------------------------------------------------------------
(* Opening and leaving.                                                    *)

\* openPreview past its decryption: the body is rebuilt, which drops the peeks and the zoom; only a
\* photo may keep the bars hidden.
Show(at, sw) ==
  /\ viewer' = [viewer EXCEPT !.shown = TRUE, !.at = at, !.chrome = @ \/ ~IsImage(at)]
  /\ swipe' = [sw EXCEPT !.peeks = FALSE]
  /\ touch' = [touch EXCEPT !.zoomed = FALSE, !.timer = FALSE]

\* openPreview: a vault's file is decrypted before anything on screen changes.
OpenPreview(at, settling, sw) ==
  IF viewer.vault
    THEN /\ opens' = opens \cup {[at |-> at, settling |-> settling]}
         /\ swipe' = sw
         /\ UNCHANGED <<viewer, touch>>
    ELSE Show(at, sw) /\ UNCHANGED opens

OpenFile(at) ==
  /\ Gesture
  /\ ~viewer.shown
  /\ OpenPreview(at, FALSE, swipe)
  /\ UNCHANGED slides

\* Seeded fault (see the README): the body stays where the slide took it.
LandedAside(sw) == [sw EXCEPT !.peeks = FALSE, !.sliding = FALSE]

\* settle's last lines: whatever the open did, the peeks go and the body comes home.
Landed(sw) == [sw EXCEPT !.peeks = FALSE, !.home = TRUE, !.sliding = FALSE]

\* The decryption ends, and the file is shown wherever the user is by then; or it fails.
Decryption(o, ok) ==
  /\ opens' = opens \ {o}
  /\ LET sw == IF o.settling THEN Landed(swipe) ELSE swipe
     IN  IF ok THEN Show(o.at, sw) ELSE swipe' = sw /\ UNCHANGED <<viewer, touch>>
  /\ UNCHANGED <<left, slides>>

\* An arrow key or button pages; under a dialog it would not.
PreviewNavigate(delta) ==
  /\ Gesture
  /\ viewer.shown /\ Neighbor(delta)
  /\ OpenPreview(viewer.at + delta, FALSE, swipe)
  /\ UNCHANGED slides

\* goBackToBrowser and the teardown that follows it.  Who leaves has no finger on the screen.
Leave ==
  /\ Gesture
  /\ viewer.shown /\ touch.pts = {}
  /\ viewer' = [viewer EXCEPT !.shown = FALSE, !.chrome = TRUE]
  /\ swipe' = Landed(swipe)
  /\ touch' = [touch EXCEPT !.zoomed = FALSE, !.timer = FALSE]
  /\ UNCHANGED <<slides, opens>>
------------------------------------------------------------------------------
(* The swipe.                                                              *)

MountPeeks == Neighbor(1) \/ Neighbor(-1)

\* settle: back to where it was, or off the screen to the side of the neighbour.
Settle(delta, sw) ==
  /\ slides' = slides \cup {[delta |-> delta, token |-> sw.gesture]}
  /\ swipe' = IF delta = 0 THEN [sw EXCEPT !.home = TRUE]
              ELSE [sw EXCEPT !.home = FALSE, !.sliding = TRUE]

\* The swipe's pointerdown: a second finger ends the swipe, a slide or a zoom keeps one from
\* starting, and a new one mounts the peeks.
SwipeDown ==
  CASE swipe.start = "drag" -> Settle(0, [swipe EXCEPT !.start = "none"])
    [] swipe.start = "down" -> /\ swipe' = [swipe EXCEPT !.start = "none", !.peeks = FALSE]
                               /\ UNCHANGED slides
    [] swipe.start = "none" /\ (swipe.sliding \/ touch.zoomed) -> UNCHANGED <<swipe, slides>>
    [] OTHER -> /\ swipe' = [swipe EXCEPT !.start = "down", !.gesture = @ + 1,
                                          !.peeks = MountPeeks]
                /\ UNCHANGED slides

\* The zoom's: two fingers are a pinch, and neither can end as a tap.
ZoomDown(f) ==
  touch' = IF ~IsImage(viewer.at) THEN touch
           ELSE IF touch.pts = {} THEN [touch EXCEPT !.pts = {f}, !.moved = {}]
           ELSE [touch EXCEPT !.pts = @ \cup {f}, !.moved = touch.pts \cup {f},
                              !.tapped = FALSE, !.timer = FALSE]

PointerDown(f) ==
  /\ Gesture
  /\ viewer.shown /\ f \notin touch.pts
  /\ SwipeDown /\ ZoomDown(f)
  /\ UNCHANGED <<viewer, opens>>

\* A finger moves: sideways it makes a swipe a drag, upright it drops it; two fingers scale.
PointerMove(f, sideways, zoomed) ==
  /\ Gesture
  /\ viewer.shown /\ (f \in touch.pts \/ swipe.start # "none")
  /\ swipe' = CASE swipe.start = "none" -> swipe
                [] swipe.start = "down" /\ ~sideways ->
                     [swipe EXCEPT !.start = "none", !.peeks = FALSE]
                [] OTHER -> [swipe EXCEPT !.start = "drag", !.home = FALSE]
  /\ touch' = [touch EXCEPT !.moved = @ \cup (touch.pts \cap {f}),
                            !.zoomed = IF Cardinality(touch.pts) >= 2 THEN zoomed ELSE @]
  /\ UNCHANGED <<viewer, slides, opens>>

\* The swipe's pointerup: held far enough out, and with a neighbour on that side, it pages.
SwipeUp(delta, held) ==
  CASE swipe.start = "drag" ->
         Settle(IF held /\ Neighbor(delta) THEN delta ELSE 0, [swipe EXCEPT !.start = "none"])
    [] swipe.start = "down" -> /\ swipe' = [swipe EXCEPT !.start = "none", !.peeks = FALSE]
                               /\ UNCHANGED slides
    [] OTHER -> UNCHANGED <<swipe, slides>>

\* The zoom's: a tap, which is quick, waits for a second one; two in time zoom, and leave the bars
\* alone.
ZoomUp(f, quick, intime) ==
  LET lifted == [touch EXCEPT !.pts = @ \ {f}]
      tap    == quick /\ f \in touch.pts /\ f \notin touch.moved /\ touch.pts = {f}
  IN  touch' = CASE tap /\ touch.tapped /\ intime ->
                      [lifted EXCEPT !.tapped = FALSE, !.timer = FALSE, !.zoomed = ~@]
                 [] tap /\ ~(touch.tapped /\ intime) ->
                      [lifted EXCEPT !.tapped = TRUE, !.timer = TRUE]
                 [] OTHER -> lifted

PointerUp(f, delta, held, quick, intime) ==
  /\ viewer.shown /\ (f \in touch.pts \/ swipe.start # "none")
  /\ SwipeUp(delta, held) /\ ZoomUp(f, quick, intime)
  /\ UNCHANGED <<left, viewer, opens>>

\* The browser takes the touch for itself: a drag bounces back, and the peeks go, whoever mounted them.
PointerCancel(f) ==
  /\ viewer.shown /\ (f \in touch.pts \/ swipe.start # "none")
  /\ IF swipe.start = "drag" THEN Settle(0, [swipe EXCEPT !.start = "none"])
     ELSE swipe' = [swipe EXCEPT !.start = "none", !.peeks = FALSE] /\ UNCHANGED slides
  /\ touch' = [touch EXCEPT !.pts = @ \ {f}]
  /\ UNCHANGED <<left, viewer, opens>>

\* The tap's timer runs out with no second tap: the bars are shown or hidden.
ChromeTapTimer ==
  /\ touch.timer
  /\ touch' = [touch EXCEPT !.timer = FALSE, !.tapped = FALSE]
  /\ viewer' = [viewer EXCEPT !.chrome = ~@]
  /\ UNCHANGED <<left, swipe, slides, opens>>

\* A bounce has settled: its peeks go, unless a later touch has mounted its own.
EndBounce(s) ==
  /\ s.delta = 0
  /\ slides' = slides \ {s}
  /\ swipe' = IF s.token = swipe.gesture THEN [swipe EXCEPT !.peeks = FALSE] ELSE swipe
  /\ UNCHANGED <<left, viewer, opens, touch>>

\* Seeded fault: it pages, whether or not the viewer was left.
EndAnySlide(s) ==
  /\ s.delta # 0
  /\ slides' = slides \ {s}
  /\ IF ~Neighbor(s.delta) THEN swipe' = Landed(swipe) /\ UNCHANGED <<viewer, opens, touch>>
     ELSE OpenPreview(viewer.at + s.delta, TRUE,
                      IF viewer.vault THEN swipe ELSE Landed(swipe))
  /\ UNCHANGED left

\* A slide has ended: it pages, unless the viewer was left meanwhile (sliding).
EndSlide(s) ==
  /\ s.delta # 0
  /\ slides' = slides \ {s}
  /\ IF ~swipe.sliding THEN UNCHANGED <<viewer, swipe, opens, touch>>
     ELSE IF ~Neighbor(s.delta) THEN swipe' = Landed(swipe) /\ UNCHANGED <<viewer, opens, touch>>
     ELSE OpenPreview(viewer.at + s.delta, TRUE,
                      IF viewer.vault THEN swipe ELSE Landed(swipe))
  /\ UNCHANGED left
------------------------------------------------------------------------------
ViewerInit ==
  /\ \E vault \in BOOLEAN : viewer = [shown |-> FALSE, at |-> 0, vault |-> vault, chrome |-> TRUE]
  /\ swipe = [start |-> "none", gesture |-> 0, peeks |-> FALSE, home |-> TRUE, sliding |-> FALSE]
  /\ slides = {} /\ opens = {}
  /\ touch = [pts |-> {}, moved |-> {}, zoomed |-> FALSE, tapped |-> FALSE, timer |-> FALSE]

View ==
  \/ \E at \in DOMAIN Kind : OpenFile(at)
  \/ \E o \in opens, ok \in BOOLEAN : Decryption(o, ok)
  \/ \E delta \in {-1, 1} : PreviewNavigate(delta)
  \/ Leave \/ ChromeTapTimer
  \/ \E f \in Fingers : \/ PointerDown(f)
                        \/ \E sideways, zoomed \in BOOLEAN : PointerMove(f, sideways, zoomed)
                        \/ \E delta \in {-1, 1}, held, quick, intime \in BOOLEAN :
                             PointerUp(f, delta, held, quick, intime)
                        \/ PointerCancel(f)
  \/ \E s \in slides : EndBounce(s) \/ EndSlide(s)
------------------------------------------------------------------------------
\* When no finger, animation or decryption is left, the picture is in its place with no neighbour
\* beside it, and the next swipe is taken: no order of touches, pages and slides ending leaves the
\* viewer half way between two files.
ViewerComesToRest ==
  swipe.start = "none" /\ slides = {} /\ opens = {} =>
    swipe.home /\ ~swipe.peeks /\ ~swipe.sliding

OpenedByHand == ~viewer.shown /\ viewer'.shown => left' # left \/ opens # {}

\* Once left, the viewer comes back only when a file is opened: a slide that was still settling
\* does not page back into it.  (A file still being decrypted does: see the README.)
ViewerStaysLeft == [][OpenedByHand]_viewer
==============================================================================
