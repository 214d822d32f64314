-------------------------------- MODULE Dialog --------------------------------
(***************************************************************************)
(* The page's one dialog (showExtraModal in modal.js) and three things it  *)
(* shows: the file search (search.js), the details of an entry (modal.js)  *)
(* and the folder picker (browser.js).  Each asks the server, and each     *)
(* answer finds whichever dialog is open by then.                          *)
(*                                                                         *)
(* A folder is the sequence of names that leads to it.                     *)
(***************************************************************************)
EXTENDS Session

CONSTANTS Query,   \* what may be typed in the search field and is long enough
          Folders, \* the folders there are; << >> is the home folder
          Blocked  \* the folders being moved: none of them can be the destination

\* null is no kind of a dialog; and what is moved are entries of some folder.
ASSUME DialogAssumption ==
  /\ None \notin {"search", "details", "picker"}
  /\ \A p \in Folders : IsPath(p)
  /\ << >> \notin Blocked

VARIABLES
  dialog,   \* the open dialog, with what it shows; Closed when there is none
  scope,    \* searchScope, kept from one search to the next
  asks,     \* requests on their way: [kind, id, what, aborted]
  crossed   \* observer: the answers to two requests of one kind could meet one dialog

dialogVars == <<dialog, scope, asks, crossed>>

Closed == [kind |-> None, id |-> 0]
Names(p) == {q[Len(q)] : q \in {q \in Folders : q # << >> /\ Front(q) = p}}

NewAsk(kind, id, what) == [kind |-> kind, id |-> id, what |-> what, aborted |-> FALSE]
\* A dialog is told from those before it by its number, as the code does by its elements.
Number == left + 1

OfKind(kind) == {a \in asks : a.kind = kind /\ ~a.aborted}
Own(kind)    == {a \in OfKind(kind) : a.id = dialog.id}
------------------------------------------------------------------------------
(* The search.                                                             *)

ShowFileSearch ==
  /\ Gesture
  /\ dialog = Closed
  /\ dialog' = [kind |-> "search", id |-> Number, text |-> None, timer |-> FALSE,
                shown |-> None, stale |-> FALSE]
  /\ UNCHANGED <<scope, asks, crossed>>

\* A keystroke starts the wait for the next one over.
QueueRun(q) ==
  /\ Gesture
  /\ dialog.kind = "search" /\ q # dialog.text
  /\ dialog' = [dialog EXCEPT !.text = q, !.timer = TRUE]
  /\ UNCHANGED <<scope, asks, crossed>>

\* Every query on its way given up: its answer will change nothing.
Aborted == {IF a.kind = "search" THEN [a EXCEPT !.aborted = TRUE] ELSE a : a \in asks}

\* Seeded fault (see the README): the query before is left to answer too.
RunBeside(d, sc) ==
  IF d.text = None
    THEN dialog' = [d EXCEPT !.shown = None] /\ UNCHANGED asks
    ELSE /\ dialog' = [d EXCEPT !.stale = TRUE]
         /\ asks' = asks \cup {NewAsk("search", d.id, <<d.text, sc>>)}

\* run: the query before is aborted, and the rows it had shown stay until the answer.
Run(d, sc) ==
  IF d.text = None
    THEN dialog' = [d EXCEPT !.shown = None] /\ asks' = Aborted
    ELSE /\ dialog' = [d EXCEPT !.stale = TRUE]
         /\ asks' = Aborted \cup {NewAsk("search", d.id, <<d.text, sc>>)}

TimerFires ==
  /\ dialog.kind = "search" /\ dialog.timer
  /\ Run([dialog EXCEPT !.timer = FALSE], scope)
  /\ UNCHANGED <<left, scope, crossed>>

SwitchScope ==
  /\ Gesture
  /\ dialog.kind = "search"
  /\ scope' = IF scope = "root" THEN "folder" ELSE "root"
  /\ Run(dialog, scope')
  /\ UNCHANGED crossed

\* Answers of aborted queries and of dialogs that are gone are dropped.
LandSearch(a, ok) ==
  /\ a.kind = "search"
  /\ asks' = asks \ {a}
  /\ dialog' = IF a.aborted \/ a.id # dialog.id THEN dialog
               ELSE [dialog EXCEPT !.stale = FALSE,
                                   !.shown = [of |-> a.what, ok |-> ok]]
  /\ UNCHANGED <<left, scope, crossed>>

\* However a dialog is dismissed, the search's query goes with it.
Dismiss ==
  /\ Gesture
  /\ dialog # Closed
  /\ dialog' = Closed
  /\ asks' = Aborted
  /\ UNCHANGED <<scope, crossed>>
------------------------------------------------------------------------------
(* The details of a folder.                                                *)

\* What is known of it is fetched first; until then the page is the user's.
ShowDetails(p) ==
  /\ Gesture
  /\ dialog = Closed
  /\ asks' = asks \cup {NewAsk("meta", 0, p)}
  /\ UNCHANGED <<dialog, scope, crossed>>

\* The dialog opens with or without it, over whatever is open; the folder's size is then measured.
LandMeta(a) ==
  /\ a.kind = "meta"
  /\ dialog' = [kind |-> "details", id |-> Number, of |-> a.what, size |-> None]
  /\ crossed' = (crossed \/ OfKind("size") # {})
  /\ asks' = (asks \ {a}) \cup {NewAsk("size", Number, a.what)}
  /\ UNCHANGED <<left, scope>>

\* The size goes to the element of that name, whichever details it is of.
LandSize(a, ok) ==
  /\ a.kind = "size"
  /\ asks' = asks \ {a}
  /\ dialog' = IF dialog.kind = "details"
                 THEN [dialog EXCEPT !.size = IF ok THEN a.what ELSE Failed] ELSE dialog
  /\ UNCHANGED <<left, scope, crossed>>
------------------------------------------------------------------------------
(* The folder picker.                                                      *)

\* render: the folder's rows are asked for; those on screen stay until then.
Render(d) ==
  /\ dialog' = d
  /\ crossed' = (crossed \/ Own("list") # {})
  /\ asks' = asks \cup {NewAsk("list", d.id, d.at)}

ShowFolderPicker ==
  /\ Gesture
  /\ dialog = Closed
  /\ Render([kind |-> "picker", id |-> Number, at |-> << >>, rows |-> {}])
  /\ UNCHANGED scope

\* Rows are filtered against the folder the picker is at by then.
LandRows(a, ok) ==
  /\ a.kind = "list"
  /\ asks' = asks \ {a}
  /\ dialog' = IF dialog.kind # "picker" \/ a.id # dialog.id THEN dialog
               ELSE [dialog EXCEPT !.rows = {n \in Names(a.what) : /\ ok
                                                                    /\ Append(dialog.at, n) \notin Blocked}]
  /\ UNCHANGED <<left, scope, crossed>>

PickRow(n) ==
  /\ Gesture
  /\ dialog.kind = "picker" /\ n \in dialog.rows
  /\ Render([dialog EXCEPT !.at = Append(@, n)])
  /\ UNCHANGED scope

PickUp ==
  /\ Gesture
  /\ dialog.kind = "picker" /\ dialog.at # << >>
  /\ Render([dialog EXCEPT !.at = Front(@)])
  /\ UNCHANGED scope
------------------------------------------------------------------------------
DialogInit ==
  /\ dialog = Closed /\ scope \in {"folder", "root"} /\ asks = {} /\ crossed = FALSE

Converse ==
  \/ ShowFileSearch \/ (\E q \in Query \cup {None} : QueueRun(q)) \/ TimerFires \/ SwitchScope
  \/ \E a \in asks, ok \in BOOLEAN : LandSearch(a, ok) \/ LandSize(a, ok) \/ LandRows(a, ok)
  \/ \E a \in asks : LandMeta(a)
  \/ Dismiss \/ (\E p \in Folders : ShowDetails(p))
  \/ ShowFolderPicker \/ (\E n \in UNION {Names(p) : p \in Folders} : PickRow(n)) \/ PickUp
------------------------------------------------------------------------------
\* A dialog that waits for nothing shows what was asked in it: the hits of the query and the scope
\* last chosen, the size of its own folder, the rows of the folder the picker is at, and among those
\* none a folder may not be moved into.  Excepted are sizes and rows of which two were on their way
\* at once (crossed): the page does not tell those apart.
DialogShowsItsOwn ==
  CASE dialog.kind = "search" ->
         ~dialog.timer /\ Own("search") = {} =>
           dialog.shown \in IF dialog.text = None THEN {None}
                            ELSE [of : {<<dialog.text, scope>>}, ok : BOOLEAN]
    [] dialog.kind = "details" ->
         ~crossed => dialog.size \in {None, Failed, dialog.of}
    [] dialog.kind = "picker" ->
         /\ dialog.at \in Blocked => crossed
         /\ Own("list") = {} /\ ~crossed =>
              \A n \in dialog.rows : Append(dialog.at, n) \in Folders \ Blocked
    [] OTHER -> TRUE
==============================================================================
