------------------------------- MODULE Editor --------------------------------
(***************************************************************************)
(* The text and markdown editor (src/web/static/js/app/editor.js): a file  *)
(* is opened, its text arrives, is typed in, saved and left.  A text is a  *)
(* record of the file it was first loaded from and the edits made to it;   *)
(* an edit can be undone.  A text and its rendering by the markdown editor *)
(* (setMarkdown, getMarkdown) count as one text.                           *)
(***************************************************************************)
EXTENDS Session

CONSTANTS TextFiles,  \* files opened in the plain text area
          Markdown,   \* files opened in the markdown editor
          MaxEdits    \* bound: edits made to a text

ASSUME EditorAssumption == TextFiles \cap Markdown = {} /\ MaxEdits \in Nat

Document == TextFiles \cup Markdown
Blank == [of |-> None, edits |-> 0]
Text == [of : Document \cup {None}, edits : 0 .. MaxEdits]

ASSUME NoTextAssumption == None \notin Text

VARIABLES
  disk,     \* on the server: document -> text
  editor,   \* [shown, path, type, area, rich, saved, dirty, token]: area and rich are the texts of
            \* the text area and of the markdown editor, rich None when there is none
  loads,    \* documents on their way: [token, path, text]
  saves,    \* saves on their way: [path, text, served]
  loaded,   \* observer: the path whose text the editor holds, or None
  early,    \* observer: documents saved while their text had not come
  raced     \* observer: an exception to LeavingLosesNothing has happened (see below)

editorVars == <<disk, editor, loads, saves, loaded, early, raced>>

\* currentEditorContent
Content ==
  IF editor.type = "markdown" /\ editor.rich # None THEN editor.rich ELSE editor.area

\* openEditor: the view is up and the path is set before the text arrives.
OpenEditor(f) ==
  /\ Gesture
  /\ ~editor.shown
  /\ editor' = [editor EXCEPT !.shown = TRUE, !.path = f, !.dirty = FALSE, !.rich = None,
                             !.token = @ + 1]
  /\ loads' = loads \cup {[token |-> editor'.token, path |-> f, text |-> None]}
  /\ loaded' = None
  \* read while a save is on its way, a document may come as it was
  /\ raced' = (raced \/ saves # {})
  /\ UNCHANGED <<early, disk, saves>>

AnswerLoad(l) ==
  /\ l.text = None
  /\ loads' = (loads \ {l}) \cup {[l EXCEPT !.text = disk[l.path]]}
  /\ UNCHANGED <<early, left, disk, editor, saves, loaded, raced>>

\* Seeded fault (see the README): a text is shown whichever document is open by then.
LandAnyLoad(l) ==
  /\ l.text # None
  /\ loads' = loads \ {l}
  /\ loaded' = editor.path
  /\ editor' = [editor EXCEPT !.type = "text", !.area = l.text, !.saved = l.text]
  /\ UNCHANGED <<early, left, disk, saves, raced>>

\* A text that arrives after another document was opened is dropped.
LandLoad(l) ==
  /\ l.text # None
  /\ loads' = loads \ {l}
  /\ IF l.token # editor.token THEN UNCHANGED <<editor, loaded>>
     ELSE /\ loaded' = l.path
          /\ editor' = IF l.path \in Markdown
               THEN [editor EXCEPT !.type = "markdown", !.rich = l.text, !.saved = l.text]
               ELSE [editor EXCEPT !.type = "text", !.area = l.text, !.saved = l.text]
  /\ UNCHANGED <<early, left, disk, saves, raced>>

\* A load that fails leaves the editor up and empty.
FailLoad(l) ==
  /\ l.text = None
  /\ Gesture
  /\ loads' = loads \ {l}
  /\ UNCHANGED <<early, disk, editor, saves, loaded, raced>>

\* The text is edited, or an edit undone; dirty is read off the content (refreshEditorStatus).
Type(n) ==
  /\ Gesture
  /\ editor.shown /\ loaded # None /\ n # Content.edits
  /\ LET new  == [Content EXCEPT !.edits = n]
         kept == [editor EXCEPT !.dirty = new # editor.saved]
     IN  editor' = IF editor.type = "markdown" THEN [kept EXCEPT !.rich = new]
                   ELSE [kept EXCEPT !.area = new]
  \* typed in while its save is on its way: the save will call the new text saved
  /\ raced' = (raced \/ saves # {})
  /\ UNCHANGED <<early, disk, loads, saves, loaded>>

\* saveEditor, by the button or Ctrl+S: whatever the editor holds goes to the path that is open.
Save ==
  /\ Gesture
  /\ editor.shown
  /\ saves' = saves \cup {[path |-> editor.path, text |-> Content, served |-> FALSE]}
  /\ early' = IF loaded = None THEN early \cup {editor.path} ELSE early
  /\ UNCHANGED <<disk, editor, loads, loaded, raced>>

ServeSave(s) ==
  /\ ~s.served
  /\ disk' = [disk EXCEPT ![s.path] = s.text]
  /\ saves' = (saves \ {s}) \cup {[s EXCEPT !.served = TRUE]}
  /\ UNCHANGED <<early, left, editor, loads, loaded, raced>>

\* The reply marks what was sent as saved, for whatever document is open by then.
LandSave(s) ==
  /\ s.served
  /\ saves' = saves \ {s}
  /\ editor' = [editor EXCEPT !.saved = s.text, !.dirty = FALSE]
  /\ raced' = (raced \/ s.path # editor.path)
  /\ UNCHANGED <<early, left, disk, loads, loaded>>

\* Seeded fault: a save that failed is taken for one that went through.
FailSaveUnnoticed(s) ==
  /\ ~s.served
  /\ Gesture
  /\ saves' = saves \ {s}
  /\ editor' = [editor EXCEPT !.saved = s.text, !.dirty = FALSE]
  /\ UNCHANGED <<early, disk, loads, loaded, raced>>

\* A save that fails leaves the text unsaved.
FailSave(s) ==
  /\ ~s.served
  /\ Gesture
  /\ saves' = saves \ {s}
  /\ UNCHANGED <<early, disk, editor, loads, loaded, raced>>

\* editorBack: what is unsaved is left only when the user says so.
EditorBack(confirmed) ==
  /\ Gesture
  /\ editor.shown
  /\ editor.dirty => confirmed
  /\ editor' = [editor EXCEPT !.shown = FALSE, !.rich = None]
  /\ loaded' = None
  /\ UNCHANGED <<early, disk, loads, saves, raced>>

\* Another session saves the document.
SavedElsewhere(f, n) ==
  /\ Gesture
  /\ disk' = [disk EXCEPT ![f] = [of |-> f, edits |-> n]]
  /\ raced' = TRUE
  /\ UNCHANGED <<early, editor, loads, saves, loaded>>

EditorInit ==
  /\ disk = [f \in Document |-> [of |-> f, edits |-> 0]]
  /\ editor = [shown |-> FALSE, path |-> None, type |-> None, area |-> Blank, rich |-> None,
              saved |-> Blank, dirty |-> FALSE, token |-> 0]
  /\ loads = {} /\ saves = {} /\ loaded = None /\ early = {} /\ raced = FALSE

Edit ==
  \/ \E f \in Document : OpenEditor(f)
  \/ \E l \in loads : AnswerLoad(l) \/ LandLoad(l) \/ FailLoad(l)
  \/ \E n \in 0 .. MaxEdits : Type(n)
  \/ Save \/ (\E s \in saves : ServeSave(s) \/ LandSave(s) \/ FailSave(s))
  \/ \E confirmed \in BOOLEAN : EditorBack(confirmed)
  \/ \E f \in Document, n \in 0 .. MaxEdits : SavedElsewhere(f, n)
------------------------------------------------------------------------------
\* A document's text is only ever written to its own path: no late answer puts the text of one
\* document under the path of another, where the next save would destroy it.  Excepted is a
\* document saved before its text had come: Ctrl+S then writes what the editor held before.
TextStaysInItsFile == \A f \in Document \ early : disk[f].of = f

\* The editor may be left without a question only when the server has what it shows.  Excepted are
\* the races the code leaves open (raced, early): typing during a save, opening during a save, a save's
\* reply that finds another document open, a save before the text has come, and another session's.
LeavingLosesNothing ==
  editor.shown /\ loaded # None /\ ~editor.dirty /\ ~raced /\ editor.path \notin early
    => disk[editor.path] = Content
==============================================================================
