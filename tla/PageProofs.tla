----------------------------- MODULE PageProofs -----------------------------
(***************************************************************************)
(* For any documents and any number of edits: no order of loads, saves and *)
(* failures puts a document's text under another's path, and what is left  *)
(* without a question is on the server, save for the races the code is     *)
(* known to leave open.                                                    *)
(*                                                                         *)
(* For any folder of pictures: a viewer left alone rests on the picture it *)
(* shows, and is not shown again by itself.  For any folders and plan:     *)
(* transfers merge no folders, and a move into a vault deletes no file the *)
(* vault has not got.  For any queries and folders: a dialog that waits    *)
(* for nothing shows what was asked in it.                                 *)
(*                                                                         *)
(* For any songs: no change of the tags is lost between the timer and the  *)
(* blobs on their way, short of what the code leaves to chance; a tag is   *)
(* changed only by the verdict on the song left; the level applied is      *)
(* never that of a song skipped past; and the song shown as next is next.  *)
(***************************************************************************)
EXTENDS Page, FiniteSetTheorems, SequenceTheorems, TLAPS

----------------------------------------------------------------------------
(* The editor *)

EditorType ==
  /\ disk \in [Document -> Text]
  /\ editor \in [shown : BOOLEAN, path : Document \cup {None}, type : {None, "text", "markdown"},
                 area : Text, rich : Text \cup {None}, saved : Text, dirty : BOOLEAN, token : Nat]
  /\ loads \subseteq [token : Nat, path : Document, text : Text \cup {None}]
  /\ saves \subseteq [path : Document, text : Text, served : BOOLEAN]
  /\ loaded \in Document \cup {None}
  /\ early \subseteq Document
  /\ raced \in BOOLEAN

\* What is loaded is open, and an open document has a path.
Opened ==
  /\ editor.shown => editor.path \in Document
  /\ loaded # None => loaded = editor.path

\* Every text on its way, in the editor or on the server is the text of its document.
Owned ==
  /\ \A l \in loads : /\ l.token <= editor.token
                      /\ l.token = editor.token => l.path = editor.path
                      /\ l.text # None => l.path \in early \/ l.text.of = l.path
  /\ loaded # None => editor.path \in early \/ Content.of = editor.path
  /\ \A s \in saves : s.path \in early \/ s.text.of = s.path
  /\ TextStaysInItsFile

EInv == EditorType /\ Opened /\ Owned

----------------------------------------------------------------------------
(* Texts *)

LEMMA ContentType == EditorType => Content \in Text
BY DEF EditorType, Content

LEMMA EditedText ==
  ASSUME NEW t \in Text, NEW n \in 0 .. MaxEdits
  PROVE  /\ [t EXCEPT !.edits = n] \in Text /\ [t EXCEPT !.edits = n].of = t.of
         /\ [t EXCEPT !.edits = n] # None
<1>1. [t EXCEPT !.edits = n] \in Text /\ [t EXCEPT !.edits = n].of = t.of
  BY DEF Text
<1> QED
  BY <1>1, NoTextAssumption

----------------------------------------------------------------------------
(* The steps *)

LEMMA EInvInit == EditorInit => EInv
<1> SUFFICES ASSUME EditorInit PROVE EInv
  OBVIOUS
<1>1. Blank \in Text /\ \A f \in Document : [of |-> f, edits |-> 0] \in Text
  BY EditorAssumption DEF Blank, Text
<1>2. EditorType
  BY <1>1 DEF EditorInit, EditorType
<1> QED
  BY <1>1, <1>2 DEF EditorInit, EInv, Opened, Owned, TextStaysInItsFile

LEMMA OpenKeeps == ASSUME NEW f \in Document, EInv, OpenEditor(f) PROVE EInv'
<1> USE DEF OpenEditor
<1>1. EditorType'
  <2>1. editor' \in [shown : BOOLEAN, path : Document \cup {None}, type : {None, "text", "markdown"},
                     area : Text, rich : Text \cup {None}, saved : Text, dirty : BOOLEAN,
                     token : Nat]
    <3>1. /\ editor \in [shown : BOOLEAN, path : Document \cup {None},
                         type : {None, "text", "markdown"}, area : Text,
                         rich : Text \cup {None}, saved : Text, dirty : BOOLEAN, token : Nat]
          /\ editor.token + 1 \in Nat
      BY DEF EInv, EditorType
    <3>2. editor' = [editor EXCEPT !.shown = TRUE, !.path = f, !.dirty = FALSE, !.rich = None,
                                   !.token = editor.token + 1]
      OBVIOUS
    <3> QED
      BY <3>1, <3>2
  <2>2. [token |-> editor'.token, path |-> f, text |-> None]
          \in [token : Nat, path : Document, text : Text \cup {None}]
    BY <2>1
  <2> QED
    BY <2>1, <2>2 DEF EInv, EditorType
<1>2. Opened'
  BY DEF EInv, EditorType, Opened
<1>3. Owned'
  <2>1. editor'.token = editor.token + 1 /\ editor'.path = f
    BY DEF EInv, EditorType
  <2>2. ASSUME NEW l \in loads'
        PROVE  /\ l.token <= editor'.token
               /\ l.token = editor'.token => l.path = editor'.path
               /\ l.text # None => l.path \in early' \/ l.text.of = l.path
    <3>1. CASE l \in loads
      BY <3>1, <2>1 DEF EInv, EditorType, Owned
    <3>2. CASE l \notin loads
      BY <3>2, <2>1 DEF EInv, EditorType
    <3> QED
      BY <3>1, <3>2
  <2> QED
    BY <2>2 DEF EInv, Owned, TextStaysInItsFile
<1> QED
  BY <1>1, <1>2, <1>3 DEF EInv

LEMMA LoadKeeps ==
  ASSUME NEW l \in loads, EInv, AnswerLoad(l) \/ LandLoad(l) \/ FailLoad(l)
  PROVE  EInv'
<1>1. CASE AnswerLoad(l)
  <2> USE <1>1 DEF AnswerLoad
  <2>1. EditorType'
    BY DEF EInv, EditorType
  <2>2. Content' = Content
    BY DEF Content
  <2>3. l.path \in early \/ disk[l.path].of = l.path
    BY DEF EInv, EditorType, Owned, TextStaysInItsFile
  <2>4. ASSUME NEW k \in loads'
        PROVE  /\ k.token <= editor'.token
               /\ k.token = editor'.token => k.path = editor'.path
               /\ k.text # None => k.path \in early' \/ k.text.of = k.path
    <3>1. CASE k \in loads
      BY <3>1 DEF EInv, Owned
    <3>2. CASE k = [l EXCEPT !.text = disk[l.path]]
      BY <3>2, <2>3 DEF EInv, EditorType, Owned
    <3> QED
      BY <3>1, <3>2
  <2> QED
    BY <2>1, <2>2, <2>4 DEF EInv, Opened, Owned, TextStaysInItsFile
<1>2. CASE LandLoad(l)
  <2> USE <1>2 DEF LandLoad
  <2>1. l.text \in Text /\ l.text # None
    BY DEF EInv, EditorType
  <2>2. EditorType'
    <3>1. editor' \in [shown : BOOLEAN, path : Document \cup {None},
                       type : {None, "text", "markdown"}, area : Text,
                       rich : Text \cup {None}, saved : Text, dirty : BOOLEAN, token : Nat]
      BY <2>1 DEF EInv, EditorType
    <3>2. loads' \subseteq loads /\ loaded' \in Document \cup {None}
      BY DEF EInv, EditorType
    <3> QED
      BY <3>1, <3>2 DEF EInv, EditorType
  <2>3. /\ editor'.token = editor.token /\ editor'.path = editor.path
        /\ editor'.shown = editor.shown
    BY DEF EInv, EditorType
  <2>4. CASE l.token # editor.token
    BY <2>2, <2>4 DEF EInv, Opened, Owned, TextStaysInItsFile, Content
  <2>5. CASE l.token = editor.token
    <3>1. l.path = editor.path /\ (l.path \in early \/ l.text.of = l.path)
      BY <2>1, <2>5 DEF EInv, Owned
    <3>2. Content' = l.text
      <4>1. CASE l.path \in Markdown
        <5>1. editor'.type = "markdown" /\ editor'.rich = l.text
          BY <2>5, <4>1 DEF EInv, EditorType
        <5> QED
          BY <5>1, <2>1 DEF Content
      <4>2. CASE l.path \notin Markdown
        <5>1. editor'.type = "text" /\ editor'.area = l.text
          BY <2>5, <4>2 DEF EInv, EditorType
        <5> QED
          BY <5>1 DEF Content
      <4> QED
        BY <4>1, <4>2
    <3> QED
      BY <2>2, <2>3, <2>5, <3>1, <3>2 DEF EInv, Opened, Owned, TextStaysInItsFile
  <2> QED
    BY <2>4, <2>5
<1>3. CASE FailLoad(l)
  BY <1>3 DEF FailLoad, EInv, EditorType, Opened, Owned, TextStaysInItsFile, Content
<1> QED
  BY <1>1, <1>2, <1>3

LEMMA TypeKeeps == ASSUME NEW n \in 0 .. MaxEdits, EInv, Type(n) PROVE EInv'
<1> DEFINE new == [Content EXCEPT !.edits = n]
<1>1. new \in Text /\ new.of = Content.of /\ new # None
  BY ContentType, EditedText DEF EInv
<1>2. EditorType'
  BY <1>1 DEF Type, EInv, EditorType
<1>3. /\ editor'.token = editor.token /\ editor'.path = editor.path
      /\ editor'.shown = editor.shown
  BY DEF Type, EInv, EditorType
<1>4. Content' = new
  <2>1. CASE editor.type = "markdown"
    <3>1. editor'.type = "markdown" /\ editor'.rich = new
      BY <2>1 DEF Type, EInv, EditorType
    <3> QED
      BY <3>1, <1>1 DEF Content
  <2>2. CASE editor.type # "markdown"
    <3>1. editor'.type # "markdown" /\ editor'.area = new
      BY <2>2 DEF Type, EInv, EditorType
    <3> QED
      BY <3>1 DEF Content
  <2> QED
    BY <2>1, <2>2
<1> QED
  BY <1>1, <1>2, <1>3, <1>4 DEF Type, EInv, Opened, Owned, TextStaysInItsFile

LEMMA SaveKeeps == EInv /\ Save => EInv'
<1> SUFFICES ASSUME EInv, Save PROVE EInv'
  OBVIOUS
<1>1. editor.path \in Document
  BY DEF EInv, Opened, Save
<1>2. EditorType'
  <2>1. [path |-> editor.path, text |-> Content, served |-> FALSE]
          \in [path : Document, text : Text, served : BOOLEAN]
    BY <1>1, ContentType DEF EInv
  <2> QED
    BY <1>1, <2>1 DEF EInv, EditorType, Save
<1>3. editor.path \in early' \/ Content.of = editor.path
  BY DEF EInv, Owned, Save
<1>4. early \subseteq early'
  BY DEF Save
<1>5. Content' = Content
  BY DEF Save, Content
<1>6. \A s \in saves' : s.path \in early' \/ s.text.of = s.path
  BY <1>3, <1>4 DEF EInv, Owned, Save
<1> QED
  BY <1>2, <1>4, <1>5, <1>6 DEF EInv, Opened, Owned, Save, TextStaysInItsFile

LEMMA SavesKeep ==
  ASSUME NEW s \in saves, EInv, ServeSave(s) \/ LandSave(s) \/ FailSave(s)
  PROVE  EInv'
<1>1. CASE ServeSave(s)
  <2> USE <1>1 DEF ServeSave
  <2>1. EditorType'
    BY DEF EInv, EditorType
  <2>2. Content' = Content
    BY DEF Content
  <2>3. \A t \in saves' : t.path \in early' \/ t.text.of = t.path
    BY DEF EInv, EditorType, Owned
  <2>4. TextStaysInItsFile'
    BY DEF EInv, EditorType, Owned, TextStaysInItsFile
  <2> QED
    BY <2>1, <2>2, <2>3, <2>4 DEF EInv, Opened, Owned
<1>2. CASE LandSave(s)
  <2> USE <1>2 DEF LandSave
  <2>1. EditorType'
    BY DEF EInv, EditorType
  <2>2. /\ editor'.token = editor.token /\ editor'.path = editor.path
        /\ editor'.shown = editor.shown /\ Content' = Content
    BY DEF EInv, EditorType, Content
  <2> QED
    BY <2>1, <2>2 DEF EInv, Opened, Owned, TextStaysInItsFile
<1>3. CASE FailSave(s)
  BY <1>3 DEF FailSave, EInv, EditorType, Opened, Owned, TextStaysInItsFile, Content
<1> QED
  BY <1>1, <1>2, <1>3

LEMMA BackKeeps == ASSUME NEW confirmed, EInv, EditorBack(confirmed) PROVE EInv'
<1>1. EditorType'
  BY DEF EInv, EditorType, EditorBack
<1>2. editor'.token = editor.token /\ editor'.path = editor.path /\ ~editor'.shown
  BY DEF EInv, EditorType, EditorBack
<1> QED
  BY <1>1, <1>2 DEF EInv, Opened, Owned, EditorBack, TextStaysInItsFile

LEMMA ElsewhereKeeps ==
  ASSUME NEW f \in Document, NEW n \in 0 .. MaxEdits, EInv, SavedElsewhere(f, n)
  PROVE  EInv'
<1>1. [of |-> f, edits |-> n] \in Text
  BY DEF Text
<1>2. EditorType'
  BY <1>1 DEF EInv, EditorType, SavedElsewhere
<1>3. TextStaysInItsFile'
  BY DEF EInv, EditorType, Owned, SavedElsewhere, TextStaysInItsFile
<1> QED
  BY <1>2, <1>3 DEF EInv, Opened, Owned, SavedElsewhere, Content

LEMMA EInvNext == EInv /\ [Next]_pageVars => EInv'
<1> SUFFICES ASSUME EInv, Edit \/ UNCHANGED editorVars PROVE EInv'
  BY DEF Next, InBrowser, InEditor, InViewer, InDialog, WithSongs, InTransfer, pageVars
<1>1. CASE Edit
  BY <1>1, OpenKeeps, LoadKeeps, TypeKeeps, SaveKeeps, SavesKeep, BackKeeps, ElsewhereKeeps DEF Edit
<1>2. CASE UNCHANGED editorVars
  BY <1>2 DEF editorVars, EInv, EditorType, Opened, Owned, TextStaysInItsFile, Content
<1> QED
  BY <1>1, <1>2

\* No document's text is ever written under another's path, unless it was saved before it had come.
THEOREM TextsStay == PageSpec => []TextStaysInItsFile
<1>1. Init => EInv
  BY EInvInit DEF Init
<1>2. EInv => TextStaysInItsFile
  BY DEF EInv, Owned
<1> QED
  BY <1>1, <1>2, EInvNext, PTL DEF PageSpec

----------------------------------------------------------------------------
(* What is left without a question *)

\* None of the races the code leaves open has touched the open document.
Sole == ~raced /\ editor.path \notin early

\* A document is asked for once each time it is opened, and not again once its text is there.
AskedOnce ==
  /\ \A k, l \in loads : k.token = l.token => k = l
  /\ loaded # None => \A l \in loads : l.token # editor.token

\* Saves are of the open document, and begin only when its text is there; so what is still to come
\* is what the server has.
InTurn ==
  /\ ~raced => \A s \in saves : s.path = editor.path
  /\ Sole /\ saves # {} => \A l \in loads : l.token # editor.token
  /\ Sole => \A l \in loads :
       l.token = editor.token /\ l.text # None => l.text = disk[editor.path]

\* What is being saved is what the editor holds, what it calls saved is on the server, or about to
\* be called something newer, and what is not dirty is on the server.
Kept ==
  Sole /\ loaded # None =>
    /\ \A s \in saves : s.text = Content /\ (s.served => disk[editor.path] = s.text)
    /\ editor.saved = disk[editor.path] \/ \E s \in saves : s.served
    /\ ~editor.dirty => Content = disk[editor.path]

LInv == EInv /\ AskedOnce /\ InTurn /\ Kept

LEMMA LInvInit == EditorInit => LInv
BY EInvInit DEF EditorInit, LInv, AskedOnce, InTurn, Kept

LEMMA OpenKeepsKept == ASSUME NEW f \in Document, LInv, OpenEditor(f) PROVE LInv'
<1>1. EInv'
  BY OpenKeeps DEF LInv
<1> DEFINE new == [token |-> editor'.token, path |-> f, text |-> None]
<1>2. /\ editor'.token = editor.token + 1 /\ editor'.path = f /\ loaded' = None
      /\ loads' = loads \cup {new}
      /\ saves' = saves /\ (raced' \/ saves = {})
  BY DEF LInv, EInv, EditorType, OpenEditor
<1>3. \A l \in loads : l.token # editor'.token
  BY <1>2 DEF LInv, EInv, EditorType, Owned
<1>4. AskedOnce'
  <2>1. new.token = editor'.token
    OBVIOUS
  <2> HIDE DEF new
  <2> QED
    BY <1>2, <1>3, <2>1 DEF LInv, AskedOnce
<1>5. \A l \in loads' : l.token = editor'.token => l.text = None
  <2>1. new.text = None
    OBVIOUS
  <2> HIDE DEF new
  <2> QED
    BY <1>2, <1>3, <2>1
<1> QED
  BY <1>1, <1>2, <1>4, <1>5 DEF LInv, InTurn, Kept, Sole

LEMMA LoadKeepsKept ==
  ASSUME NEW l \in loads, LInv, AnswerLoad(l) \/ LandLoad(l) \/ FailLoad(l)
  PROVE  LInv'
<1>1. EInv'
  BY LoadKeeps DEF LInv
<1>2. CASE AnswerLoad(l)
  <2> DEFINE came == [l EXCEPT !.text = disk[l.path]]
  <2>1. /\ came.token = l.token /\ came.text = disk[l.path]
        /\ loads' = (loads \ {l}) \cup {came}
        /\ UNCHANGED <<disk, editor, saves, loaded, early, raced>> /\ Content' = Content
    BY <1>2 DEF AnswerLoad, LInv, EInv, EditorType, Content
  <2>2. AskedOnce'
    BY <2>1, ZenonT(40) DEF LInv, AskedOnce
  <2>3. l.token = editor.token => l.path = editor.path
    BY DEF LInv, EInv, Owned
  <2>4. InTurn'
    BY <2>1, <2>3 DEF LInv, InTurn, Sole
  <2>5. Kept'
    BY <2>1 DEF LInv, Kept, Sole
  <2> QED
    BY <1>1, <2>2, <2>4, <2>5 DEF LInv
<1>3. CASE LandLoad(l) /\ l.token = editor.token
  <2>1. /\ loads' = loads \ {l} /\ loaded' = l.path /\ l.text # None
        /\ UNCHANGED <<disk, saves, early, raced>>
    BY <1>3 DEF LandLoad
  <2>2. editor'.token = editor.token /\ editor'.path = editor.path /\ editor'.saved = l.text
    BY <1>3 DEF LandLoad, LInv, EInv, EditorType
  <2>3. Content' = l.text
    <3>1. CASE l.path \in Markdown
      <4>1. editor'.type = "markdown" /\ editor'.rich = l.text
        BY <1>3, <3>1 DEF LandLoad, LInv, EInv, EditorType
      <4> QED
        BY <4>1, <2>1 DEF Content
    <3>2. CASE l.path \notin Markdown
      <4>1. editor'.type = "text" /\ editor'.area = l.text
        BY <1>3, <3>2 DEF LandLoad, LInv, EInv, EditorType
      <4> QED
        BY <4>1 DEF Content
    <3> QED
      BY <3>1, <3>2
  <2>4. AskedOnce'
    BY <1>3, <2>1, <2>2 DEF LInv, AskedOnce
  <2>5. InTurn'
    BY <2>1, <2>2 DEF LInv, InTurn, Sole
  <2>6. Sole => saves = {} /\ l.text = disk[editor.path]
    BY <1>3, <2>1 DEF LInv, InTurn
  <2>7. Kept'
    BY <2>1, <2>2, <2>3, <2>6 DEF Kept, Sole
  <2> QED
    BY <1>1, <2>4, <2>5, <2>7 DEF LInv
<1>4. CASE FailLoad(l) \/ (LandLoad(l) /\ l.token # editor.token)
  <2>1. loads' \subseteq loads /\ UNCHANGED <<disk, editor, saves, loaded, early, raced>>
    BY <1>4 DEF FailLoad, LandLoad
  <2>2. AskedOnce'
    BY <2>1 DEF LInv, AskedOnce
  <2>3. InTurn'
    BY <2>1 DEF LInv, InTurn, Sole
  <2>4. Kept'
    BY <2>1 DEF LInv, Kept, Sole, Content
  <2> QED
    BY <1>1, <2>2, <2>3, <2>4 DEF LInv
<1> QED
  BY <1>2, <1>3, <1>4

LEMMA TypeKeepsKept == ASSUME NEW n \in 0 .. MaxEdits, LInv, Type(n) PROVE LInv'
<1> DEFINE new == [Content EXCEPT !.edits = n]
<1>1. EInv'
  BY TypeKeeps DEF LInv
<1>2. new # None
  BY ContentType, EditedText DEF LInv, EInv
<1>3. /\ editor'.token = editor.token /\ editor'.path = editor.path
      /\ editor'.saved = editor.saved /\ editor'.dirty = (new # editor.saved)
  BY DEF Type, LInv, EInv, EditorType
<1>4. Content' = new
  <2>1. CASE editor.type = "markdown"
    <3>1. editor'.type = "markdown" /\ editor'.rich = new
      BY <2>1 DEF Type, LInv, EInv, EditorType
    <3> QED
      BY <3>1, <1>2 DEF Content
  <2>2. CASE editor.type # "markdown"
    <3>1. editor'.type # "markdown" /\ editor'.area = new
      BY <2>2 DEF Type, LInv, EInv, EditorType
    <3> QED
      BY <3>1 DEF Content
  <2> QED
    BY <2>1, <2>2
<1>5. /\ UNCHANGED <<disk, loads, saves, loaded, early>>
      /\ raced' = (raced \/ saves # {})
  BY DEF Type
<1>6. AskedOnce'
  BY <1>3, <1>5 DEF LInv, AskedOnce
<1>7. InTurn'
  BY <1>3, <1>5 DEF LInv, InTurn, Sole
<1>8. Kept'
  BY <1>3, <1>4, <1>5 DEF LInv, Kept, Sole
<1> QED
  BY <1>1, <1>6, <1>7, <1>8 DEF LInv

LEMMA SaveKeepsKept == LInv /\ Save => LInv'
<1> SUFFICES ASSUME LInv, Save PROVE LInv'
  OBVIOUS
<1>1. EInv'
  BY SaveKeeps DEF LInv
<1> DEFINE s == [path |-> editor.path, text |-> Content, served |-> FALSE]
<1>2. /\ saves' = saves \cup {s} /\ early \subseteq early'
      /\ UNCHANGED <<disk, editor, loads, loaded, raced>> /\ Content' = Content
      /\ loaded = None => editor.path \in early'
  BY DEF Save, Content
<1>3. AskedOnce'
  BY <1>2 DEF LInv, AskedOnce
<1>4. InTurn'
  BY <1>2 DEF LInv, InTurn, AskedOnce, Sole
<1>5. Kept'
  BY <1>2 DEF LInv, Kept, Sole
<1> QED
  BY <1>1, <1>3, <1>4, <1>5 DEF LInv

LEMMA SavesKeepKept ==
  ASSUME NEW s \in saves, LInv, ServeSave(s) \/ LandSave(s) \/ FailSave(s)
  PROVE  LInv'
<1>1. EInv'
  BY SavesKeep DEF LInv
<1>2. CASE ServeSave(s)
  <2> DEFINE done == [s EXCEPT !.served = TRUE]
  <2>1. /\ done.text = s.text /\ done.path = s.path /\ done.served
        /\ saves' = (saves \ {s}) \cup {done}
        /\ UNCHANGED <<editor, loads, loaded, early, raced>> /\ Content' = Content
    BY <1>2 DEF ServeSave, LInv, EInv, EditorType, Content
  <2>2. disk'[s.path] = s.text
    BY <1>2 DEF ServeSave, LInv, EInv, EditorType
  <2>3. AskedOnce'
    BY <2>1 DEF LInv, AskedOnce
  <2>4. InTurn'
    BY <2>1 DEF LInv, InTurn, Sole
  <2>5. Kept'
    BY <2>1, <2>2 DEF LInv, InTurn, Kept, Sole
  <2> QED
    BY <1>1, <2>3, <2>4, <2>5 DEF LInv
<1>3. CASE LandSave(s)
  <2>1. /\ saves' = saves \ {s} /\ s.served
        /\ UNCHANGED <<disk, loads, loaded, early>>
        /\ raced' = (raced \/ s.path # editor.path)
    BY <1>3 DEF LandSave
  <2>2. /\ editor'.token = editor.token /\ editor'.path = editor.path /\ Content' = Content
        /\ editor'.saved = s.text
    BY <1>3 DEF LandSave, LInv, EInv, EditorType, Content
  <2>3. AskedOnce'
    BY <2>1, <2>2 DEF LInv, AskedOnce
  <2>4. InTurn'
    BY <2>1, <2>2 DEF LInv, InTurn, Sole
  <2>5. Kept'
    BY <2>1, <2>2 DEF LInv, Kept, Sole
  <2> QED
    BY <1>1, <2>3, <2>4, <2>5 DEF LInv
<1>4. CASE FailSave(s)
  <2>1. /\ saves' = saves \ {s} /\ ~s.served /\ Content' = Content
        /\ UNCHANGED <<disk, editor, loads, loaded, early, raced>>
    BY <1>4 DEF FailSave, Content
  <2>2. AskedOnce'
    BY <2>1 DEF LInv, AskedOnce
  <2>3. InTurn'
    BY <2>1 DEF LInv, InTurn, Sole
  <2>4. Kept'
    BY <2>1 DEF LInv, Kept, Sole
  <2> QED
    BY <1>1, <2>2, <2>3, <2>4 DEF LInv
<1> QED
  BY <1>2, <1>3, <1>4

LEMMA BackKeepsKept == ASSUME NEW confirmed, LInv, EditorBack(confirmed) PROVE LInv'
<1>1. EInv'
  BY BackKeeps DEF LInv
<1>2. /\ editor'.token = editor.token /\ editor'.path = editor.path /\ loaded' = None
      /\ UNCHANGED <<disk, loads, saves, early, raced>>
  BY DEF LInv, EInv, EditorType, EditorBack
<1> QED
  BY <1>1, <1>2 DEF LInv, AskedOnce, InTurn, Kept, Sole

LEMMA LInvNext == LInv /\ [Next]_pageVars => LInv'
<1> SUFFICES ASSUME LInv, Edit \/ UNCHANGED editorVars PROVE LInv'
  BY DEF Next, InBrowser, InEditor, InViewer, InDialog, WithSongs, InTransfer, pageVars
<1>1. ASSUME NEW f \in Document, NEW n \in 0 .. MaxEdits, SavedElsewhere(f, n) PROVE LInv'
  <2>1. EInv' /\ raced' /\ UNCHANGED <<editor, loads, loaded>>
    BY <1>1, ElsewhereKeeps DEF LInv, SavedElsewhere
  <2> QED
    BY <2>1 DEF LInv, AskedOnce, InTurn, Kept, Sole
<1>2. CASE Edit
  BY <1>1, <1>2, OpenKeepsKept, LoadKeepsKept, TypeKeepsKept, SaveKeepsKept, SavesKeepKept,
     BackKeepsKept DEF Edit
<1>3. CASE UNCHANGED editorVars
  <2>1. EInv'
    BY <1>3 DEF LInv, editorVars, EInv, EditorType, Opened, Owned, TextStaysInItsFile, Content
  <2> QED
    BY <1>3, <2>1 DEF LInv, editorVars, AskedOnce, InTurn, Kept, Sole, Content
<1> QED
  BY <1>2, <1>3

\* Short of the races the code leaves open, the editor is left without a question only when the
\* server has what it shows.
THEOREM NothingLostOnLeaving == PageSpec => []LeavingLosesNothing
<1>1. Init => LInv
  BY LInvInit DEF Init
<1>2. LInv => LeavingLosesNothing
  BY DEF LInv, Kept, Sole, LeavingLosesNothing
<1> QED
  BY <1>1, <1>2, LInvNext, PTL DEF PageSpec

----------------------------------------------------------------------------
(* Tags *)

\* What the timer will send is what the page shows; once it has run, so is what is on its way; and
\* once that has come, so is what the server has.
Underway ==
  /\ \A b \in timer : b = tags
  /\ timer = {} => \A p \in puts : p.blob = tags
  /\ \A p, q \in puts : p = q
  /\ timer = {} /\ puts = {} => server = tags

TInv == kept = tags /\ (~shared => Underway)

LEMMA TInvInit == TagsInit => TInv
BY DEF TagsInit, TInv, Underway

LEMMA SaveKeepsTags == ASSUME NEW new, TInv, SaveTags(new) PROVE TInv'
BY DEF TInv, SaveTags, Underway

LEMMA SetKeepsTags == ASSUME NEW new, TInv, SetTags(new) PROVE TInv'
<1>1. CASE UNCHANGED tagsVars
  BY <1>1 DEF tagsVars, TInv, Underway
<1> QED
  BY <1>1, SaveKeepsTags DEF SetTags

LEMMA AsyncKeepsTags ==
  TInv /\ (TagsAsync \/ SyncTags \/ \E p \in puts : LosePut(p)) => TInv'
<1> SUFFICES ASSUME TInv, TagsAsync \/ SyncTags \/ \E p \in puts : LosePut(p) PROVE TInv'
  OBVIOUS
<1>1. CASE SyncTimer
  <2>1. kept' = tags' /\ timer' = {} /\ timer # {} /\ tags' = tags
    BY <1>1 DEF SyncTimer, TInv
  <2>2. ASSUME ~shared' PROVE Underway'
    <3>1. puts' = {[n |-> left, blob |-> b] : b \in timer} /\ \A b \in timer : b = tags
      BY <1>1, <2>2 DEF SyncTimer, TInv, Underway
    <3>2. \A p \in puts' : p = [n |-> left, blob |-> tags]
      BY <3>1
    <3>3. puts' # {}
      BY <2>1, <3>1
    <3> QED
      BY <2>1, <3>2, <3>3 DEF Underway
  <2> QED
    BY <2>1, <2>2 DEF TInv
<1>2. ASSUME NEW p \in puts, ServePut(p) PROVE TInv'
  BY <1>2 DEF ServePut, TInv, Underway
<1>3. ASSUME NEW g \in gets, LandTags(g) PROVE TInv'
  BY <1>3 DEF LandTags, TInv, Underway
<1>4. CASE SyncTags \/ \E p \in puts : LosePut(p)
  BY <1>4 DEF SyncTags, LosePut, TInv, Underway
<1> QED
  BY <1>1, <1>2, <1>3, <1>4 DEF TagsAsync

LEMMA PlayerKeepsTags == TInv /\ (Listen \/ Autotag \/ LevelSongs \/ TagsMove) => TInv'
<1> SUFFICES ASSUME TInv, Listen \/ Autotag \/ LevelSongs \/ TagsMove PROVE TInv'
  OBVIOUS
<1>1. CASE UNCHANGED tagsVars
  BY <1>1 DEF tagsVars, TInv, Underway
<1>2. ASSUME NEW way, NEW fromHead, NEW t, NEW verdict, Step(way, fromHead, t, verdict) PROVE TInv'
  BY <1>2, SetKeepsTags DEF Step
<1>3. ASSUME NEW p, NEW o, Arrange(p, o) PROVE TInv'
  BY <1>1, <1>3 DEF Arrange
<1>4. ASSUME NEW s, OpenSong(s) PROVE TInv'
  <2>1. UNCHANGED tagsVars \/ \E new : SetTags(new)
    BY <1>4 DEF OpenSong
  <2> QED
    BY <1>1, <2>1, SetKeepsTags
<1>5. CASE Listen
  <2>1. ASSUME NEW playing, LeaveSong(playing) PROVE TInv'
    <3>1. UNCHANGED tagsVars \/ \E new : SetTags(new)
      BY <2>1 DEF LeaveSong
    <3> QED
      BY <1>1, <3>1, SetKeepsTags
  <2>2. CASE SongEnds
    BY <1>2, <2>2, SetKeepsTags DEF SongEnds
  <2> QED
    BY <1>1, <1>2, <1>3, <1>4, <1>5, <2>1, <2>2 DEF Listen, Skip, PlaysOn, ChangeMode
<1>6. CASE Autotag
  <2>1. ASSUME NEW s, HandTag(s) PROVE TInv'
    BY <2>1, SaveKeepsTags DEF HandTag, SetFileTag
  <2> QED
    BY <1>3, <1>6, <2>1 DEF Autotag, ApplyMix, ChangeTagging, ChangeFilter
<1>7. CASE LevelSongs
  BY <1>1, <1>7 DEF LevelSongs, WarmGain, LandGain, ToggleLevel
<1>8. CASE TagsMove
  BY <1>8, AsyncKeepsTags DEF TagsMove
<1> QED
  BY <1>5, <1>6, <1>7, <1>8

LEMMA TInvNext == TInv /\ [Next]_pageVars => TInv'
<1> SUFFICES ASSUME TInv, \/ Listen \/ Autotag \/ LevelSongs \/ TagsMove \/ TagsNext
                          \/ UNCHANGED tagsVars
             PROVE  TInv'
  BY DEF Next, InBrowser, InEditor, InViewer, InDialog, WithSongs, InTransfer, pageVars, songVars
<1>1. CASE TagsNext
  <2>1. ASSUME NEW f, TaggedElsewhere(f) PROVE TInv'
    BY <2>1 DEF TaggedElsewhere, TInv
  <2> QED
    BY <1>1, <2>1, AsyncKeepsTags, SaveKeepsTags DEF TagsNext, SetFileTag, RetagPath
<1>2. CASE UNCHANGED tagsVars
  BY <1>2 DEF tagsVars, TInv, Underway
<1> QED
  BY <1>1, <1>2, PlayerKeepsTags

\* Short of a lost put, two puts at once, an answer that replaced newer tags and another page's write,
\* every change of the tags reaches the server.
THEOREM TagsReach == PageSpec => []LastTagsReachServer
<1>1. Init => TInv
  BY TInvInit DEF Init, PlayerInit
<1>2. TInv => LastTagsReachServer
  BY DEF TInv, Underway, LastTagsReachServer
<1> QED
  BY <1>1, <1>2, TInvNext, PTL DEF PageSpec

----------------------------------------------------------------------------
(* Levels *)

IsPlay(p) ==
  /\ DOMAIN p = {"where", "song", "track", "manual", "head", "pos", "token", "gain", "mode",
                 "filter", "tagging", "mix"}
  /\ p.token \in Nat

\* Who waits for a measurement got a token when its song was loaded; the newest token is the song's
\* that plays.
Waiting ==
  /\ DOMAIN gains = {"cache", "asked", "waits"}
  /\ \A n, s : <<n, s>> \in gains.waits =>
       /\ n \in Nat /\ n <= play.token
       /\ n = play.token => s = play.song

GInv == IsPlay(play) /\ Waiting /\ GainIsTheSongs

LEMMA GInvInit == PlayerInit => GInv
BY DEF PlayerInit, GInv, IsPlay, Waiting, GainIsTheSongs

\* A step that leaves the song, its token and its level alone.
SameSong(p, q) ==
  DOMAIN p = DOMAIN q /\ p.song = q.song /\ p.token = q.token /\ p.gain = q.gain

LEMMA SameSongKeeps ==
  ASSUME GInv, SameSong(play', play), DOMAIN gains' = DOMAIN gains, gains'.waits \subseteq gains.waits
  PROVE  GInv'
BY DEF GInv, IsPlay, Waiting, GainIsTheSongs, SameSong

\* A step that loads a song, or levels it anew.
LEMMA NewTokenKeeps ==
  ASSUME GInv, NEW s, NEW on,
         DOMAIN play' = DOMAIN play, play'.token = play.token + 1, play'.song = s,
         play'.gain \in {None, s}, LoadTrackGain(s, play'.token, on)
  PROVE  GInv'
<1>1. DOMAIN gains' = DOMAIN gains
  BY DEF GInv, Waiting, LoadTrackGain
<1>2. gains'.waits \subseteq gains.waits \cup {<<play'.token, s>>}
  BY DEF GInv, Waiting, LoadTrackGain
<1>3. play'.token \in Nat /\ play.token \in Nat
  BY DEF GInv, IsPlay
<1>4. ASSUME NEW n, NEW r, <<n, r>> \in gains'.waits
      PROVE  n \in Nat /\ n <= play'.token /\ (n = play'.token => r = play'.song)
  <2>1. CASE <<n, r>> \in gains.waits
    <3>1. n \in Nat /\ n <= play.token
      BY <2>1 DEF GInv, Waiting
    <3> QED
      BY <1>3, <3>1
  <2>2. CASE <<n, r>> = <<play'.token, s>>
    BY <2>2, <1>3
  <2> QED
    BY <1>2, <1>4, <2>1, <2>2
<1> QED
  BY <1>1, <1>3, <1>4 DEF GInv, IsPlay, Waiting, GainIsTheSongs

LEMMA LoadedFields ==
  ASSUME NEW p, IsPlay(p), NEW s, NEW paging
  PROVE  LET q == Loaded(p, s, paging)
         IN  DOMAIN q = DOMAIN p /\ q.token = p.token + 1 /\ q.song = s /\ q.gain \in {None, s}
BY DEF Loaded, IsPlay, GainOf

LEMMA StepKeeps ==
  ASSUME NEW way, NEW fromHead, NEW t, NEW verdict, GInv, Step(way, fromHead, t, verdict)
  PROVE  GInv'
<1>1. PICK to, extend :
        LET q == Loaded(play, to, TRUE)
        IN  /\ play' = IF extend THEN [q EXCEPT !.head = to] ELSE q
            /\ LoadTrackGain(to, play'.token, level)
  BY DEF Step
<1>2. LET q == Loaded(play, to, TRUE)
      IN  /\ DOMAIN q = DOMAIN play /\ q.token = play.token + 1 /\ q.song = to
          /\ q.gain \in {None, to}
  BY LoadedFields DEF GInv
<1>3. /\ DOMAIN play' = DOMAIN play /\ play'.token = play.token + 1 /\ play'.song = to
      /\ play'.gain \in {None, to}
  BY <1>1, <1>2 DEF GInv, IsPlay
<1> QED
  BY <1>1, <1>3, NewTokenKeeps

LEMMA OpenSongKeeps == ASSUME NEW s, GInv, OpenSong(s) PROVE GInv'
<1> DEFINE there == [play EXCEPT !.where = "viewer"]
           p == IF play.where = "bar" THEN SessionEnded(there) ELSE there
<1>1. SameSong(there, play) /\ SameSong(p, play) /\ IsPlay(p)
  BY DEF GInv, IsPlay, SameSong, SessionEnded
<1>2. CASE play' = there /\ UNCHANGED gains
  BY <1>1, <1>2, SameSongKeeps
<1>3. CASE play' = Loaded(p, s, FALSE) /\ LoadTrackGain(s, play'.token, level)
  <2> HIDE DEF p
  <2>1. LET q == Loaded(p, s, FALSE)
        IN  DOMAIN q = DOMAIN p /\ q.token = p.token + 1 /\ q.song = s /\ q.gain \in {None, s}
    BY <1>1, LoadedFields
  <2>2. /\ DOMAIN play' = DOMAIN play /\ play'.token = play.token + 1 /\ play'.song = s
        /\ play'.gain \in {None, s}
    BY <1>1, <1>3, <2>1 DEF SameSong
  <2> QED
    BY <1>3, <2>2, NewTokenKeeps
<1> QED
  BY <1>2, <1>3 DEF OpenSong

LEMMA ArrangeKeeps ==
  ASSUME NEW p, NEW o, GInv, Arrange(p, o), SameSong(p, play) PROVE GInv'
BY SameSongKeeps DEF Arrange

LEMMA LevelsKeep == GInv /\ LevelSongs => GInv'
<1> SUFFICES ASSUME GInv, LevelSongs PROVE GInv'
  OBVIOUS
<1>1. ASSUME NEW s, WarmGain(s) PROVE GInv'
  <2>1. SameSong(play', play) /\ DOMAIN gains' = DOMAIN gains /\ gains'.waits = gains.waits
    BY <1>1 DEF WarmGain, SameSong, GInv, Waiting
  <2> QED
    BY <2>1, SameSongKeeps
<1>2. ASSUME NEW s, NEW ok \in BOOLEAN, LandGain(s, ok) PROVE GInv'
  <2>1. DOMAIN gains' = DOMAIN gains /\ gains'.waits \subseteq gains.waits
    BY <1>2 DEF LandGain, GInv, Waiting
  <2>2. CASE <<play.token, s>> \notin gains.waits
    BY <1>2, <2>1, <2>2, SameSongKeeps DEF LandGain, SameSong
  <2>3. CASE <<play.token, s>> \in gains.waits
    <3>1. s = play.song
      BY <2>3 DEF GInv, Waiting
    <3>2. /\ DOMAIN play' = DOMAIN play /\ play'.token = play.token /\ play'.song = play.song
          /\ play'.gain \in {None, s}
      BY <1>2, <2>3 DEF LandGain, GInv, IsPlay
    <3> QED
      BY <2>1, <3>1, <3>2 DEF GInv, IsPlay, Waiting, GainIsTheSongs
  <2> QED
    BY <2>2, <2>3
<1>3. CASE ToggleLevel
  <2>1. /\ DOMAIN play' = DOMAIN play /\ play'.token = play.token + 1 /\ play'.song = play.song
        /\ play'.gain \in {None, play.song}
    BY <1>3 DEF ToggleLevel, GainOf, GInv, IsPlay
  <2> QED
    BY <1>3, <2>1, NewTokenKeeps DEF ToggleLevel
<1> QED
  BY <1>1, <1>2, <1>3 DEF LevelSongs

LEMMA GInvNext == GInv /\ [Next]_pageVars => GInv'
<1> SUFFICES ASSUME GInv, \/ Listen \/ Autotag \/ LevelSongs \/ TagsMove
                          \/ UNCHANGED <<play, gains>>
             PROVE  GInv'
  BY DEF Next, InBrowser, InEditor, InViewer, InDialog, WithSongs, InTransfer, pageVars, songVars,
         playerVars
<1>1. CASE UNCHANGED <<play, gains>>
  BY <1>1, SameSongKeeps DEF SameSong
<1>2. ASSUME NEW playing, LeaveSong(playing) PROVE GInv'
  <2>1. SameSong(play', play) /\ UNCHANGED gains
    BY <1>2 DEF LeaveSong, SessionEnded, SameSong, GInv, IsPlay
  <2> QED
    BY <2>1, SameSongKeeps
<1>3. CASE SongEnds
  <2>1. CASE play' = [play EXCEPT !.track = None] /\ UNCHANGED gains
    BY <2>1, SameSongKeeps DEF SameSong, GInv, IsPlay
  <2> QED
    BY <1>3, <2>1, StepKeeps DEF SongEnds
<1>4. CASE PlaysOn
  BY <1>4, SameSongKeeps DEF PlaysOn, SameSong, GInv, IsPlay
<1>5. CASE ChangeMode \/ ChangeTagging \/ ChangeFilter \/ \E on \in BOOLEAN : ApplyMix(on)
  <2> USE DEF SameSong, GInv, IsPlay
  <2>1. CASE ChangeMode
    <3>1. SameSong([play EXCEPT !.mode = NextMode[@]], play)
      OBVIOUS
    <3> QED
      BY <2>1, <3>1, ArrangeKeeps DEF ChangeMode
  <2>2. CASE ChangeTagging
    <3>1. SameSong([play EXCEPT !.tagging = ~@, !.filter = @ /\ play.tagging], play)
      OBVIOUS
    <3> QED
      BY <2>2, <3>1, ArrangeKeeps DEF ChangeTagging
  <2>3. CASE ChangeFilter
    <3>1. SameSong([play EXCEPT !.filter = ~@, !.tagging = @ /\ play.filter], play)
      OBVIOUS
    <3> QED
      BY <2>3, <3>1, ArrangeKeeps DEF ChangeFilter
  <2>4. ASSUME NEW on \in BOOLEAN, ApplyMix(on) PROVE GInv'
    <3>1. SameSong([play EXCEPT !.mix = on, !.mode = IF on THEN "shuffle" ELSE @], play)
      OBVIOUS
    <3> QED
      BY <2>4, <3>1, ArrangeKeeps DEF ApplyMix
  <2> QED
    BY <1>5, <2>1, <2>2, <2>3, <2>4
<1>6. ASSUME NEW s, HandTag(s) PROVE GInv'
  <2>1. SameSong(play', play) /\ UNCHANGED gains
    BY <1>6 DEF HandTag, SameSong, GInv, IsPlay
  <2> QED
    BY <2>1, SameSongKeeps
<1>7. CASE Listen
  BY <1>2, <1>3, <1>4, <1>5, <1>7, OpenSongKeeps, StepKeeps DEF Listen, Skip
<1>8. CASE Autotag
  BY <1>5, <1>6, <1>8 DEF Autotag
<1> QED
  BY <1>1, <1>7, <1>8, LevelsKeep DEF TagsMove

\* Whatever is skipped to while a song is measured, its level is applied to it alone.
THEOREM LevelIsTheSongs == PageSpec => []GainIsTheSongs
<1>1. Init => GInv
  BY GInvInit DEF Init
<1>2. GInv => GainIsTheSongs
  BY DEF GInv
<1> QED
  BY <1>1, <1>2, GInvNext, PTL DEF PageSpec
----------------------------------------------------------------------------
(* The viewer *)

IsSwipe(sw) ==
  /\ DOMAIN sw = {"start", "gesture", "peeks", "home", "sliding"}
  /\ sw.start \in {"none", "down", "drag"}
  /\ sw.peeks \in BOOLEAN /\ sw.home \in BOOLEAN /\ sw.sliding \in BOOLEAN

\* A body out of its place has somebody to bring it home: the finger that drags it, or a slide.
BroughtHome(sw) == ~sw.home => sw.start = "drag" \/ sw.sliding

\* Neighbours on the screen have somebody to take them away: the swipe they were mounted for, the
\* slide or the bounce it ended in.
TakenAway(sw, ss) ==
  sw.peeks => \/ sw.start # "none" \/ sw.sliding
              \/ \E s \in ss : s.delta = 0 /\ s.token = sw.gesture

\* A slide that keeps new swipes away ends, or the file it paged to is being decrypted.
Ends(sw, ss, os) ==
  sw.sliding => (\E s \in ss : s.delta # 0) \/ (\E o \in os : o.settling)

Resting(sw, ss, os) == IsSwipe(sw) /\ BroughtHome(sw) /\ TakenAway(sw, ss) /\ Ends(sw, ss, os)

\* Only in the viewer does anything slide.
Viewing ==
  /\ DOMAIN viewer = {"shown", "at", "vault", "chrome"} /\ viewer.shown \in BOOLEAN
  /\ swipe.sliding => viewer.shown

VInv == Resting(swipe, slides, opens) /\ Viewing

LEMMA VInvInit == ViewerInit => VInv
BY DEF ViewerInit, VInv, Resting, IsSwipe, BroughtHome, TakenAway, Ends, Viewing

\* A body at home with no neighbours and no slide is at rest, whatever is under way.
LEMMA LandedRests ==
  ASSUME NEW sw, NEW ss, NEW os, IsSwipe(sw)
  PROVE  Resting(Landed(sw), ss, os) /\ ~Landed(sw).sliding
<1>1. /\ DOMAIN Landed(sw) = DOMAIN sw /\ Landed(sw).start = sw.start /\ Landed(sw).home
      /\ Landed(sw).home \in BOOLEAN
      /\ Landed(sw).peeks = FALSE /\ Landed(sw).sliding = FALSE
  BY DEF IsSwipe, Landed
<1> QED
  BY <1>1 DEF Resting, IsSwipe, BroughtHome, TakenAway, Ends

\* Taking the neighbours away leaves the rest of the swipe as it is.
LEMMA ShowRests ==
  ASSUME NEW sw, NEW ss, NEW os, Resting(sw, ss, os)
  PROVE  /\ Resting([sw EXCEPT !.peeks = FALSE], ss, os)
         /\ [sw EXCEPT !.peeks = FALSE].sliding = sw.sliding
<1> DEFINE bare == [sw EXCEPT !.peeks = FALSE]
<1>1. /\ DOMAIN bare = DOMAIN sw /\ bare.start = sw.start /\ bare.home = sw.home
      /\ bare.peeks = FALSE /\ bare.sliding = sw.sliding
  BY DEF Resting, IsSwipe
<1>2. /\ DOMAIN sw = {"start", "gesture", "peeks", "home", "sliding"}
      /\ sw.start \in {"none", "down", "drag"} /\ sw.home \in BOOLEAN /\ sw.sliding \in BOOLEAN
  BY DEF Resting, IsSwipe
<1> HIDE DEF bare
<1>3. IsSwipe(bare) /\ bare.sliding = sw.sliding
  BY <1>1, <1>2 DEF IsSwipe
<1>4. BroughtHome(bare) /\ TakenAway(bare, ss) /\ Ends(bare, ss, os)
  BY <1>1 DEF Resting, BroughtHome, TakenAway, Ends
<1> QED
  BY <1>3, <1>4 DEF Resting, bare

LEMMA OpenRests ==
  ASSUME NEW at, NEW settling \in BOOLEAN, NEW sw, Viewing, OpenPreview(at, settling, sw),
         Resting(sw, slides', opens'), sw.sliding => viewer.shown
  PROVE  VInv'
<1>1. CASE viewer.vault
  BY <1>1 DEF OpenPreview, VInv, Viewing
<1>2. CASE ~viewer.vault
  <2>1. swipe' = [sw EXCEPT !.peeks = FALSE]
    BY <1>2 DEF OpenPreview, Show
  <2>2. Resting(swipe', slides', opens')
    BY <2>1, ShowRests
  <2>3. Viewing'
    BY <1>2 DEF OpenPreview, Show, Viewing
  <2> QED
    BY <2>2, <2>3 DEF VInv
<1> QED
  BY <1>1, <1>2

LEMMA DecryptionRests ==
  ASSUME NEW o \in opens, NEW ok \in BOOLEAN, VInv, Decryption(o, ok)
  PROVE  VInv'
<1> DEFINE sw == IF o.settling THEN Landed(swipe) ELSE swipe
<1>1. Resting(sw, slides', opens') /\ (sw.sliding => viewer.shown)
  <2>1. CASE o.settling
    BY <2>1, LandedRests DEF VInv, Resting
  <2>2. CASE ~o.settling
    BY <2>2 DEF Decryption, VInv, Resting, Ends, Viewing
  <2> QED
    BY <2>1, <2>2
<1> HIDE DEF sw
<1>2. CASE ok
  <2>1. Show(o.at, sw)
    BY <1>2 DEF Decryption, sw
  <2>2. Resting(swipe', slides', opens')
    BY <1>1, <2>1, ShowRests DEF Show
  <2>3. Viewing'
    BY <1>1, <2>1 DEF Show, VInv, Viewing
  <2> QED
    BY <2>2, <2>3 DEF VInv
<1>3. CASE ~ok
  <2>1. swipe' = sw /\ UNCHANGED viewer
    BY <1>3 DEF Decryption, sw
  <2> QED
    BY <1>1, <2>1 DEF VInv, Viewing
<1> QED
  BY <1>2, <1>3

LEMMA SettleRests ==
  ASSUME NEW delta \in {-1, 0, 1}, NEW sw, VInv, Settle(delta, sw), opens' = opens,
         UNCHANGED viewer, viewer.shown, sw = [swipe EXCEPT !.start = "none"]
  PROVE  VInv'
<1>1. /\ sw.gesture = swipe.gesture /\ sw.sliding = swipe.sliding /\ sw.start = "none"
      /\ IsSwipe(sw)
  BY DEF VInv, Resting, IsSwipe
<1>2. [delta |-> delta, token |-> sw.gesture] \in slides'
  BY DEF Settle
<1>3. \A s \in slides : s \in slides'
  BY DEF Settle
<1>4. CASE delta = 0
  <2>1. swipe' = [sw EXCEPT !.home = TRUE]
    BY <1>4 DEF Settle
  <2>2. IsSwipe(swipe') /\ BroughtHome(swipe') /\ TakenAway(swipe', slides')
    BY <1>1, <1>2, <1>4, <2>1 DEF IsSwipe, BroughtHome, TakenAway
  <2>3. Ends(swipe', slides', opens') /\ Viewing'
    BY <1>1, <1>3, <2>1 DEF VInv, Resting, Ends, Viewing, IsSwipe
  <2> QED
    BY <2>2, <2>3 DEF VInv, Resting
<1>5. CASE delta # 0
  <2>1. swipe' = [sw EXCEPT !.home = FALSE, !.sliding = TRUE]
    BY <1>5 DEF Settle
  <2> QED
    BY <1>1, <1>2, <1>5, <2>1
    DEF VInv, Resting, IsSwipe, BroughtHome, TakenAway, Ends, Viewing
<1> QED
  BY <1>4, <1>5

LEMMA SwipesRest ==
  ASSUME VInv, UNCHANGED <<viewer, opens>>, viewer.shown,
         SwipeDown \/ \E delta \in {-1, 1}, held \in BOOLEAN : SwipeUp(delta, held)
  PROVE  VInv'
<1> USE DEF VInv, Resting, IsSwipe, BroughtHome, TakenAway, Ends, Viewing
<1>1. CASE UNCHANGED <<swipe, slides>>
  BY <1>1
<1>2. CASE /\ swipe.start = "down" /\ UNCHANGED slides
           /\ swipe' = [swipe EXCEPT !.start = "none", !.peeks = FALSE]
  BY <1>2
<1>3. CASE /\ swipe.start = "none" /\ UNCHANGED slides
           /\ swipe' = [swipe EXCEPT !.start = "down", !.gesture = @ + 1, !.peeks = MountPeeks]
  BY <1>3 DEF MountPeeks
<1>4. ASSUME NEW delta \in {-1, 0, 1}, Settle(delta, [swipe EXCEPT !.start = "none"]) PROVE VInv'
  BY <1>4, SettleRests
<1>5. CASE SwipeDown
  BY <1>1, <1>2, <1>3, <1>4, <1>5 DEF SwipeDown
<1>6. ASSUME NEW delta \in {-1, 1}, NEW held \in BOOLEAN, SwipeUp(delta, held) PROVE VInv'
  BY <1>1, <1>2, <1>4, <1>6 DEF SwipeUp
<1> QED
  BY <1>5, <1>6

LEMMA SlidesRest ==
  ASSUME NEW s \in slides, VInv, EndBounce(s) \/ EndSlide(s)
  PROVE  VInv'
<1> USE DEF VInv, Resting, IsSwipe, Viewing
<1>1. CASE EndBounce(s)
  BY <1>1 DEF EndBounce, BroughtHome, TakenAway, Ends
<1>2. CASE EndSlide(s) /\ ~swipe.sliding
  BY <1>2 DEF EndSlide, BroughtHome, TakenAway, Ends
<1>3. CASE EndSlide(s) /\ swipe.sliding /\ ~Neighbor(s.delta)
  <2>1. swipe' = Landed(swipe) /\ UNCHANGED viewer
    BY <1>3 DEF EndSlide
  <2>2. Resting(Landed(swipe), slides', opens') /\ ~Landed(swipe).sliding
    BY LandedRests
  <2> QED
    BY <2>1, <2>2
<1>4. CASE EndSlide(s) /\ swipe.sliding /\ Neighbor(s.delta)
  <2> DEFINE sw == IF viewer.vault THEN swipe ELSE Landed(swipe)
  <2>1. OpenPreview(viewer.at + s.delta, TRUE, sw)
    BY <1>4 DEF EndSlide
  <2>2. Resting(sw, slides', opens')
    <3>1. CASE viewer.vault
      <4>1. [at |-> viewer.at + s.delta, settling |-> TRUE] \in opens'
        BY <2>1, <3>1 DEF OpenPreview
      <4> QED
        BY <1>4, <3>1, <4>1 DEF BroughtHome, TakenAway, Ends
    <3>2. CASE ~viewer.vault
      BY <3>2, LandedRests
    <3> QED
      BY <3>1, <3>2
  <2>3. viewer.shown
    BY <1>4
  <2> HIDE DEF sw
  <2> QED
    BY <2>1, <2>2, <2>3, OpenRests
<1> QED
  BY <1>1, <1>2, <1>3, <1>4

LEMMA OpenedRests ==
  ASSUME NEW at, VInv, OpenPreview(at, FALSE, swipe), UNCHANGED slides
  PROVE  VInv'
<1>1. Resting(swipe, slides', opens')
  BY DEF VInv, Resting, Ends, OpenPreview, Show
<1> QED
  BY <1>1, OpenRests DEF VInv, Viewing

LEMMA VInvNext == VInv /\ [Next]_pageVars => VInv'
<1> SUFFICES ASSUME VInv, View \/ UNCHANGED viewerVars PROVE VInv'
  BY DEF Next, InBrowser, InEditor, InViewer, InDialog, WithSongs, InTransfer, pageVars
<1>1. CASE UNCHANGED <<viewer, swipe, slides, opens>>
  BY <1>1 DEF VInv, Viewing
<1>2. CASE Leave
  <2>1. swipe' = Landed(swipe) /\ UNCHANGED <<slides, opens>>
    BY <1>2 DEF Leave
  <2>2. Resting(swipe', slides', opens') /\ ~swipe'.sliding
    BY <2>1, LandedRests DEF VInv, Resting
  <2> QED
    BY <1>2, <2>2 DEF Leave, VInv, Viewing
<1>3. CASE ChromeTapTimer
  BY <1>3 DEF ChromeTapTimer, VInv, Viewing
<1>4. ASSUME NEW f \in Fingers, NEW sideways, NEW zoomed, PointerMove(f, sideways, zoomed)
      PROVE  VInv'
  BY <1>4 DEF PointerMove, VInv, Resting, IsSwipe, BroughtHome, TakenAway, Ends, Viewing
<1>5. ASSUME NEW f \in Fingers,
             PointerDown(f) \/ \E delta \in {-1, 1}, held, quick, intime \in BOOLEAN :
                                 PointerUp(f, delta, held, quick, intime)
      PROVE  VInv'
  BY <1>5, SwipesRest DEF PointerDown, PointerUp
<1>7. ASSUME NEW f \in Fingers, PointerCancel(f) PROVE VInv'
  <2>1. CASE swipe.start = "drag"
    BY <1>7, <2>1, SettleRests DEF PointerCancel
  <2>2. CASE swipe.start # "drag"
    BY <1>7, <2>2
    DEF PointerCancel, VInv, Resting, IsSwipe, BroughtHome, TakenAway, Ends, Viewing
  <2> QED
    BY <2>1, <2>2
<1>6. CASE View
  BY <1>2, <1>3, <1>4, <1>5, <1>6, <1>7, DecryptionRests, SlidesRest, OpenedRests
  DEF View, OpenFile, PreviewNavigate
<1> QED
  BY <1>1, <1>6 DEF viewerVars

\* No order of touches, pages, decryptions and slides ending leaves the viewer half way between two
\* files.
THEOREM ViewerRests == PageSpec => []ViewerComesToRest
<1>1. Init => VInv
  BY VInvInit DEF Init
<1>2. VInv => ViewerComesToRest
  BY DEF VInv, Resting, IsSwipe, BroughtHome, TakenAway, Ends, ViewerComesToRest
<1> QED
  BY <1>1, <1>2, VInvNext, PTL DEF PageSpec
\* What happens in a session by the user's hand, by others' or by a fault is counted.
Counted == UNCHANGED left \/ Gesture

LEMMA BrowserCounts == BrowserAsync \/ Browse \/ Select \/ Write \/ UseVault => Counted
<1> USE DEF Counted
<1>1. BrowserAsync => Counted
  BY DEF BrowserAsync, Answer, LandPrefetch, LandListing, LandFailed, LandClimb, SendItem, ServeItem,
         LandItem, FinishBatch, FinishUnlock, Decrypted
<1>2. Browse => Counted
  BY DEF Browse, Navigate, PrefetchListing, Fail, ChangedElsewhere
<1>3. Select \/ UseVault => Counted
  BY DEF Select, Click, SelectAll, Rearrange, UseVault, StartUnlock, Lock, AutoLock, VaultBlobUrl
<1>4. Write => Counted
  BY DEF Write, MoveEntriesToDir, CopyEntriesToDir, DeleteEntries, CreateFile, ShowRename, StartBatch
<1> QED
  BY <1>1, <1>2, <1>3, <1>4

LEMMA EditorCounts == Edit => Counted
BY DEF Counted, Edit, OpenEditor, AnswerLoad, LandLoad, FailLoad, Type, Save, ServeSave, LandSave,
       FailSave, EditorBack, SavedElsewhere

LEMMA ViewerCounts == View => Counted
BY DEF Counted, View, OpenFile, Decryption, PreviewNavigate, Leave, ChromeTapTimer, PointerDown,
       PointerMove, PointerUp, PointerCancel, EndBounce, EndSlide

LEMMA DialogCounts == Converse => Counted
BY DEF Counted, Converse, ShowFileSearch, QueueRun, TimerFires, SwitchScope, LandSearch, LandSize,
       LandRows, LandMeta, Dismiss, ShowDetails, ShowFolderPicker, PickRow, PickUp

LEMMA SongsCount ==
  ASSUME Listen \/ Autotag \/ LevelSongs \/ TagsMove \/ TagsNext
  PROVE  Counted
<1> USE DEF Counted
<1>1. TagsMove \/ TagsNext => Counted
  BY DEF TagsMove, TagsNext, TagsAsync, SyncTimer, ServePut, LandTags, SyncTags, LosePut,
         TaggedElsewhere
<1>2. Listen => Counted
  BY DEF Listen, OpenSong, Skip, LeaveSong, SongEnds, PlaysOn, ChangeMode, Arrange
<1>3. Autotag \/ LevelSongs => Counted
  BY DEF Autotag, HandTag, ApplyMix, ChangeTagging, ChangeFilter, Arrange, LevelSongs, WarmGain,
         LandGain, ToggleLevel
<1> QED
  BY <1>1, <1>2, <1>3

LEMMA TransferCounts == Transfers => Counted
<1> USE DEF Counted
<1>1. ASSUME NEW ok, MakeUploadDir(ok) PROVE Counted
  BY <1>1 DEF MakeUploadDir
<1>2. ASSUME NEW ok, SendFile(ok) \/ DeleteOriginal(ok) PROVE Counted
  BY <1>2 DEF SendFile, DeleteOriginal
<1> QED
  BY <1>1, <1>2 DEF Transfers, UploadFiles, ImportToVault, ScanForVault, ScanFails, DirsMade,
     FilesSent, OriginalsGone, WalkTo, AddedElsewhere, SealUp

LEMMA GesturesCount == left \in Nat /\ [Next]_pageVars => left' \in Nat /\ Counted
<1>1. [Next]_pageVars => Counted
  BY BrowserCounts, EditorCounts, ViewerCounts, DialogCounts, SongsCount, TransferCounts
  DEF Next, InBrowser, InEditor, InViewer, InDialog, WithSongs, InTransfer, pageVars, Counted
<1> QED
  BY <1>1 DEF Counted, Gesture

Counting == VInv /\ left \in Nat

\* In a viewer that was left nothing slides, and a file being decrypted apart only a gesture opens it.
LEMMA OpeningIsCounted ==
  ASSUME VInv, [Next]_pageVars, ~viewer.shown, viewer'.shown
  PROVE  Gesture \/ opens # {}
<1>1. View
  BY DEF Next, InBrowser, InEditor, InViewer, InDialog, WithSongs, InTransfer, pageVars, viewerVars
<1>2. ~ChromeTapTimer
  BY DEF ChromeTapTimer, VInv, Viewing
<1>3. ASSUME NEW s \in slides, EndBounce(s) \/ EndSlide(s) PROVE FALSE
  BY <1>3 DEF EndBounce, EndSlide, VInv, Viewing
<1>4. ASSUME NEW f, NEW delta, NEW held, NEW quick, NEW intime,
             PointerUp(f, delta, held, quick, intime) \/ PointerCancel(f)
      PROVE  FALSE
  BY <1>4 DEF PointerUp, PointerCancel
<1> QED
  BY <1>1, <1>2, <1>3, <1>4 DEF View, OpenFile, PreviewNavigate, Leave, PointerDown, PointerMove

\* A slide that was still settling when the viewer was left does not page back into it.
THEOREM StaysLeft == PageSpec => ViewerStaysLeft
<1>1. Init => Counting
  BY VInvInit, ErrandsAssumption DEF Init, Counting
<1>2. Counting /\ [Next]_pageVars => Counting'
  BY VInvNext, GesturesCount DEF Counting
<1>3. Counting /\ [Next]_pageVars => [OpenedByHand]_viewer
  BY OpeningIsCounted DEF OpenedByHand, Counting, Gesture
<1> QED
  BY <1>1, <1>2, <1>3, PTL DEF PageSpec, ViewerStaysLeft
----------------------------------------------------------------------------
(* Transfers *)

LEMMA SeqsArePaths == ASSUME NEW S, NEW s \in Seq(S) PROVE IsPath(s)
<1>1. s = [i \in 1 .. Len(s) |-> s[i]] /\ Len(s) \in Nat /\ \A i \in 1 .. Len(s) : s[i] \in ToSet(s)
  BY DEF ToSet
<1> QED
  BY <1>1, SeqDef DEF IsPath

LEMMA PathsGrow ==
  ASSUME NEW p, NEW n, IsPath(p)
  PROVE  IsPath(Append(p, n)) /\ Front(Append(p, n)) = p
<1> DEFINE S == ToSet(p) \cup {n}
<1>1. p \in Seq(S) /\ n \in S
  BY DEF IsPath
<1> HIDE DEF S
<1>2. Append(p, n) \in Seq(S) /\ Front(Append(p, n)) = p
  BY <1>1 DEF Front
<1> QED
  BY <1>2, SeqsArePaths

LEMMA PathsJoin ==
  ASSUME NEW p, NEW q, NEW n, IsPath(p), IsPath(q)
  PROVE  p \o Append(q, n) = Append(p \o q, n)
<1> DEFINE S == ToSet(p) \cup ToSet(q) \cup {n}
<1>1. p \in Seq(S) /\ q \in Seq(S) /\ n \in S
  BY DEF IsPath
<1> HIDE DEF S
<1> QED
  BY <1>1

LEMMA JoinIsPath == ASSUME NEW p, NEW q, IsPath(p), IsPath(q) PROVE IsPath(p \o q)
<1> DEFINE S == ToSet(p) \cup ToSet(q)
<1>1. p \in Seq(S) /\ q \in Seq(S)
  BY DEF IsPath
<1> HIDE DEF S
<1>2. p \o q \in Seq(S)
  BY <1>1
<1> QED
  BY <1>2, SeqsArePaths

\* The folders a job knows the place of are the one it brings its files to and the ones it made.
Placed(j) ==
  /\ DOMAIN j = {"kind", "dest", "stage", "roots", "dirRoots", "stack", "files", "dirs", "todo", "real",
                 "broken", "made"}
  /\ IsPath(j.dest)
  /\ j.real = [r \in DOMAIN j.real |-> j.real[r]]
  /\ \A r \in DOMAIN j.real : IsPath(j.real[r]) /\ j.dest \o j.real[r] \in {j.dest} \cup j.made

FInv ==
  /\ DOMAIN tree = {"dirs", "files"}
  /\ \A d \in tree.dirs : IsPath(d)
  /\ IsPath(shown)
  /\ job # None => Placed(job)

SamePlaces(j, k) ==
  DOMAIN k = DOMAIN j /\ k.dest = j.dest /\ k.real = j.real /\ k.made = j.made

LEMMA SamePlacesKeep == ASSUME NEW j, NEW k, Placed(j), SamePlaces(j, k) PROVE Placed(k)
BY DEF Placed, SamePlaces

LEMMA PlannedIsPlaced ==
  ASSUME NEW kind, NEW dest, NEW plan, IsPath(dest)
  PROVE  Placed(Plan(kind, dest, plan))
<1> DEFINE j == Plan(kind, dest, plan)
<1>1. /\ DOMAIN j = {"kind", "dest", "stage", "roots", "dirRoots", "stack", "files", "dirs", "todo",
                     "real", "broken", "made"}
      /\ j.dest = dest /\ j.real = [r \in {<< >>} |-> << >>]
  BY DEF Plan
<1> HIDE DEF j
<1>2. IsPath(<< >>) /\ dest \o << >> = dest
  BY DEF IsPath
<1> QED
  BY <1>1, <1>2 DEF Placed, j

LEMMA NextRootKeeps == ASSUME NEW j, Placed(j) PROVE Placed(NextRoot(j))
<1>1. SamePlaces(j, NextRoot(j))
  BY DEF SamePlaces, NextRoot, Placed
<1> QED
  BY <1>1, SamePlacesKeep

LEMMA FInvInit == TransferInit => FInv
BY TransferAssumption DEF TransferInit, FInv

LEMMA ImportKeeps == ASSUME NEW names, NEW move, FInv, ImportToVault(names, move) PROVE FInv'
<1> DEFINE kind == IF move THEN "move" ELSE "copy"
           plan == Plan(kind, Into, [dirs |-> << >>, files |-> << >>])
<1>1. Placed(plan)
  BY TransferAssumption, PlannedIsPlaced
<1>2. PICK roots : job' = NextRoot([plan EXCEPT !.stage = "scan", !.roots = names, !.dirRoots = roots])
  BY DEF ImportToVault
<1>3. UNCHANGED <<tree, shown>>
  BY DEF ImportToVault
<1> HIDE DEF plan
<1> DEFINE j == [plan EXCEPT !.stage = "scan", !.roots = names, !.dirRoots = roots]
<1>4. SamePlaces(plan, j)
  BY <1>1 DEF Placed, SamePlaces
<1> HIDE DEF j
<1>5. Placed(NextRoot(j))
  BY <1>1, <1>4, SamePlacesKeep, NextRootKeeps
<1> QED
  BY <1>2, <1>3, <1>5 DEF FInv, j

LEMMA ScanKeeps == FInv /\ ScanForVault => FInv'
<1> SUFFICES ASSUME FInv, ScanForVault PROVE FInv'
  OBVIOUS
<1>1. CASE job' = None
  BY <1>1 DEF FInv, ScanForVault
<1>2. CASE job' # None
  <2>1. PICK stack, dirs, files_ :
          job' = NextRoot([job EXCEPT !.stack = stack, !.dirs = dirs, !.files = files_])
    BY <1>2 DEF ScanForVault
  <2> DEFINE j == [job EXCEPT !.stack = stack, !.dirs = dirs, !.files = files_]
  <2>2. SamePlaces(job, j) /\ Placed(job)
    BY DEF Placed, SamePlaces, FInv, ScanForVault
  <2> HIDE DEF j
  <2>3. Placed(NextRoot(j))
    BY <2>2, SamePlacesKeep, NextRootKeeps
  <2> QED
    BY <2>1, <2>3 DEF FInv, ScanForVault, j
<1> QED
  BY <1>1, <1>2

Makes(j, k, at, dir, n) ==
  /\ DOMAIN k = DOMAIN j /\ k.dest = j.dest
  /\ k.made = j.made \cup {Append(j.dest \o at, n)}
  /\ k.real = [r \in DOMAIN j.real \cup {dir} |-> IF r = dir THEN Append(at, n) ELSE j.real[r]]

\* A folder made where its parent landed is one the job made and knows the place of.
LEMMA MadeIsPlaced ==
  ASSUME NEW j, NEW k, NEW at, NEW parent \in DOMAIN j.real, NEW dir, NEW n, Placed(j),
         at = j.real[parent], Makes(j, k, at, dir, n)
  PROVE  Placed(k) /\ IsPath(Append(j.dest \o at, n))
<1>1. PICK d : d = j.dest
  OBVIOUS
<1>2. IsPath(d) /\ IsPath(at)
  BY <1>1 DEF Placed
<1>3. d \o Append(at, n) = Append(d \o at, n)
  BY <1>2, PathsJoin
<1>4. IsPath(d \o at)
  BY <1>2, JoinIsPath
<1>5. IsPath(Append(d \o at, n)) /\ IsPath(Append(at, n))
  BY <1>2, <1>4, PathsGrow
<1> QED
  BY <1>1, <1>3, <1>5 DEF Placed, Makes

LEMMA MakeKeeps == ASSUME NEW ok \in BOOLEAN, FInv, MakeUploadDir(ok) PROVE FInv'
<1> DEFINE dir    == Head(job.todo)
           parent == Front(dir)
           rest   == [job EXCEPT !.todo = Tail(@)]
<1>1. Placed(job) /\ job # None
  BY DEF FInv, MakeUploadDir
<1>2. SamePlaces(job, rest)
  BY <1>1 DEF Placed, SamePlaces
<1>3. CASE job' = rest /\ UNCHANGED tree
  BY <1>1, <1>2, <1>3, SamePlacesKeep DEF FInv, MakeUploadDir
<1>4. CASE parent \in DOMAIN job.real /\ ok
  <2>1. PICK n : /\ job' = [rest EXCEPT
                              !.real = [r \in DOMAIN @ \cup {dir} |->
                                          IF r = dir THEN Append(@[parent], n) ELSE @[r]],
                              !.made = @ \cup {Append(job.dest \o job.real[parent], n)}]
                 /\ tree' = [tree EXCEPT !.dirs = @ \cup {Append(job.dest \o job.real[parent], n)}]
    BY <1>4, ZenonT(40) DEF MakeUploadDir
  <2> DEFINE at  == job.real[parent]
             new == Append(job.dest \o at, n)
             k   == job'
  <2> HIDE DEF dir, parent
  <2>2. Makes(job, k, at, dir, n)
    BY <1>1, <2>1 DEF Placed, Makes
  <2> HIDE DEF k, at, rest
  <2>3. Placed(k) /\ IsPath(new)
    <3>1. Placed(job) /\ at = job.real[parent] /\ parent \in DOMAIN job.real
      BY <1>1, <1>4 DEF at
    <3> QED
      BY <2>2, <3>1, MadeIsPlaced
  <2>4. \A d \in tree'.dirs : IsPath(d)
    BY <2>1, <2>3 DEF FInv, at
  <2>5. DOMAIN tree' = {"dirs", "files"} /\ IsPath(shown)' /\ job' = k
    BY <2>1 DEF FInv, MakeUploadDir, k
  <2> QED
    BY <2>3, <2>4, <2>5 DEF FInv, k
<1> QED
  BY <1>3, <1>4 DEF MakeUploadDir

LEMMA TransferKeeps == ASSUME FInv, Transfers PROVE FInv'
<1>1. ASSUME NEW plan, UploadFiles(plan) PROVE FInv'
  BY <1>1, PlannedIsPlaced DEF UploadFiles, FInv
<1>2. ASSUME NEW ok, SendFile(ok) PROVE FInv'
  <2>1. SamePlaces(job, job') /\ Placed(job)
    BY <1>2 DEF FInv, SendFile, Placed, SamePlaces
  <2>2. Placed(job')
    BY <2>1, SamePlacesKeep
  <2>3. DOMAIN tree' = DOMAIN tree /\ tree'.dirs = tree.dirs /\ UNCHANGED shown
    BY <1>2 DEF FInv, SendFile
  <2> QED
    BY <2>2, <2>3 DEF FInv
<1>3. ASSUME NEW ok, DeleteOriginal(ok) PROVE FInv'
  <2>1. SamePlaces(job, job') /\ Placed(job)
    BY <1>3 DEF FInv, DeleteOriginal, Placed, SamePlaces
  <2>2. Placed(job')
    BY <2>1, SamePlacesKeep
  <2>3. DOMAIN tree' = {"dirs", "files"} /\ tree'.dirs \subseteq tree.dirs /\ UNCHANGED shown
    BY <1>3 DEF FInv, DeleteOriginal
  <2> QED
    BY <2>2, <2>3 DEF FInv
<1>4. CASE ScanFails \/ OriginalsGone
  BY <1>4 DEF ScanFails, OriginalsGone, FInv
<1>5. CASE DirsMade \/ FilesSent
  <2>1. job' = None \/ SamePlaces(job, job')
    BY <1>5 DEF DirsMade, FilesSent, FInv, Placed, SamePlaces
  <2>2. job' # None => Placed(job')
    BY <1>5, <2>1, SamePlacesKeep DEF FInv, DirsMade, FilesSent
  <2> QED
    BY <1>5, <2>2 DEF FInv, DirsMade, FilesSent
<1>6. ASSUME NEW d \in tree.dirs, WalkTo(d) PROVE FInv'
  BY <1>6 DEF WalkTo, FInv
<1>7. ASSUME NEW p, AddedElsewhere(p) PROVE FInv'
  BY <1>7 DEF AddedElsewhere, FInv
<1>8. CASE SealUp
  BY <1>8 DEF SealUp, FInv
<1> QED
  BY <1>1, <1>2, <1>3, <1>4, <1>5, <1>6, <1>7, <1>8, ImportKeeps, ScanKeeps, MakeKeeps DEF Transfers

LEMMA FInvNext == FInv /\ [Next]_pageVars => FInv'
<1>1. [Next]_pageVars => Transfers \/ UNCHANGED transferVars
  BY DEF Next, InBrowser, InEditor, InViewer, InDialog, WithSongs, InTransfer, pageVars
<1> QED
  BY <1>1, TransferKeeps DEF transferVars, FInv

\* Whatever was there when its folders were made, a file of an upload or an import lands in the folder
\* it was brought to or in one the transfer made.
THEOREM FoldersStayApart == PageSpec => FoldersAreNotMerged
<1> DEFINE Apart == \A p \in tree'.files \ tree.files :
                      job # None /\ job' # job => Front(p) = job.dest \/ Front(p) \in job.made
<1>1. ASSUME FInv, Next PROVE Apart
  <2> SUFFICES ASSUME NEW p \in tree'.files \ tree.files, job # None, job' # job
               PROVE  Front(p) = job.dest \/ Front(p) \in job.made
    OBVIOUS
  <2>1. Transfers
    BY <1>1 DEF Next, InBrowser, InEditor, InViewer, InDialog, WithSongs, InTransfer, transferVars
  <2>2. ASSUME NEW ok, SendFile(ok) PROVE Front(p) = job.dest \/ Front(p) \in job.made
    <3>1. PICK r, n : /\ r \in DOMAIN job.real
                      /\ p = Append(job.dest \o job.real[r], n)
      <4> DEFINE f   == Head(job.files)
                 dir == job.dest \o job.real[f.rel]
                 new == Append(dir, FreeName(dir, Last(f.path)))
      <4>1. CASE f.rel \in DOMAIN job.real /\ tree' = [tree EXCEPT !.files = @ \cup {new}]
        <5> HIDE DEF new
        <5>1. p = new
          BY <1>1, <4>1 DEF FInv
        <5> QED
          BY <4>1, <5>1 DEF new
      <4>2. CASE UNCHANGED tree
        BY <4>2
      <4> HIDE DEF f
      <4> QED
        BY <2>2, <4>1, <4>2 DEF SendFile, f
    <3>2. /\ IsPath(job.dest) /\ IsPath(job.real[r])
          /\ job.dest \o job.real[r] \in {job.dest} \cup job.made
      BY <1>1, <3>1 DEF FInv, Placed
    <3>3. Front(p) = job.dest \o job.real[r]
      BY <3>1, <3>2, JoinIsPath, PathsGrow
    <3> QED
      BY <3>2, <3>3
  <2>3. ASSUME NEW ok, MakeUploadDir(ok) PROVE FALSE
    <3>1. tree'.files = tree.files
      BY <1>1, <2>3 DEF MakeUploadDir, FInv
    <3> QED
      BY <3>1
  <2>4. ASSUME NEW ok, DeleteOriginal(ok) PROVE FALSE
    <3>1. tree'.files \subseteq tree.files
      BY <1>1, <2>4 DEF DeleteOriginal, FInv
    <3> QED
      BY <3>1
  <2> QED
    BY <2>1, <2>2, <2>3, <2>4 DEF Transfers, UploadFiles, ImportToVault, ScanForVault, ScanFails,
       DirsMade, FilesSent, OriginalsGone, WalkTo, AddedElsewhere, SealUp
<1>2. FInv /\ [Next]_pageVars => [Apart]_<<tree, job>>
  BY <1>1 DEF pageVars, transferVars
<1>3. Init => FInv
  BY FInvInit DEF Init
<1> HIDE DEF Apart
<1>4. PageSpec => [][Apart]_<<tree, job>>
  BY <1>2, <1>3, FInvNext, PTL DEF PageSpec
<1> QED
  BY <1>4, PTL DEF FoldersAreNotMerged, Apart
----------------------------------------------------------------------------
(* Verdicts *)

Timed == IsPlay(play) /\ play.pos \in {"start", "past"}

LEMMA TagsSet == ASSUME NEW new, SetTags(new) PROVE tags' = new
BY DEF SetTags, SaveTags, tagsVars

LEMMA LoadedIsTimed ==
  ASSUME NEW p, NEW s, NEW paging \in BOOLEAN, IsPlay(p)
  PROVE  IsPlay(Loaded(p, s, paging)) /\ Loaded(p, s, paging).pos = "start"
BY DEF IsPlay, Loaded

LEMMA StepIsTimed ==
  ASSUME NEW way, NEW fromHead, NEW t, NEW verdict, Timed, Step(way, fromHead, t, verdict)
  PROVE  Timed' /\ tags' = verdict /\ ghost'.went = way
<1>1. tags' = verdict /\ ghost'.went = way
  BY TagsSet DEF Step
<1>2. PICK s : \/ play' = Loaded(play, s, TRUE)
               \/ play' = [Loaded(play, s, TRUE) EXCEPT !.head = s]
  BY DEF Step
<1>3. PICK song : song = Loaded(play, s, TRUE)
  OBVIOUS
<1>4. IsPlay(song) /\ song.pos = "start"
  BY <1>3, LoadedIsTimed DEF Timed
<1>5. play' = song \/ play' = [song EXCEPT !.head = s]
  BY <1>2, <1>3
<1>6. IsPlay(play') /\ play'.pos = "start"
  BY <1>4, <1>5 DEF IsPlay
<1> QED
  BY <1>1, <1>6 DEF Timed

LEMMA OpenIsTimed == ASSUME NEW s, Timed, OpenSong(s) PROVE Timed'
<1> DEFINE there == [play EXCEPT !.where = "viewer"]
<1>1. IsPlay(there) /\ there.pos = play.pos
  BY DEF Timed, IsPlay
<1>2. IsPlay(SessionEnded(there))
  BY <1>1 DEF IsPlay, SessionEnded
<1> HIDE DEF there
<1>3. play' \in {there, Loaded(there, s, FALSE), Loaded(SessionEnded(there), s, FALSE)}
  BY DEF OpenSong, there
<1> QED
  BY <1>1, <1>2, <1>3, LoadedIsTimed DEF Timed

LEMMA LeaveIsTimed == ASSUME NEW playing, Timed, LeaveSong(playing) PROVE Timed'
BY DEF LeaveSong, SessionEnded, Timed, IsPlay

\* The song at the player is still to be judged, and then its track is what a verdict would be of, or
\* no verdict is due of it any more.
Judging ==
  /\ IsPlay(play) /\ play.where \in {"none", "viewer", "bar"}
  /\ DOMAIN fate = {"earned", "unsure", "open"} /\ fate.open \in BOOLEAN
  /\ fate.open => play.track = play.song /\ ~play.manual /\ play.where # "none"
  /\ ~fate.open => play.track = None \/ play.manual
  /\ VerdictsAreEarned

\* What settleTagging is told of each way a song is left.
Settles(how, finished, keepOnly) ==
  \/ how = "end" /\ finished = TRUE /\ keepOnly = FALSE
  \/ how = "on" /\ finished = FALSE /\ keepOnly = FALSE
  \/ how \in {"back", "away"} /\ finished = FALSE /\ keepOnly = TRUE

LEMMA JudgementOf ==
  ASSUME NEW how, NEW s
  PROVE  LET own   == s = play.song /\ fate.open /\ play.tagging
             heard == own /\ (how = "end" \/ play.pos = "past")
             short == own /\ ~heard /\ how = "on"
             lost  == short /\ s = ghost.newest
         IN  /\ s \in Judgement(how).earned <=> (s \in fate.earned \/ heard) /\ ~lost
             /\ s \in Judgement(how).unsure <=>
                  (s \in fate.unsure /\ ~heard /\ ~lost) \/ (short /\ play.head # ghost.newest)
BY DEF Judgement

\* The verdict settled is the one that ought to be, however the song was left.
LEMMA VerdictFits ==
  ASSUME Judging, NEW how, NEW finished, NEW keepOnly, Settles(how, finished, keepOnly),
         tags' = Settled(finished, keepOnly),
         fate'.earned = Judgement(how).earned, fate'.unsure = Judgement(how).unsure
  PROVE  VerdictsAreEarned'
<1> SUFFICES ASSUME NEW s \in Song, s \notin Judgement(how).unsure
             PROVE  s \in Settled(finished, keepOnly) <=> s \in Judgement(how).earned
  BY DEF VerdictsAreEarned, Song
<1> DEFINE own == s = play.song /\ fate.open /\ play.tagging
<1>1. s # None
  BY PlayerAssumption
<1>2. s \notin fate.unsure => (s \in tags <=> s \in fate.earned)
  BY DEF Judging, VerdictsAreEarned
<1>3. CASE own
  <2>1. play.track = s /\ ~play.manual /\ play.tagging
    BY <1>3 DEF Judging
  <2>2. CASE Heard(finished)
    <3>1. how = "end" \/ play.pos = "past"
      BY <2>2 DEF Heard, Settles
    <3>2. s \in Judgement(how).earned
      BY <1>3, <3>1, JudgementOf
    <3>3. s \in Settled(finished, keepOnly)
      BY <1>1, <2>1, <2>2 DEF Settled, Due
    <3> QED
      BY <3>2, <3>3
  <2>3. CASE ~Heard(finished) /\ how = "on"
    <3>1. play.head = ghost.newest /\ (s \in fate.unsure => s = ghost.newest)
      BY <1>3, <2>3, JudgementOf DEF Heard
    <3>2. s \in Judgement(how).earned <=> s \in fate.earned /\ s # ghost.newest
      BY <1>3, <2>3, JudgementOf DEF Heard, Settles
    <3>3. s \in Settled(finished, keepOnly) <=> s \in tags /\ s # ghost.newest
      BY <1>1, <2>1, <2>3, <3>1 DEF Settled, Due, Settles
    <3> QED
      BY <1>2, <3>1, <3>2, <3>3
  <2>4. CASE ~Heard(finished) /\ how # "on"
    <3>1. s \notin fate.unsure /\ (s \in Judgement(how).earned <=> s \in fate.earned)
      BY <1>3, <2>4, JudgementOf DEF Heard, Settles
    <3>2. Settled(finished, keepOnly) = tags
      BY <2>4 DEF Settled, Due, Settles, Heard
    <3> QED
      BY <1>2, <3>1, <3>2
  <2> QED
    BY <2>2, <2>3, <2>4
<1>4. CASE ~own
  <2>1. s \notin fate.unsure /\ (s \in Judgement(how).earned <=> s \in fate.earned)
    BY <1>4, JudgementOf
  <2>2. s \in Settled(finished, keepOnly) <=> s \in tags
    BY <1>1, <1>4 DEF Settled, Due, Judging
  <2> QED
    BY <1>2, <2>1, <2>2
<1> QED
  BY <1>3, <1>4

\* What loads no song and settles nothing.
LEMMA SameJudged ==
  ASSUME Judging, UNCHANGED <<tags, fate>>, IsPlay(play'),
         play'.track = play.track, play'.song = play.song, play'.manual = play.manual,
         play'.where \in {play.where, "viewer", "bar"}
  PROVE  Judging'
BY DEF Judging, VerdictsAreEarned, Song

\* A song loaded is still to be judged.
LEMMA LoadedIsJudged ==
  ASSUME NEW p, NEW s, NEW paging \in BOOLEAN, IsPlay(p),
         p.where \in {"viewer", "bar"}, VerdictsAreEarned',
         play' = Loaded(p, s, paging) \/ play' = [Loaded(p, s, paging) EXCEPT !.head = s],
         NEW how, fate' = [Judgement(how) EXCEPT !.open = TRUE]
  PROVE  Judging'
<1>1. PICK q : q = Loaded(p, s, paging)
  OBVIOUS
<1>2. IsPlay(q) /\ q.track = s /\ q.song = s /\ q.manual = FALSE /\ q.where = p.where
  BY <1>1 DEF Loaded, IsPlay
<1>3. play' = q \/ play' = [q EXCEPT !.head = s]
  BY <1>1
<1>4. /\ IsPlay(play') /\ play'.track = s /\ play'.song = s /\ play'.manual = FALSE
      /\ play'.where = p.where
  BY <1>2, <1>3 DEF IsPlay
<1>5. DOMAIN fate' = {"earned", "unsure", "open"} /\ fate'.open = TRUE
  BY DEF Judgement
<1> QED
  BY <1>4, <1>5 DEF Judging

LEMMA OpenIsJudged == ASSUME NEW s, Judging, OpenSong(s) PROVE Judging'
<1>1. PICK there : there = [play EXCEPT !.where = "viewer"]
  OBVIOUS
<1>2. /\ IsPlay(there) /\ there.track = play.track /\ there.song = play.song
      /\ there.manual = play.manual /\ there.where = "viewer"
  BY <1>1 DEF Judging, IsPlay
<1>3. CASE play' = there /\ UNCHANGED <<tags, fate>>
  BY <1>2, <1>3, SameJudged
<1>4. CASE /\ play' = Loaded(IF play.where = "bar" THEN SessionEnded(there) ELSE there, s, FALSE)
           /\ fate' = [Judgement("away") EXCEPT !.open = TRUE]
           /\ SetTags(IF play.where = "bar" THEN Settled(FALSE, TRUE) ELSE tags)
           /\ play.where # "viewer"
  <2>1. fate'.earned = Judgement("away").earned /\ fate'.unsure = Judgement("away").unsure
    BY <1>4 DEF Judgement
  <2>2. tags' = Settled(FALSE, TRUE)
    <3>1. CASE play.where = "bar"
      BY <1>4, <3>1, TagsSet
    <3>2. CASE play.where # "bar"
      <4>1. tags' = tags
        BY <1>4, <3>2, TagsSet
      <4> QED
        BY <1>4, <3>2, <4>1 DEF Settled, Due, Judging
    <3> QED
      BY <3>1, <3>2
  <2>3. VerdictsAreEarned'
    BY <2>1, <2>2, VerdictFits DEF Settles
  <2>4. PICK p : p = IF play.where = "bar" THEN SessionEnded(there) ELSE there
    OBVIOUS
  <2>5. IsPlay(p) /\ p.where = "viewer"
    BY <1>2, <2>4 DEF SessionEnded, IsPlay
  <2> QED
    BY <1>4, <2>3, <2>4, <2>5, LoadedIsJudged
<1> QED
  BY <1>1, <1>3, <1>4 DEF OpenSong, tagsVars

LEMMA StepIsJudged ==
  ASSUME NEW way, NEW fromHead, NEW t, NEW finished, NEW keepOnly, Judging,
         Settles(way, finished, keepOnly), play.where # "none",
         Step(way, fromHead, t, Settled(finished, keepOnly))
  PROVE  Judging'
<1>1. tags' = Settled(finished, keepOnly)
  BY TagsSet DEF Step
<1>2. fate' = [Judgement(way) EXCEPT !.open = TRUE]
  BY DEF Step
<1>3. fate'.earned = Judgement(way).earned /\ fate'.unsure = Judgement(way).unsure
  BY <1>2 DEF Judgement
<1>4. VerdictsAreEarned'
  BY <1>1, <1>3, VerdictFits
<1>5. PICK s : \/ play' = Loaded(play, s, TRUE)
               \/ play' = [Loaded(play, s, TRUE) EXCEPT !.head = s]
  BY DEF Step
<1> QED
  BY <1>2, <1>4, <1>5, LoadedIsJudged DEF Judging

LEMMA EndIsJudged == ASSUME Judging, SongEnds PROVE Judging'
<1>1. Settles("end", TRUE, FALSE)
  BY DEF Settles
<1>2. CASE \E fromHead : Step("end", fromHead, Settled(TRUE, FALSE), Settled(TRUE, FALSE))
  BY <1>1, <1>2, StepIsJudged DEF SongEnds
<1>3. CASE /\ play' = [play EXCEPT !.track = None] /\ SetTags(Settled(TRUE, FALSE))
           /\ fate' = Judgement("end")
  <2>1. VerdictsAreEarned'
    BY <1>1, <1>3, TagsSet, VerdictFits
  <2>2. DOMAIN fate' = {"earned", "unsure", "open"} /\ fate'.open = FALSE
    BY <1>3 DEF Judgement
  <2>3. IsPlay(play') /\ play'.track = None /\ play'.where = play.where
    BY <1>3 DEF Judging, IsPlay
  <2> QED
    BY <2>1, <2>2, <2>3 DEF Judging
<1> QED
  BY <1>2, <1>3 DEF SongEnds

LEMMA LeaveIsJudged == ASSUME NEW playing \in BOOLEAN, Judging, LeaveSong(playing) PROVE Judging'
<1>1. CASE playing
  <2>1. play' = [play EXCEPT !.where = "bar"] /\ UNCHANGED <<tags, fate>>
    BY <1>1 DEF LeaveSong, tagsVars
  <2>2. /\ IsPlay(play') /\ play'.track = play.track /\ play'.song = play.song
        /\ play'.manual = play.manual /\ play'.where = "bar"
    BY <2>1 DEF Judging, IsPlay
  <2> QED
    BY <2>1, <2>2, SameJudged
<1>2. CASE ~playing
  <2>1. /\ play' = [SessionEnded(play) EXCEPT !.where = "none", !.track = None]
        /\ SetTags(Settled(FALSE, TRUE)) /\ fate' = Judgement("away")
    BY <1>2 DEF LeaveSong
  <2>2. VerdictsAreEarned'
    BY <2>1, TagsSet, VerdictFits DEF Settles
  <2>3. DOMAIN fate' = {"earned", "unsure", "open"} /\ fate'.open = FALSE
    BY <2>1 DEF Judgement
  <2>4. IsPlay(play') /\ play'.track = None /\ play'.where = "none"
    BY <2>1 DEF SessionEnded, Judging, IsPlay
  <2> QED
    BY <2>2, <2>3, <2>4 DEF Judging
<1> QED
  BY <1>1, <1>2

\* What the user sets by hand ought to be as it was set, and no verdict is due of it.
LEMMA HandIsJudged == ASSUME NEW s, Judging, HandTag(s) PROVE Judging'
<1>1. tags' = IF s \in tags THEN tags \ {s} ELSE tags \cup {s}
  BY DEF HandTag, SetFileTag, SaveTags
<1>2. fate' = [earned |-> IF s \in tags' THEN fate.earned \cup {s} ELSE fate.earned \ {s},
               unsure |-> fate.unsure \ {s},
               open   |-> fate.open /\ ~(play.tagging /\ play.song = s)]
  BY DEF HandTag
<1>3. /\ DOMAIN fate' = {"earned", "unsure", "open"}
      /\ fate'.earned = IF s \in tags' THEN fate.earned \cup {s} ELSE fate.earned \ {s}
      /\ fate'.unsure = fate.unsure \ {s}
      /\ fate'.open = (fate.open /\ ~(play.tagging /\ play.song = s))
  BY <1>2
<1>4. VerdictsAreEarned'
  BY <1>1, <1>3 DEF Judging, VerdictsAreEarned, Song
<1>5. /\ IsPlay(play') /\ play'.track = play.track /\ play'.song = play.song
      /\ play'.where = play.where
      /\ play'.manual = IF play.tagging /\ play.track = s THEN TRUE ELSE play.manual
  BY DEF HandTag, Judging, IsPlay
<1> QED
  BY <1>3, <1>4, <1>5 DEF Judging

LEMMA OthersAreJudged ==
  ASSUME Judging,
         PlaysOn \/ ChangeMode \/ ChangeTagging \/ ChangeFilter \/ LevelSongs
           \/ \E on \in BOOLEAN : ApplyMix(on)
  PROVE  Judging'
<1> DEFINE Like(p) == /\ IsPlay(p) /\ p.track = play.track /\ p.song = play.song
                      /\ p.manual = play.manual /\ p.where = play.where
<1> SUFFICES Like(play') /\ UNCHANGED <<tags, fate>>
  BY SameJudged
<1>1. Like(play)
  BY DEF Judging
<1>2. UNCHANGED <<tags, fate>>
  BY DEF PlaysOn, ChangeMode, ChangeTagging, ChangeFilter, ApplyMix, Arrange, LevelSongs, WarmGain,
         LandGain, ToggleLevel, tagsVars
<1>3. CASE PlaysOn
  BY <1>2, <1>3 DEF PlaysOn, Judging, IsPlay
<1>4. CASE ChangeMode \/ ChangeTagging \/ ChangeFilter \/ \E on \in BOOLEAN : ApplyMix(on)
  <2>1. \/ play' = [play EXCEPT !.mode = NextMode[@]]
        \/ play' = [play EXCEPT !.tagging = ~@, !.filter = @ /\ play.tagging]
        \/ play' = [play EXCEPT !.filter = ~@, !.tagging = @ /\ play.filter]
        \/ \E on \in BOOLEAN : play' = [play EXCEPT !.mix = on, !.mode = IF on THEN "shuffle" ELSE @]
    BY <1>4 DEF ChangeMode, ChangeTagging, ChangeFilter, ApplyMix, Arrange
  <2> QED
    BY <1>2, <2>1 DEF Judging, IsPlay
<1>5. CASE LevelSongs
  <2>1. \/ play' = play
        \/ \E g : play' = [play EXCEPT !.gain = g]
        \/ \E g : play' = [play EXCEPT !.token = @ + 1, !.gain = g]
    BY <1>5 DEF LevelSongs, WarmGain, LandGain, ToggleLevel
  <2>2. ASSUME NEW g, play' = [play EXCEPT !.gain = g] PROVE Like(play')
    BY <2>2 DEF Judging, IsPlay
  <2>3. ASSUME NEW g, play' = [play EXCEPT !.token = @ + 1, !.gain = g] PROVE Like(play')
    BY <2>3 DEF Judging, IsPlay
  <2>4. Like(play')
    BY <1>1, <2>1, <2>2, <2>3
  <2> QED
    BY <1>2, <2>4
<1> QED
  BY <1>2, <1>3, <1>4, <1>5

LEMMA GivenAreJudged == ASSUME Judging, UNCHANGED play, TagsGiven PROVE Judging'
<1>1. /\ DOMAIN fate' = {"earned", "unsure", "open"} /\ fate'.open = fate.open
      /\ VerdictsAreEarned'
  <2>1. CASE tags' = tags
    BY <2>1 DEF TagsGiven, Judging, VerdictsAreEarned, Song
  <2>2. CASE tags' # tags
    <3>1. fate' = [fate EXCEPT !.earned = tags', !.unsure = {}]
      BY <2>2 DEF TagsGiven
    <3>2. /\ DOMAIN fate' = {"earned", "unsure", "open"} /\ fate'.open = fate.open
          /\ fate'.earned = tags'
      BY <3>1 DEF Judging
    <3> QED
      BY <3>2 DEF VerdictsAreEarned
  <2> QED
    BY <2>1, <2>2
<1> QED
  BY <1>1 DEF Judging

LEMMA JudgingNext == Judging /\ [Next]_pageVars => Judging'
<1> SUFFICES ASSUME Judging, [Next]_pageVars PROVE Judging'
  OBVIOUS
<1>1. \/ Listen \/ Autotag \/ LevelSongs
      \/ TagsGiven /\ UNCHANGED play
      \/ UNCHANGED <<play, fate, tags>>
  BY DEF Next, InBrowser, InEditor, InViewer, InDialog, WithSongs, InTransfer, pageVars, songVars,
         playerVars, tagsVars, TagsMove
<1>2. CASE UNCHANGED <<play, fate, tags>>
  BY <1>2, SameJudged DEF Judging
<1>3. ASSUME NEW way \in {"on", "back"}, Skip(way) PROVE Judging'
  <2>1. PICK keepOnly : keepOnly = (way = "back")
    OBVIOUS
  <2>2. Settles(way, FALSE, keepOnly)
    BY <2>1 DEF Settles
  <2>3. PICK fromHead : Step(way, fromHead, tags, Settled(FALSE, keepOnly))
    BY <1>3, <2>1 DEF Skip
  <2> QED
    BY <1>3, <2>2, <2>3, StepIsJudged DEF Skip
<1>4. CASE Listen
  BY <1>3, <1>4, OpenIsJudged, LeaveIsJudged, EndIsJudged, OthersAreJudged DEF Listen
<1>5. CASE Autotag
  BY <1>5, HandIsJudged, OthersAreJudged DEF Autotag
<1> QED
  BY <1>1, <1>2, <1>4, <1>5, OthersAreJudged, GivenAreJudged

\* However songs come to be heard, skipped, put in the bar, taken up again and tagged by hand, a song
\* has the tag if and only if it was last heard out, or given it by hand, and not skipped as the newest
\* of the run since: settleTagging comes to the verdict that ought to be, once for each song played.
THEOREM VerdictsEarned == PageSpec => []VerdictsAreEarned
<1>1. Init => Judging
  <2> SUFFICES ASSUME PlayerInit PROVE Judging
    BY DEF Init
  <2>1. IsPlay(play) /\ play.where = "none" /\ play.track = None
    BY DEF PlayerInit, IsPlay
  <2>2. fate = [earned |-> tags, unsure |-> {}, open |-> FALSE]
    BY DEF PlayerInit
  <2> QED
    BY <2>1, <2>2 DEF Judging, VerdictsAreEarned
<1>2. Judging => VerdictsAreEarned
  BY DEF Judging
<1> QED
  BY <1>1, <1>2, JudgingNext, PTL DEF PageSpec
----------------------------------------------------------------------------
(* Dialogs *)

\* Paths by their last name and their prefixes.
LEMMA LastJoins ==
  ASSUME NEW q, IsPath(q), q # << >> PROVE Append(Front(q), q[Len(q)]) = q
<1> DEFINE S == ToSet(q)
<1>1. q \in Seq(S)
  BY DEF IsPath
<1> HIDE DEF S
<1> QED
  BY <1>1 DEF Front

LEMMA WholePrefix == ASSUME NEW q, IsPath(q) PROVE Len(q) \in 0 .. Len(q) /\ SubSeq(q, 1, Len(q)) = q
<1> DEFINE S == ToSet(q)
<1>1. q \in Seq(S)
  BY DEF IsPath
<1> HIDE DEF S
<1> QED
  BY <1>1

LEMMA PrefixesGrow ==
  ASSUME NEW p, NEW n, IsPath(p), NEW i \in 0 .. Len(Append(p, n))
  PROVE  \/ SubSeq(Append(p, n), 1, i) = Append(p, n)
         \/ i \in 0 .. Len(p) /\ SubSeq(Append(p, n), 1, i) = SubSeq(p, 1, i)
<1> DEFINE S == ToSet(p) \cup {n}
<1>1. p \in Seq(S) /\ n \in S
  BY DEF IsPath
<1> HIDE DEF S
<1> QED
  BY <1>1

LEMMA FrontShrinks ==
  ASSUME NEW p, IsPath(p), p # << >>
  PROVE  /\ IsPath(Front(p))
         /\ \A i \in 0 .. Len(Front(p)) :
              i \in 0 .. Len(p) /\ SubSeq(Front(p), 1, i) = SubSeq(p, 1, i)
<1> DEFINE S == ToSet(p)
<1>1. p \in Seq(S)
  BY DEF IsPath
<1> HIDE DEF S
<1>2. Front(p) \in Seq(S)
  BY <1>1 DEF Front
<1>3. \A i \in 0 .. Len(Front(p)) :
        i \in 0 .. Len(p) /\ SubSeq(Front(p), 1, i) = SubSeq(p, 1, i)
  BY <1>1 DEF Front
<1> QED
  BY <1>2, <1>3, SeqsArePaths

\* What a dialog of each kind keeps.  Searches and pickers have been opened by a gesture.
DialogForm ==
  \/ dialog = Closed
  \/ /\ dialog.kind = "search" /\ dialog.timer \in BOOLEAN /\ dialog.id > left + 1
     /\ DOMAIN dialog = {"kind", "id", "text", "timer", "shown", "stale"}
  \/ dialog.kind = "details" /\ DOMAIN dialog = {"kind", "id", "of", "size"}
  \/ /\ dialog.kind = "picker" /\ IsPath(dialog.at) /\ dialog.id > left + 1
     /\ DOMAIN dialog = {"kind", "id", "at", "rows"}

IsAsk(a) ==
  /\ DOMAIN a = {"kind", "id", "what", "aborted"}
  /\ a.aborted \in BOOLEAN
  /\ a.kind # "search" => ~a.aborted

\* Its number is of no request made before it, and a query of that number is a search's.
Numbered ==
  /\ left \in Nat /\ dialog.id \in Nat
  /\ \A a \in asks : /\ IsAsk(a) /\ a.id \in Nat
                     /\ a.kind \in {"search", "list"} => a.id > left + 1
                     /\ a.kind = "search" /\ a.id = dialog.id => dialog.kind = "search"

\* The query on its way is the one last chosen, or the wait for another has begun.
Searched ==
  dialog.kind = "search" /\ ~dialog.timer =>
    /\ \A a \in Own("search") : dialog.text # None /\ a.what = <<dialog.text, scope>>
    /\ Own("search") = {} => dialog.shown \in IF dialog.text = None THEN {None}
                                              ELSE [of : {<<dialog.text, scope>>}, ok : BOOLEAN]

\* Short of two on their way at once, the size on its way is that of the folder shown.
Detailed ==
  dialog.kind = "details" /\ ~crossed =>
    /\ \A a \in OfKind("size") : a.what = dialog.of
    /\ dialog.size \in {None, Failed, dialog.of}

\* Short of that, the rows on their way are those of the folder the picker is at, and it has not
\* gone through a folder that is moved.
Picked ==
  dialog.kind = "picker" /\ ~crossed =>
    /\ \A a \in Own("list") : a.what = dialog.at
    /\ \A i \in 0 .. Len(dialog.at) : SubSeq(dialog.at, 1, i) \notin Blocked
    /\ Own("list") = {} => \A n \in dialog.rows : Append(dialog.at, n) \in Folders \ Blocked

DInv == DialogForm /\ Numbered /\ Searched /\ Detailed /\ Picked

LEMMA DInvInit == Init => DInv
<1> SUFFICES ASSUME DialogInit, left \in Nat PROVE DInv
  BY ErrandsAssumption DEF Init
<1>1. dialog = Closed /\ asks = {} /\ crossed = FALSE /\ dialog.kind = None /\ dialog.id = 0
  BY DEF DialogInit, Closed
<1> QED
  BY <1>1, DialogAssumption DEF DInv, DialogForm, Numbered, Searched, Detailed, Picked

\* What the dialog's rest needs of the count: it never grows.
Later == left' \in Nat /\ left' <= left

LEMMA DialogStays == DInv /\ UNCHANGED dialogVars /\ Later => DInv'
<1> SUFFICES ASSUME DInv, UNCHANGED dialogVars, Later PROVE DInv'
  OBVIOUS
<1>1. DialogForm' /\ Numbered'
  BY DEF DInv, DialogForm, Numbered, dialogVars, Later, Closed
<1>2. UNCHANGED <<dialog, scope, asks, crossed>>
  BY DEF dialogVars
<1>3. Searched' /\ Detailed' /\ Picked'
  BY <1>2 DEF DInv, Searched, Detailed, Picked, Own, OfKind
<1> QED
  BY <1>1, <1>3 DEF DInv

LEMMA DialogKinds ==
  ASSUME DInv
  PROVE  /\ dialog.kind \in {None, "search", "details", "picker"}
         /\ dialog = Closed <=> dialog.kind = None
         /\ dialog = Closed => dialog.id = 0
BY DialogAssumption DEF DInv, DialogForm, Closed

LEMMA AsksAborted ==
  ASSUME \A a \in asks : IsAsk(a)
  PROVE  \A b \in Aborted : /\ IsAsk(b) /\ b.kind = "search" => b.aborted
                            /\ IsAsk(b)
                            /\ \E a \in asks : b.kind = a.kind /\ b.id = a.id /\ b.what = a.what
BY DEF Aborted, IsAsk

LEMMA NewIsAsk ==
  ASSUME NEW kind, NEW id, NEW what
  PROVE  LET a == NewAsk(kind, id, what)
         IN  IsAsk(a) /\ a.kind = kind /\ a.id = id /\ a.what = what /\ ~a.aborted
BY DEF NewAsk, IsAsk

LEMMA SearchOpens == DInv /\ ShowFileSearch => DInv'
<1> SUFFICES ASSUME DInv, ShowFileSearch PROVE DInv'
  OBVIOUS
<1>1. /\ dialog'.kind = "search" /\ dialog'.timer \in BOOLEAN /\ dialog'.id = left + 1
      /\ dialog'.text = None /\ dialog'.shown = None
      /\ DOMAIN dialog' = {"kind", "id", "text", "timer", "shown", "stale"}
  BY DEF ShowFileSearch, Number
<1>2. left \in Nat /\ left' = left - 1 /\ left' \in Nat /\ UNCHANGED <<scope, asks, crossed>>
  BY DEF DInv, Numbered, ShowFileSearch, Gesture
<1>3. dialog'.id > left' + 1 /\ dialog'.id \in Nat /\ DialogForm'
  BY <1>1, <1>2 DEF DialogForm
<1>5. Numbered'
  BY <1>1, <1>2, <1>3 DEF Numbered, DInv
<1>4. Own("search")' = {}
  BY <1>1, <1>2 DEF Own, OfKind, DInv, Numbered
<1> QED
  BY <1>1, <1>3, <1>4, <1>5 DEF DInv, Searched, Detailed, Picked

LEMMA QueryTyped == ASSUME NEW q, DInv, QueueRun(q) PROVE DInv'
<1>1. /\ dialog'.kind = "search" /\ dialog'.timer \in BOOLEAN /\ dialog'.timer /\ dialog'.id = dialog.id
      /\ DOMAIN dialog' = {"kind", "id", "text", "timer", "shown", "stale"}
  BY DialogAssumption DEF QueueRun, DInv, DialogForm, Closed
<1>2. left \in Nat /\ left' = left - 1 /\ left' \in Nat /\ UNCHANGED <<scope, asks, crossed>>
  BY DEF DInv, Numbered, QueueRun, Gesture
<1>3. dialog.id \in Nat /\ dialog.id > left + 1
  BY DialogAssumption DEF QueueRun, DInv, DialogForm, Closed, Numbered
<1>4. DialogForm'
  BY <1>1, <1>2, <1>3 DEF DialogForm
<1>5. Numbered'
  BY <1>1, <1>2, <1>3 DEF Numbered, DInv
<1> QED
  BY <1>1, <1>4, <1>5 DEF DInv, Searched, Detailed, Picked

\* A search that is run: the wait d.timer may still be over another query.
LEMMA SearchRuns ==
  ASSUME DInv, NEW d, NEW sc, Later, Run(d, sc), scope' = sc, UNCHANGED crossed,
         d.kind = "search", d.timer \in BOOLEAN, d.id \in Nat, d.id > left + 1,
         DOMAIN d = {"kind", "id", "text", "timer", "shown", "stale"}
  PROVE  DInv'
<1>1. /\ dialog'.kind = "search" /\ dialog'.timer \in BOOLEAN /\ dialog'.id = d.id
      /\ dialog'.text = d.text
      /\ DOMAIN dialog' = {"kind", "id", "text", "timer", "shown", "stale"}
  BY DEF Run
<1> DEFINE new == NewAsk("search", d.id, <<d.text, sc>>)
<1>2. /\ IsAsk(new) /\ new.kind = "search" /\ new.id = d.id /\ new.what = <<d.text, sc>>
      /\ ~new.aborted
  BY NewIsAsk
<1>3. \/ d.text = None /\ dialog'.shown = None /\ asks' = Aborted
      \/ d.text # None /\ asks' = Aborted \cup {new}
  BY DEF Run
<1> HIDE DEF new
<1>4. \A b \in Aborted : /\ b.kind = "search" => b.aborted
                         /\ IsAsk(b) /\ b.id \in Nat
                         /\ b.kind \in {"search", "list"} => b.id > left + 1
  BY AsksAborted DEF DInv, Numbered
<1>5. DialogForm' /\ Numbered'
  BY <1>1, <1>2, <1>3, <1>4 DEF DialogForm, Numbered, DInv, Later
<1>6. \A a \in Own("search")' : a = new /\ d.text # None
  BY <1>3, <1>4 DEF Own, OfKind
<1>7. d.text # None => new \in Own("search")'
  BY <1>1, <1>2, <1>3 DEF Own, OfKind
<1>8. Searched'
  BY <1>1, <1>2, <1>3, <1>6, <1>7 DEF Searched
<1> QED
  BY <1>1, <1>5, <1>8 DEF DInv, Detailed, Picked

LEMMA TimerRuns == DInv /\ TimerFires => DInv'
<1> SUFFICES ASSUME DInv, TimerFires PROVE DInv'
  OBVIOUS
<1>1. PICK d : d = [dialog EXCEPT !.timer = FALSE]
  OBVIOUS
<1>2. /\ dialog.id \in Nat /\ dialog.id > left + 1 /\ dialog.kind = "search"
      /\ DOMAIN dialog = {"kind", "id", "text", "timer", "shown", "stale"}
  BY DialogAssumption DEF DInv, DialogForm, Closed, Numbered, TimerFires
<1>3. /\ d.kind = "search" /\ d.timer \in BOOLEAN /\ d.id \in Nat /\ d.id > left + 1
      /\ DOMAIN d = {"kind", "id", "text", "timer", "shown", "stale"}
  BY <1>1, <1>2
<1>4. Later /\ Run(d, scope) /\ scope' = scope /\ UNCHANGED crossed
  BY <1>1 DEF TimerFires, Later, DInv, Numbered
<1> QED
  BY <1>3, <1>4, SearchRuns

LEMMA ScopeSwitched == DInv /\ SwitchScope => DInv'
<1> SUFFICES ASSUME DInv, SwitchScope PROVE DInv'
  OBVIOUS
<1>1. /\ dialog.kind = "search" /\ dialog.timer \in BOOLEAN /\ dialog.id \in Nat
      /\ dialog.id > left + 1
      /\ DOMAIN dialog = {"kind", "id", "text", "timer", "shown", "stale"}
  BY DialogAssumption DEF DInv, DialogForm, Closed, Numbered, SwitchScope
<1>2. PICK sc : sc = scope'
  OBVIOUS
<1>3. Later /\ Run(dialog, sc) /\ scope' = sc /\ UNCHANGED crossed
  BY <1>2 DEF SwitchScope, Later, DInv, Numbered, Gesture
<1> QED
  BY <1>1, <1>3, SearchRuns

LEMMA SearchLands == ASSUME NEW a \in asks, NEW ok \in BOOLEAN, DInv, LandSearch(a, ok) PROVE DInv'
<1>1. UNCHANGED <<left, scope, crossed>> /\ asks' = asks \ {a} /\ a.kind = "search" /\ IsAsk(a)
  BY DEF LandSearch, DInv, Numbered
<1>2. CASE a.aborted \/ a.id # dialog.id
  <2>1. dialog' = dialog
    BY <1>2 DEF LandSearch
  <2>2. DialogForm' /\ Numbered'
    BY <1>1, <2>1 DEF DInv, DialogForm, Numbered, Closed
  <2>3. Own("search")' = Own("search") /\ Own("list")' = Own("list") /\ OfKind("size")' = OfKind("size")
    BY <1>1, <1>2, <2>1 DEF Own, OfKind
  <2> QED
    BY <1>1, <2>1, <2>2, <2>3 DEF DInv, Searched, Detailed, Picked
<1>3. CASE ~a.aborted /\ a.id = dialog.id
  <2>1. dialog' = [dialog EXCEPT !.stale = FALSE, !.shown = [of |-> a.what, ok |-> ok]]
    BY <1>3 DEF LandSearch
  <2>2. dialog.kind = "search" /\ DOMAIN dialog = {"kind", "id", "text", "timer", "shown", "stale"}
    BY <1>1, <1>3, DialogAssumption DEF DInv, Numbered, DialogForm, Closed
  <2>3. /\ dialog'.kind = "search" /\ dialog'.timer = dialog.timer /\ dialog'.id = dialog.id
        /\ dialog'.text = dialog.text /\ dialog'.shown = [of |-> a.what, ok |-> ok]
        /\ DOMAIN dialog' = {"kind", "id", "text", "timer", "shown", "stale"}
    BY <2>1, <2>2
  <2>4. dialog.timer \in BOOLEAN /\ dialog.id > left + 1
    BY <2>2, DialogAssumption DEF DInv, DialogForm, Closed
  <2>5. DialogForm' /\ Numbered'
    BY <1>1, <2>3, <2>4 DEF DInv, DialogForm, Numbered
  <2>6. a \in Own("search") /\ Own("search")' \subseteq Own("search")
    BY <1>1, <1>3, <2>3 DEF Own, OfKind
  <2>7. ~dialog.timer => /\ dialog.text # None /\ a.what = <<dialog.text, scope>>
                         /\ \A b \in Own("search") : b.what = <<dialog.text, scope>>
    BY <2>2, <2>6 DEF DInv, Searched
  <2>8. ~dialog.timer => dialog'.shown \in [of : {<<dialog.text, scope>>}, ok : BOOLEAN]
    BY <2>3, <2>7
  <2>9. Searched'
    BY <1>1, <2>3, <2>6, <2>7, <2>8 DEF Searched
  <2> QED
    BY <2>3, <2>5, <2>9 DEF DInv, Detailed, Picked
<1> QED
  BY <1>1, <1>2, <1>3 DEF IsAsk

LEMMA DialogDismissed == DInv /\ Dismiss => DInv'
<1> SUFFICES ASSUME DInv, Dismiss PROVE DInv'
  OBVIOUS
<1>1. dialog' = Closed /\ dialog'.kind = None /\ dialog'.id = 0 /\ asks' = Aborted
  BY DEF Dismiss, Closed
<1>2. left \in Nat /\ left' = left - 1 /\ left' \in Nat
  BY DEF DInv, Numbered, Dismiss, Gesture
<1>3. DialogForm' /\ Numbered'
  BY <1>1, <1>2, AsksAborted DEF DialogForm, Numbered, DInv, Closed
<1> QED
  BY <1>1, <1>3, DialogAssumption DEF DInv, Searched, Detailed, Picked

LEMMA DetailsAsked == ASSUME NEW p, DInv, ShowDetails(p) PROVE DInv'
<1> DEFINE new == NewAsk("meta", 0, p)
<1>1. IsAsk(new) /\ new.kind = "meta" /\ new.id = 0
  BY NewIsAsk
<1>2. asks' = asks \cup {new} /\ UNCHANGED <<dialog, scope, crossed>> /\ dialog = Closed
  BY DEF ShowDetails
<1> HIDE DEF new
<1>3. left \in Nat /\ left' = left - 1 /\ left' \in Nat
  BY DEF DInv, Numbered, ShowDetails, Gesture
<1>4. DialogForm' /\ Numbered'
  BY <1>1, <1>2, <1>3 DEF DialogForm, Numbered, DInv, Closed
<1> QED
  BY <1>2, <1>4, DialogKinds, DialogAssumption DEF DInv, Searched, Detailed, Picked

LEMMA MetaLands == ASSUME NEW a \in asks, DInv, LandMeta(a) PROVE DInv'
<1> DEFINE new == NewAsk("size", Number, a.what)
<1>1. IsAsk(new) /\ new.kind = "size" /\ new.id = Number /\ new.what = a.what /\ ~new.aborted
  BY NewIsAsk
<1>2. asks' = (asks \ {a}) \cup {new} /\ UNCHANGED <<left, scope>>
  BY DEF LandMeta
<1> HIDE DEF new
<1>3. /\ dialog'.kind = "details" /\ dialog'.id = left + 1 /\ dialog'.of = a.what /\ dialog'.size = None
      /\ DOMAIN dialog' = {"kind", "id", "of", "size"}
  BY DEF LandMeta, Number
<1>4. ~crossed' => OfKind("size") = {}
  BY DEF LandMeta
<1>5. DialogForm' /\ Numbered'
  BY <1>1, <1>2, <1>3 DEF DialogForm, Numbered, DInv, Number
<1>6. ~crossed' => \A b \in OfKind("size")' : b = new
  BY <1>2, <1>4 DEF OfKind
<1> QED
  BY <1>1, <1>3, <1>5, <1>6 DEF DInv, Searched, Detailed, Picked

LEMMA SizeLands == ASSUME NEW a \in asks, NEW ok, DInv, LandSize(a, ok) PROVE DInv'
<1>1. UNCHANGED <<left, scope, crossed>> /\ asks' = asks \ {a} /\ a.kind = "size" /\ ~a.aborted
  BY DEF LandSize, DInv, Numbered, IsAsk
<1>2. CASE dialog.kind # "details"
  <2>1. dialog' = dialog
    BY <1>2 DEF LandSize
  <2>2. DialogForm' /\ Numbered'
    BY <1>1, <2>1 DEF DInv, DialogForm, Numbered, Closed
  <2>3. Own("search")' = Own("search") /\ Own("list")' = Own("list")
    BY <1>1, <2>1 DEF Own, OfKind
  <2> QED
    BY <1>1, <1>2, <2>1, <2>2, <2>3 DEF DInv, Searched, Detailed, Picked
<1>3. CASE dialog.kind = "details"
  <2>1. dialog' = [dialog EXCEPT !.size = IF ok THEN a.what ELSE Failed]
    BY <1>3 DEF LandSize
  <2>2. DOMAIN dialog = {"kind", "id", "of", "size"}
    BY <1>3, DialogAssumption DEF DInv, DialogForm, Closed
  <2>3. /\ dialog'.kind = "details" /\ dialog'.id = dialog.id /\ dialog'.of = dialog.of
        /\ dialog'.size \in {a.what, Failed} /\ DOMAIN dialog' = {"kind", "id", "of", "size"}
    BY <1>3, <2>1, <2>2
  <2>4. DialogForm' /\ Numbered'
    BY <1>1, <1>3, <2>3 DEF DInv, DialogForm, Numbered
  <2>5. a \in OfKind("size") /\ OfKind("size")' \subseteq OfKind("size")
    BY <1>1 DEF OfKind
  <2> QED
    BY <1>1, <1>3, <2>3, <2>4, <2>5 DEF DInv, Searched, Detailed, Picked
<1> QED
  BY <1>2, <1>3

\* The picker's rows are asked for: the dialog d is the picker where it goes.
LEMMA PickerRenders ==
  ASSUME DInv, NEW d, Render(d), Later, UNCHANGED scope,
         d.kind = "picker", DOMAIN d = {"kind", "id", "at", "rows"}, IsPath(d.at),
         d.id \in Nat, d.id > left' + 1,
         \A a \in asks : a.kind = "search" => a.id # d.id,
         ~crossed /\ Own("list") = {} =>
           /\ \A a \in asks : a.kind = "list" => a.id # d.id
           /\ \A i \in 0 .. Len(d.at) : SubSeq(d.at, 1, i) \notin Blocked
  PROVE  DInv'
<1> DEFINE new == NewAsk("list", d.id, d.at)
<1>1. IsAsk(new) /\ new.kind = "list" /\ new.id = d.id /\ new.what = d.at /\ ~new.aborted
  BY NewIsAsk
<1>2. /\ asks' = asks \cup {new} /\ dialog' = d
      /\ ~crossed' => ~crossed /\ Own("list") = {}
  BY DEF Render
<1> HIDE DEF new
<1>3. DialogForm' /\ Numbered'
  BY <1>1, <1>2 DEF DialogForm, Numbered, DInv, Later
<1>4. ~crossed' => \A a \in Own("list")' : a = new
  BY <1>1, <1>2 DEF Own, OfKind
<1>5. new \in Own("list")'
  BY <1>1, <1>2 DEF Own, OfKind
<1>6. Picked'
  BY <1>1, <1>2, <1>4, <1>5 DEF Picked
<1> QED
  BY <1>2, <1>3, <1>6 DEF DInv, Searched, Detailed

LEMMA PickerOpens == DInv /\ ShowFolderPicker => DInv'
<1> SUFFICES ASSUME DInv, ShowFolderPicker PROVE DInv'
  OBVIOUS
<1>1. PICK d : d = [kind |-> "picker", id |-> Number, at |-> << >>, rows |-> {}]
  OBVIOUS
<1>2. Render(d) /\ UNCHANGED scope /\ left \in Nat /\ left' = left - 1 /\ Later
  BY <1>1 DEF ShowFolderPicker, DInv, Numbered, Gesture, Later
<1>3. /\ d.kind = "picker" /\ DOMAIN d = {"kind", "id", "at", "rows"} /\ d.at = << >>
      /\ d.id \in Nat /\ d.id = left + 1 /\ d.id > left' + 1
  BY <1>1, <1>2 DEF Number
<1>4. \A a \in asks : a.kind \in {"search", "list"} => a.id # d.id
  BY <1>2, <1>3 DEF DInv, Numbered
<1>5. IsPath(d.at) /\ \A i \in 0 .. Len(d.at) : SubSeq(d.at, 1, i) = << >>
  BY <1>3 DEF IsPath
<1> QED
  BY <1>2, <1>3, <1>4, <1>5, PickerRenders, DialogAssumption

LEMMA RowsLand == ASSUME NEW a \in asks, NEW ok, DInv, LandRows(a, ok) PROVE DInv'
<1>1. UNCHANGED <<left, scope, crossed>> /\ asks' = asks \ {a} /\ a.kind = "list" /\ ~a.aborted
  BY DEF LandRows, DInv, Numbered, IsAsk
<1>2. CASE dialog.kind # "picker" \/ a.id # dialog.id
  <2>1. dialog' = dialog
    BY <1>2 DEF LandRows
  <2>2. DialogForm' /\ Numbered'
    BY <1>1, <2>1 DEF DInv, DialogForm, Numbered, Closed
  <2>3. /\ Own("search")' = Own("search") /\ OfKind("size")' = OfKind("size")
        /\ dialog.kind = "picker" => Own("list")' = Own("list")
    BY <1>1, <1>2, <2>1 DEF Own, OfKind
  <2> QED
    BY <1>1, <2>1, <2>2, <2>3 DEF DInv, Searched, Detailed, Picked
<1>3. CASE dialog.kind = "picker" /\ a.id = dialog.id
  <2>1. dialog' = [dialog EXCEPT !.rows = {n \in Names(a.what) :
                                             ok /\ Append(dialog.at, n) \notin Blocked}]
    BY <1>3 DEF LandRows
  <2>2. /\ DOMAIN dialog = {"kind", "id", "at", "rows"} /\ IsPath(dialog.at)
        /\ dialog.id > left + 1
    BY <1>3, DialogAssumption DEF DInv, DialogForm, Closed
  <2>3. /\ dialog'.kind = "picker" /\ dialog'.id = dialog.id /\ dialog'.at = dialog.at
        /\ \A n \in dialog'.rows : n \in Names(a.what) /\ Append(dialog.at, n) \notin Blocked
        /\ DOMAIN dialog' = {"kind", "id", "at", "rows"}
    BY <1>3, <2>1, <2>2
  <2>4. DialogForm' /\ Numbered'
    BY <1>1, <1>3, <2>2, <2>3 DEF DInv, DialogForm, Numbered
  <2>5. a \in Own("list") /\ Own("list")' \subseteq Own("list")
    BY <1>1, <1>3, <2>3 DEF Own, OfKind
  <2>6. ASSUME NEW n \in Names(dialog.at) PROVE Append(dialog.at, n) \in Folders
    <3>1. PICK q \in Folders : q # << >> /\ Front(q) = dialog.at /\ n = q[Len(q)]
      BY DEF Names
    <3>2. IsPath(q)
      BY DialogAssumption
    <3>3. Append(Front(q), q[Len(q)]) = q
      BY <3>1, <3>2, LastJoins
    <3> QED
      BY <3>1, <3>3
  <2>7. Picked'
    BY <1>1, <1>3, <2>3, <2>5, <2>6 DEF DInv, Picked
  <2> QED
    BY <2>3, <2>4, <2>7 DEF DInv, Searched, Detailed
<1> QED
  BY <1>2, <1>3

LEMMA RowPicked == ASSUME NEW n, DInv, PickRow(n) PROVE DInv'
<1>1. PICK d : d = [dialog EXCEPT !.at = Append(@, n)]
  OBVIOUS
<1>2. /\ DOMAIN dialog = {"kind", "id", "at", "rows"} /\ IsPath(dialog.at) /\ dialog.kind = "picker"
      /\ dialog.id > left + 1 /\ dialog.id \in Nat /\ n \in dialog.rows
  BY DialogAssumption DEF DInv, DialogForm, Closed, PickRow, Numbered
<1>3. Render(d) /\ UNCHANGED scope /\ left \in Nat /\ left' = left - 1 /\ Later
  BY <1>1 DEF PickRow, DInv, Numbered, Gesture, Later
<1>4. /\ d.kind = "picker" /\ DOMAIN d = {"kind", "id", "at", "rows"} /\ d.at = Append(dialog.at, n)
      /\ d.id = dialog.id
  BY <1>1, <1>2
<1>5. IsPath(d.at) /\ d.id > left' + 1
  BY <1>2, <1>3, <1>4, PathsGrow
<1>6. \A a \in asks : a.kind = "search" => a.id # d.id
  BY <1>2, <1>4 DEF DInv, Numbered
<1>7. ASSUME ~crossed, Own("list") = {}
      PROVE  /\ \A a \in asks : a.kind = "list" => a.id # d.id
             /\ \A i \in 0 .. Len(d.at) : SubSeq(d.at, 1, i) \notin Blocked
  <2>1. \A a \in asks : a.kind = "list" => a.id # d.id
    BY <1>4, <1>7 DEF DInv, Numbered, IsAsk, Own, OfKind
  <2>2. d.at \notin Blocked /\ \A i \in 0 .. Len(dialog.at) : SubSeq(dialog.at, 1, i) \notin Blocked
    BY <1>2, <1>4, <1>7 DEF DInv, Picked
  <2>3. ASSUME NEW i \in 0 .. Len(d.at) PROVE SubSeq(d.at, 1, i) \notin Blocked
    <3>1. \/ SubSeq(d.at, 1, i) = d.at
          \/ i \in 0 .. Len(dialog.at) /\ SubSeq(d.at, 1, i) = SubSeq(dialog.at, 1, i)
      BY <1>2, <1>4, PrefixesGrow
    <3> QED
      BY <2>2, <3>1
  <2> QED
    BY <2>1, <2>3
<1> QED
  BY <1>2, <1>3, <1>4, <1>5, <1>6, <1>7, PickerRenders

LEMMA WentUp == DInv /\ PickUp => DInv'
<1> SUFFICES ASSUME DInv, PickUp PROVE DInv'
  OBVIOUS
<1>1. PICK d : d = [dialog EXCEPT !.at = Front(@)]
  OBVIOUS
<1>2. /\ DOMAIN dialog = {"kind", "id", "at", "rows"} /\ IsPath(dialog.at) /\ dialog.kind = "picker"
      /\ dialog.id > left + 1 /\ dialog.id \in Nat /\ dialog.at # << >>
  BY DialogAssumption DEF DInv, DialogForm, Closed, PickUp, Numbered
<1>3. Render(d) /\ UNCHANGED scope /\ left \in Nat /\ left' = left - 1 /\ Later
  BY <1>1 DEF PickUp, DInv, Numbered, Gesture, Later
<1>4. /\ d.kind = "picker" /\ DOMAIN d = {"kind", "id", "at", "rows"} /\ d.at = Front(dialog.at)
      /\ d.id = dialog.id
  BY <1>1, <1>2
<1>5. IsPath(d.at) /\ d.id > left' + 1
  BY <1>2, <1>3, <1>4, FrontShrinks
<1>6. \A a \in asks : a.kind = "search" => a.id # d.id
  BY <1>2, <1>4 DEF DInv, Numbered
<1>7. ASSUME ~crossed, Own("list") = {}
      PROVE  /\ \A a \in asks : a.kind = "list" => a.id # d.id
             /\ \A i \in 0 .. Len(d.at) : SubSeq(d.at, 1, i) \notin Blocked
  <2>1. \A a \in asks : a.kind = "list" => a.id # d.id
    BY <1>4, <1>7 DEF DInv, Numbered, IsAsk, Own, OfKind
  <2>2. \A i \in 0 .. Len(dialog.at) : SubSeq(dialog.at, 1, i) \notin Blocked
    BY <1>2, <1>7 DEF DInv, Picked
  <2> QED
    BY <1>2, <1>4, <2>1, <2>2, FrontShrinks
<1> QED
  BY <1>2, <1>3, <1>4, <1>5, <1>6, <1>7, PickerRenders

LEMMA DInvNext == DInv /\ [Next]_pageVars => DInv'
<1> SUFFICES ASSUME DInv, [Next]_pageVars PROVE DInv'
  OBVIOUS
<1>1. Later
  BY GesturesCount DEF Later, Counted, Gesture, DInv, Numbered
<1>2. CASE UNCHANGED dialogVars
  BY <1>1, <1>2, DialogStays
<1>3. CASE Converse
  <2>1. ASSUME NEW a \in asks, NEW ok \in BOOLEAN, LandSearch(a, ok) \/ LandSize(a, ok) \/ LandRows(a, ok)
        PROVE  DInv'
    BY <2>1, SearchLands, SizeLands, RowsLand
  <2>2. ASSUME NEW a \in asks, LandMeta(a) PROVE DInv'
    BY <2>2, MetaLands
  <2>3. ASSUME NEW q, QueueRun(q) \/ PickRow(q) \/ ShowDetails(q) PROVE DInv'
    BY <2>3, QueryTyped, RowPicked, DetailsAsked
  <2> QED
    BY <1>3, <2>1, <2>2, <2>3, SearchOpens, TimerRuns, ScopeSwitched, DialogDismissed, PickerOpens,
       WentUp DEF Converse
<1> QED
  BY <1>2, <1>3 DEF Next, InBrowser, InEditor, InViewer, InDialog, WithSongs, InTransfer, pageVars

\* A dialog that waits for nothing shows what was asked in it, answers to two requests of one kind
\* that could meet it excepted.
THEOREM DialogsShowTheirOwn == PageSpec => []DialogShowsItsOwn
<1>1. DInv => DialogShowsItsOwn
  <2> SUFFICES ASSUME DInv PROVE DialogShowsItsOwn
    OBVIOUS
  <2>1. dialog.kind = "picker" /\ dialog.at \in Blocked => crossed
    <3> SUFFICES ASSUME dialog.kind = "picker", ~crossed PROVE dialog.at \notin Blocked
      BY DEF DInv, Picked
    <3>1. IsPath(dialog.at)
      BY DialogAssumption DEF DInv, DialogForm, Closed
    <3>2. \A i \in 0 .. Len(dialog.at) : SubSeq(dialog.at, 1, i) \notin Blocked
      BY DEF DInv, Picked
    <3> QED
      BY <3>1, <3>2, WholePrefix
  <2> QED
    BY <2>1 DEF DInv, DialogShowsItsOwn, Searched, Detailed, Picked
<1> QED
  BY <1>1, DInvInit, DInvNext, PTL DEF PageSpec
----------------------------------------------------------------------------
(* The song that is next *)

\* What a sequence has of a set is a sequence over it, with all of them, and all of it if there is no
\* more in it.
LEMMA Places ==
  ASSUME NEW s, IsPath(s), NEW S, NEW i \in DOMAIN s, s[i] \in S
  PROVE  LET at == {j \in DOMAIN s : s[j] \in S}
         IN  /\ Place(i, s, S) \in 1 .. Cardinality(at)
             /\ \A j \in at : Place(j, s, S) = Place(i, s, S) => j = i
<1> DEFINE at == {j \in DOMAIN s : s[j] \in S}
           upto(m) == {j \in 1 .. m : s[j] \in S}
<1>1. DOMAIN s = 1 .. Len(s) /\ Len(s) \in Nat
  BY DEF IsPath
<1>2. IsFiniteSet(at)
  <2>1. IsFiniteSet(1 .. Len(s))
    BY <1>1, FS_Interval
  <2>2. at \in SUBSET (1 .. Len(s))
    BY <1>1
  <2> QED
    BY <2>1, <2>2, FS_Subset
<1>3. Cardinality(at) \in Nat
  BY <1>2, FS_CardinalityType
<1>4. \A m \in at : upto(m) \in SUBSET at /\ m \in upto(m)
  BY <1>1
<1>5. \A m \in at : IsFiniteSet(upto(m)) /\ Cardinality(upto(m)) <= Cardinality(at)
  BY <1>2, <1>4, FS_Subset
<1>6. \A m \in at : Cardinality(upto(m)) \in Nat /\ Cardinality(upto(m)) # 0
  BY <1>4, <1>5, FS_CardinalityType, FS_EmptySet
<1>7. ASSUME NEW m \in at, Cardinality(upto(m)) = Cardinality(upto(i)) PROVE m = i
  <2>1. i \in at /\ m \in Nat /\ i \in Nat
    BY <1>1
  <2>2. upto(m) \in SUBSET upto(i) \/ upto(i) \in SUBSET upto(m)
    BY <2>1
  <2>3. upto(m) = upto(i)
    BY <1>5, <1>7, <2>1, <2>2, FS_Subset
  <2>4. m \in upto(i) /\ i \in upto(m)
    BY <1>4, <2>1, <2>3
  <2> QED
    BY <2>1, <2>4
<1>8. \A m \in at : Place(m, s, S) = Cardinality(upto(m))
  BY DEF Place
<1>9. i \in at
  OBVIOUS
<1> HIDE DEF at, upto
<1>10. Place(i, s, S) \in 1 .. Cardinality(at) /\ \A j \in at : Place(j, s, S) = Place(i, s, S) => j = i
  BY <1>3, <1>5, <1>6, <1>7, <1>8, <1>9
<1> QED
  BY <1>10 DEF at

LEMMA OnlyIsSeq ==
  ASSUME NEW s, IsPath(s), NEW S
  PROVE  /\ Only(s, S) \in Seq(S)
         /\ \A i \in DOMAIN s : s[i] \in S => s[i] \in ToSet(Only(s, S))
<1> DEFINE at == {i \in DOMAIN s : s[i] \in S}
           places == [i \in at |-> Place(i, s, S)]
           count == Cardinality(at)
<1>1. DOMAIN s = 1 .. Len(s) /\ Len(s) \in Nat
  BY DEF IsPath
<1>2. IsFiniteSet(at) /\ count \in Nat
  <2>1. IsFiniteSet(1 .. Len(s))
    BY <1>1, FS_Interval
  <2>2. at \in SUBSET (1 .. Len(s))
    BY <1>1
  <2> QED
    BY <2>1, <2>2, FS_Subset, FS_CardinalityType
<1>3. \A i \in at : /\ Place(i, s, S) \in 1 .. count
                    /\ \A j \in at : Place(j, s, S) = Place(i, s, S) => j = i
  BY Places
<1> HIDE DEF at
<1>4. places \in Injection(at, 1 .. count)
  BY <1>3 DEF Injection, IsInjective
<1>5. IsFiniteSet(1 .. count) /\ Cardinality(1 .. count) = count
  BY <1>2, FS_Interval
<1>6. places \in Surjection(at, 1 .. count)
  BY <1>4, <1>5, FS_Injection
<1>7. {Place(i, s, S) : i \in at} = 1 .. count
  <2>1. \A i \in at : places[i] = Place(i, s, S) /\ places[i] \in 1 .. count
    BY <1>3
  <2>2. \A k \in 1 .. count : \E i \in at : places[i] = k
    BY <1>6 DEF Surjection
  <2> HIDE DEF places, count
  <2> QED
    BY <2>1, <2>2
<1>8. \A i \in at : i \in DOMAIN s /\ s[i] \in S
  BY DEF at
<1>9. \A k \in 1 .. count : (CHOOSE i \in at : Place(i, s, S) = k) \in at
  BY <1>7
<1>10. Only(s, S) = [k \in 1 .. count |-> s[CHOOSE i \in at : Place(i, s, S) = k]]
  BY <1>7 DEF Only, at
<1>11. Only(s, S) \in [1 .. count -> S]
  BY <1>8, <1>9, <1>10
<1>12. Only(s, S) \in Seq(S)
  BY <1>2, <1>11, SeqDef
<1>13. ASSUME NEW i \in at PROVE s[i] \in ToSet(Only(s, S))
  <2>1. (CHOOSE j \in at : Place(j, s, S) = Place(i, s, S)) = i
    BY <1>3
  <2>2. Place(i, s, S) \in 1 .. count
    BY <1>3
  <2>3. Only(s, S)[Place(i, s, S)] = s[i]
    BY <1>10, <2>1, <2>2
  <2> HIDE DEF count
  <2>4. DOMAIN Only(s, S) = 1 .. count
    BY <1>10
  <2> QED
    BY <2>2, <2>3, <2>4 DEF ToSet
<1> QED
  BY <1>12, <1>13 DEF at

LEMMA OnlyIsAll ==
  ASSUME NEW S, NEW s \in Seq(S)
  PROVE  Only(s, S) = s
<1>1. DOMAIN s = 1 .. Len(s) /\ Len(s) \in Nat /\ s = [k \in 1 .. Len(s) |-> s[k]]
      /\ \A i \in 1 .. Len(s) : s[i] \in S
  OBVIOUS
<1>2. {i \in DOMAIN s : s[i] \in S} = 1 .. Len(s)
  BY <1>1
<1>3. ASSUME NEW i \in 1 .. Len(s) PROVE Place(i, s, S) = i
  <2>1. {j \in 1 .. i : s[j] \in S} = 1 .. i
    BY <1>1
  <2>2. Cardinality(1 .. i) = i
    BY FS_Interval
  <2> QED
    BY <2>1, <2>2 DEF Place
<1>4. {Place(i, s, S) : i \in 1 .. Len(s)} = 1 .. Len(s)
  BY <1>3
<1>5. ASSUME NEW k \in 1 .. Len(s) PROVE (CHOOSE i \in 1 .. Len(s) : Place(i, s, S) = k) = k
  BY <1>3
<1>6. Only(s, S) = [k \in 1 .. Len(s) |-> s[CHOOSE i \in 1 .. Len(s) : Place(i, s, S) = k]]
  <2> DEFINE at == {i \in DOMAIN s : s[i] \in S}
  <2>1. Only(s, S) = [k \in {Place(i, s, S) : i \in at} |-> s[CHOOSE i \in at : Place(i, s, S) = k]]
    BY DEF Only
  <2>2. at = 1 .. Len(s)
    BY <1>2
  <2> HIDE DEF at
  <2> QED
    BY <1>4, <2>1, <2>2
<1> QED
  BY <1>1, <1>5, <1>6

\* A pick falls on the first pool that is not empty.
LEMMA PicksOfThree ==
  ASSUME NEW A, NEW B, NEW C
  PROVE  LET pool == FirstOf(<<A, B, C>>)
         IN  pool \subseteq A \cup B \cup C /\ (pool = {} => A = {} /\ B = {} /\ C = {})
<1> DEFINE pools == <<A, B, C>>
           first(i) == pools[i] # {} /\ \A j \in 1 .. i - 1 : pools[j] = {}
<1>1. DOMAIN pools = 1 .. 3 /\ pools[1] = A /\ pools[2] = B /\ pools[3] = C
  OBVIOUS
<1> HIDE DEF pools
<1>2. CASE \E i \in DOMAIN pools : pools[i] # {}
  <2>1. \E i \in DOMAIN pools : first(i)
    <3>1. CASE A # {}
      <4>1. first(1)
        BY <1>1, <3>1
      <4> QED
        BY <1>1, <4>1
    <3>2. CASE A = {} /\ B # {}
      <4>1. first(2)
        BY <1>1, <3>2
      <4> QED
        BY <1>1, <4>1
    <3>3. CASE A = {} /\ B = {} /\ C # {}
      <4>1. first(3)
        BY <1>1, <3>3
      <4> QED
        BY <1>1, <4>1
    <3> QED
      BY <1>1, <1>2, <3>1, <3>2, <3>3
  <2>2. PICK k \in DOMAIN pools : k = CHOOSE i \in DOMAIN pools : first(i)
    BY <2>1
  <2>3. first(k)
    BY <2>1, <2>2
  <2>4. FirstOf(pools) = pools[k]
    BY <1>2, <2>2 DEF FirstOf
  <2> QED
    BY <1>1, <2>3, <2>4 DEF pools
<1>3. CASE \A i \in DOMAIN pools : pools[i] = {}
  <2>1. FirstOf(pools) = {}
    BY <1>3 DEF FirstOf
  <2> QED
    BY <1>1, <1>3, <2>1 DEF pools
<1> QED
  BY <1>2, <1>3

LEMMA AppendedTo ==
  ASSUME NEW q, NEW o \in Seq(q), NEW s \in q
  PROVE  /\ Append(o, s) \in Seq(q) /\ Append(o, s) # << >> /\ Last(Append(o, s)) = s
         /\ ToSet(o) \subseteq ToSet(Append(o, s))
BY DEF Last, ToSet

\* An order that has been read: of the queue's songs, with the one playing, and one after it.
Held(o, p, q) ==
  /\ o \in Seq(q)
  /\ p.song \in q => p.song \in ToSet(o)
  /\ \/ o = << >> /\ q = {}
     \/ o = <<p.song>> /\ q = {p.song}
     \/ o # << >> /\ Last(o) # p.song

LEMMA DealtIsHeld ==
  ASSUME NEW q, NEW p, NEW t, NEW o \in Seq(q), p.song \in q => p.song \in ToSet(o),
         NEW d \in Dealt(q, o, p, t)
  PROVE  Held(d, p, q)
<1> DEFINE fresh(side) == (q \cap side) \ ToSet(o)
           start(side) == IF fresh(side) # {} THEN o ELSE IF p.song \in q THEN <<p.song>> ELSE << >>
           rest == q \ {p.song}
           pool(side) == FirstOf(<<fresh(side), rest \cap side, rest>>)
<1>1. PICK side \in Sides(p, t) :
        d \in IF pool(side) = {} THEN {start(side)} ELSE {Append(start(side), s) : s \in pool(side)}
  BY DEF Dealt
<1>2. pool(side) \subseteq rest /\ (pool(side) = {} => fresh(side) = {} /\ rest = {})
  <2>1. /\ pool(side) \subseteq fresh(side) \cup (rest \cap side) \cup rest
        /\ pool(side) = {} => fresh(side) = {} /\ rest = {}
    BY PicksOfThree
  <2>2. fresh(side) \subseteq rest
    OBVIOUS
  <2> QED
    BY <2>1, <2>2
<1>3. start(side) \in Seq(q) /\ (p.song \in q => p.song \in ToSet(start(side)))
  <2>1. p.song \in q => <<p.song>> \in Seq(q) /\ p.song \in ToSet(<<p.song>>)
    BY DEF ToSet
  <2> QED
    BY <2>1
<1>4. CASE pool(side) = {}
  <2>1. d = start(side) /\ fresh(side) = {} /\ rest = {}
    BY <1>1, <1>2, <1>4
  <2> QED
    BY <1>3, <2>1 DEF Held
<1>5. CASE pool(side) # {}
  <2>1. PICK s \in pool(side) : d = Append(start(side), s)
    BY <1>1, <1>5
  <2>2. s \in q /\ s # p.song
    BY <1>2, <2>1
  <2> HIDE DEF start, pool
  <2>3. d \in Seq(q) /\ d # << >> /\ Last(d) = s /\ ToSet(start(side)) \subseteq ToSet(d)
    BY <1>3, <2>1, <2>2, AppendedTo
  <2> QED
    BY <1>3, <2>2, <2>3 DEF Held
<1> QED
  BY <1>4, <1>5

LEMMA ShuffledIsHeld ==
  ASSUME NEW o, IsPath(o), NEW p, NEW t, NEW d \in Shuffled(o, p, t)
  PROVE  Held(d, p, ToSet(QueueOf(p, t)))
<1> DEFINE q == ToSet(QueueOf(p, t))
           run == IF p.song \in q /\ p.song \notin ToSet(o) THEN <<p.song>> ELSE o
           left_ == Only(run, q)
<1>1. d \in IF left_ = << >> \/ Last(left_) = p.song THEN Dealt(q, left_, p, t) ELSE {left_}
  BY DEF Shuffled
<1> HIDE DEF q
<1>2. IsPath(run) /\ (p.song \in q => p.song \in ToSet(run))
  <2>1. IsPath(<<p.song>>) /\ p.song \in ToSet(<<p.song>>)
    BY DEF IsPath, ToSet
  <2> QED
    BY <2>1
<1> HIDE DEF run
<1>3. left_ \in Seq(q) /\ (p.song \in q => p.song \in ToSet(left_))
  <2>1. left_ \in Seq(q) /\ \A i \in DOMAIN run : run[i] \in q => run[i] \in ToSet(left_)
    BY <1>2, OnlyIsSeq
  <2>2. \A s \in ToSet(run) : \E i \in DOMAIN run : run[i] = s
    BY DEF ToSet
  <2> QED
    BY <1>2, <2>1, <2>2
<1> HIDE DEF left_
<1>4. Held(d, p, q)
  BY <1>1, <1>3, DealtIsHeld DEF Held
<1> QED
  BY <1>4 DEF q

LEMMA HeldIsKept ==
  ASSUME NEW o, NEW p, NEW t, Held(o, p, ToSet(QueueOf(p, t)))
  PROVE  Shuffled(o, p, t) = {o}
<1> DEFINE q == ToSet(QueueOf(p, t))
<1>1. Only(o, q) = o
  BY OnlyIsAll DEF Held
<1>2. ~(p.song \in q /\ p.song \notin ToSet(o))
  BY DEF Held
<1>3. Shuffled(o, p, t) = IF o = << >> \/ Last(o) = p.song THEN Dealt(q, o, p, t) ELSE {o}
  BY <1>1, <1>2 DEF Shuffled
<1>4. Held(o, p, q)
  OBVIOUS
<1> HIDE DEF q
<1>5. CASE \/ o = << >> /\ q = {}
           \/ o = <<p.song>> /\ q = {p.song}
  <2>1. (q \ {p.song}) = {} /\ o = IF p.song \in q THEN <<p.song>> ELSE << >>
    BY <1>5
  <2>2. \A side : (q \cap side) \ ToSet(o) = {}
    BY <1>5 DEF ToSet
  <2>3. \A side : FirstOf(<<(q \cap side) \ ToSet(o), (q \ {p.song}) \cap side, q \ {p.song}>>) = {}
    <3>1. \A side : (q \ {p.song}) \cap side = {}
      BY <2>1
    <3>2. FirstOf(<<{}, {}, {}>>) = {}
      BY PicksOfThree
    <3> QED
      BY <2>1, <2>2, <3>1, <3>2
  <2>4. Dealt(q, o, p, t) = UNION {{o} : side \in Sides(p, t)}
    BY <2>1, <2>2, <2>3 DEF Dealt
  <2>5. Sides(p, t) # {}
    BY DEF Sides
  <2>6. Dealt(q, o, p, t) = {o}
    BY <2>4, <2>5
  <2> QED
    BY <1>3, <2>6
<1>6. CASE o # << >> /\ Last(o) # p.song
  BY <1>3, <1>6
<1> QED
  BY <1>4, <1>5, <1>6 DEF Held

LEMMA EmptyIsPath == IsPath(<< >>)
BY DEF IsPath

\* A song read as the next one is what is read again, with whatever tags unless they are filtered by.
LEMMA NextIsRead ==
  ASSUME NEW o, IsPath(o), NEW p, NEW t, NEW on \in Neighbors(1, o, p, t)
  PROVE  /\ IsPath(on.order)
         /\ \A t2 : (p.filter => t2 = t) => \A n \in Neighbors(1, on.order, p, t2) : n.to = on.to
<1>1. \A t2 : (p.filter => t2 = t) => QueueOf(p, t2) = QueueOf(p, t)
  BY DEF QueueOf
<1>2. CASE p.mode = "shuffle"
  <2>1. PICK qu \in Shuffled(o, p, t) : on = [to |-> Beside(1, Where(p.song, qu), qu), order |-> qu]
    BY <1>2 DEF Neighbors
  <2>2. on.order = qu /\ on.to = Beside(1, Where(p.song, qu), qu)
    BY <2>1
  <2>3. Held(qu, p, ToSet(QueueOf(p, t)))
    BY <2>1, ShuffledIsHeld
  <2>4. IsPath(qu)
    BY <2>3, SeqsArePaths DEF Held
  <2>5. ASSUME NEW t2, p.filter => t2 = t, NEW n \in Neighbors(1, qu, p, t2) PROVE n.to = on.to
    <3>1. Held(qu, p, ToSet(QueueOf(p, t2)))
      BY <1>1, <2>3, <2>5
    <3>2. Shuffled(qu, p, t2) = {qu}
      BY <3>1, HeldIsKept
    <3>3. n = [to |-> Beside(1, Where(p.song, qu), qu), order |-> qu]
      BY <1>2, <2>5, <3>2 DEF Neighbors
    <3> QED
      BY <2>2, <3>3
  <2> QED
    BY <2>2, <2>4, <2>5
<1>3. CASE p.mode # "shuffle"
  <2>1. \A n, t2, o2 : n \in Neighbors(1, o2, p, t2) =>
          n = [to |-> Beside(1, Where(p.song, QueueOf(p, t2)), QueueOf(p, t2)), order |-> o2]
    BY <1>3 DEF Neighbors
  <2>2. on.order = o /\ on.to = Beside(1, Where(p.song, QueueOf(p, t)), QueueOf(p, t))
    BY <2>1
  <2>3. ASSUME NEW t2, p.filter => t2 = t, NEW n \in Neighbors(1, o, p, t2) PROVE n.to = on.to
    <3>1. QueueOf(p, t2) = QueueOf(p, t)
      BY <1>1, <2>3
    <3>2. n.to = Beside(1, Where(p.song, QueueOf(p, t2)), QueueOf(p, t2))
      BY <2>1, <2>3
    <3> QED
      BY <2>2, <3>1, <3>2
  <2> QED
    BY <2>2, <2>3
<1> QED
  BY <1>2, <1>3

LEMMA BackIsRead ==
  ASSUME NEW o, IsPath(o), NEW p, NEW t, NEW back \in Neighbors(-1, o, p, t)
  PROVE  IsPath(back.order)
<1>1. CASE p.mode # "shuffle"
  BY <1>1 DEF Neighbors
<1>2. CASE p.mode = "shuffle"
  <2>1. PICK qu \in Shuffled(o, p, t) :
          back \in IF Where(p.song, qu) = 1 THEN DealtBack(qu, p, t)
                   ELSE {[to |-> Beside(-1, Where(p.song, qu), qu), order |-> qu]}
    BY <1>2 DEF Neighbors
  <2>2. IsPath(qu)
    BY <2>1, ShuffledIsHeld, SeqsArePaths DEF Held
  <2>3. back.order = qu \/ \E s : back.order = <<s>> \o qu
    <3> DEFINE rest == ToSet(QueueOf(p, t)) \ {p.song}
               fresh == rest \ ToSet(qu)
               pool(side) == FirstOf(<<fresh \cap side, rest \cap side, fresh, rest>>)
    <3>1. DealtBack(qu, p, t) =
            IF rest = {} THEN {[to |-> Last(qu), order |-> qu]}
            ELSE UNION {{[to |-> s, order |-> <<s>> \o qu] : s \in pool(side)} : side \in Sides(p, t)}
      BY DEF DealtBack
    <3> HIDE DEF rest, pool
    <3>2. CASE rest = {} \/ Where(p.song, qu) # 1
      BY <2>1, <3>1, <3>2
    <3>3. CASE rest # {} /\ Where(p.song, qu) = 1
      <4>1. PICK side : back \in {[to |-> s, order |-> <<s>> \o qu] : s \in pool(side)}
        BY <2>1, <3>1, <3>3
      <4>2. PICK s : back = [to |-> s, order |-> <<s>> \o qu]
        BY <4>1
      <4> QED
        BY <4>2
    <3> QED
      BY <3>2, <3>3
  <2>4. \A s : IsPath(<<s>>)
    BY DEF IsPath, ToSet
  <2> QED
    BY <2>2, <2>3, <2>4, JoinIsPath
<1> QED
  BY <1>1, <1>2

\* What is read depends on this much of what is played.
Alike(p, p2) ==
  /\ p2.song = p.song /\ p2.mode = p.mode /\ p2.filter = p.filter /\ p2.tagging = p.tagging
  /\ p2.mix = p.mix

LEMMA AlikeReadAlike ==
  ASSUME NEW p, NEW p2, Alike(p, p2), NEW o, NEW t
  PROVE  Neighbors(1, o, p2, t) = Neighbors(1, o, p, t)
<1> USE DEF Alike
<1>1. QueueOf(p2, t) = QueueOf(p, t) /\ Sides(p2, t) = Sides(p, t)
  BY DEF QueueOf, Sides
<1>2. \A q, r : Dealt(q, r, p2, t) = Dealt(q, r, p, t)
  BY <1>1 DEF Dealt
<1>3. Shuffled(o, p2, t) = Shuffled(o, p, t)
  BY <1>1, <1>2 DEF Shuffled
<1> QED
  BY <1>1, <1>3 DEF Neighbors

\* The song peeked at is what is read as the next one, for as long as one is played.
Peeked ==
  play.where # "none" /\ ghost.peek # None =>
    \A t : (play.filter => t = tags) => \A n \in Neighbors(1, order, play, t) : n.to = ghost.peek

PInv ==
  /\ Timed /\ level \in BOOLEAN
  /\ DOMAIN ghost = {"peek", "went", "newest"}
  /\ IsPath(order)
  /\ ~(play.filter /\ play.tagging)
  /\ Peeked

LEMMA ReadPeeks ==
  ASSUME NEW o, IsPath(o), NEW p, NEW t, play' = p, tags' = t,
         NEW back \in Neighbors(-1, o, p, t), NEW on \in Neighbors(1, back.order, p, t),
         order' = on.order, ghost'.peek = on.to
  PROVE  IsPath(order') /\ Peeked'
<1>1. IsPath(back.order)
  BY BackIsRead
<1>2. /\ IsPath(on.order)
      /\ \A t2 : (p.filter => t2 = t) => \A n \in Neighbors(1, on.order, p, t2) : n.to = on.to
  BY <1>1, NextIsRead
<1> QED
  BY <1>2 DEF Peeked

\* What changes nothing that is read, or stops reading, keeps what was peeked at.
LEMMA PeekStays ==
  ASSUME PInv, Alike(play, play'), UNCHANGED <<order, ghost>>,
         play'.where # "none" => play.where # "none",
         play.filter => tags' = tags
  PROVE  Peeked'
<1>1. \A t : Neighbors(1, order, play', t) = Neighbors(1, order, play, t)
  BY AlikeReadAlike
<1>2. play'.filter = play.filter
  BY DEF Alike
<1> QED
  BY <1>1, <1>2 DEF PInv, Peeked

LEMMA StepPeeks ==
  ASSUME NEW way \in {"on", "back", "end"}, NEW fromHead, NEW t, NEW verdict, PInv,
         play.filter => t = tags, play.where # "none", Step(way, fromHead, t, verdict)
  PROVE  PInv' /\ (way # "back" /\ ghost.peek # None => play'.song = ghost.peek)
<1>1. PICK delta : delta = IF way = "back" THEN -1 ELSE 1
  OBVIOUS
<1>2. PICK next \in Neighbors(delta, order, play, t) :
        /\ play' = Loaded(play, next.to, TRUE)
           \/ play' = [Loaded(play, next.to, TRUE) EXCEPT !.head = next.to]
        /\ UNCHANGED level
        /\ \E back \in Neighbors(-1, next.order, play', verdict) :
             \E on \in Neighbors(1, back.order, play', verdict) :
               /\ order' = on.order
               /\ ghost'.peek = on.to /\ DOMAIN ghost' = {"peek", "went", "newest"}
  <2>1. PICK next \in Neighbors(IF way = "back" THEN -1 ELSE 1, order, play, t) :
          /\ play' = IF (IF way = "back" THEN -1 ELSE 1) = 1 /\ fromHead
                       THEN [Loaded(play, next.to, TRUE) EXCEPT !.head = next.to]
                       ELSE Loaded(play, next.to, TRUE)
          /\ UNCHANGED level
          /\ \E back \in Neighbors(-1, next.order, play', verdict) :
               \E on \in Neighbors(1, back.order, play', verdict) :
                 /\ order' = on.order
                 /\ ghost' = [peek |-> on.to, went |-> way,
                              newest |-> IF (IF way = "back" THEN -1 ELSE 1) = 1 /\ play.song = ghost.newest
                                           THEN next.to ELSE ghost.newest]
    BY DEF Step
  <2>2. \A on, newest : ghost' = [peek |-> on.to, went |-> way, newest |-> newest] =>
          ghost'.peek = on.to /\ DOMAIN ghost' = {"peek", "went", "newest"}
    OBVIOUS
  <2>3. next \in Neighbors(delta, order, play, t)
    BY <1>1, <2>1
  <2>4. \E back \in Neighbors(-1, next.order, play', verdict) :
          \E on \in Neighbors(1, back.order, play', verdict) :
            /\ order' = on.order
            /\ ghost'.peek = on.to /\ DOMAIN ghost' = {"peek", "went", "newest"}
    BY <2>1, <2>2
  <2> QED
    BY <2>1, <2>3, <2>4
<1>3. Timed' /\ tags' = verdict
  BY StepIsTimed DEF PInv
<1>4. /\ play'.song = next.to /\ play'.filter = play.filter /\ play'.tagging = play.tagging
  <2>1. PICK q : q = Loaded(play, next.to, TRUE)
    OBVIOUS
  <2>2. q.song = next.to /\ q.filter = play.filter /\ q.tagging = play.tagging /\ DOMAIN q = DOMAIN play
    BY <2>1 DEF Loaded, PInv, Timed, IsPlay
  <2>3. play' = q \/ play' = [q EXCEPT !.head = next.to]
    BY <1>2, <2>1
  <2> QED
    BY <2>2, <2>3 DEF PInv, Timed, IsPlay
<1>5. IsPath(next.order)
  BY <1>1, <1>2, NextIsRead, BackIsRead DEF PInv
<1>6. IsPath(order') /\ Peeked' /\ DOMAIN ghost' = {"peek", "went", "newest"}
  <2>1. PICK p : p = play'
    OBVIOUS
  <2>2. PICK back \in Neighbors(-1, next.order, p, verdict) :
          \E on \in Neighbors(1, back.order, p, verdict) :
            /\ order' = on.order
            /\ ghost'.peek = on.to /\ DOMAIN ghost' = {"peek", "went", "newest"}
    BY <1>2, <2>1
  <2>3. PICK on \in Neighbors(1, back.order, p, verdict) :
          /\ order' = on.order
          /\ ghost'.peek = on.to /\ DOMAIN ghost' = {"peek", "went", "newest"}
    BY <2>2
  <2> QED
    BY <1>3, <1>5, <2>1, <2>2, <2>3, ReadPeeks
<1>7. way # "back" /\ ghost.peek # None => play'.song = ghost.peek
  BY <1>1, <1>2, <1>4 DEF PInv, Peeked
<1> QED
  BY <1>2, <1>3, <1>4, <1>6, <1>7 DEF PInv

LEMMA SettledFiltered ==
  ASSUME PInv, play.filter, NEW finished, NEW keepOnly PROVE Settled(finished, keepOnly) = tags
BY DEF PInv, Settled, Due

\* What a step of the player does to the song peeked at.
Follows ==
  PInv' /\ (play'.token # play.token /\ level' = level /\ ghost'.went \in {"on", "end"}
              /\ ghost.peek # None => play'.song = ghost.peek)

LEMMA OpenPeeks == ASSUME NEW s, PInv, OpenSong(s) PROVE Follows
<1>1. Timed'
  BY OpenIsTimed DEF PInv
<1>2. PICK there : there = [play EXCEPT !.where = "viewer"]
  OBVIOUS
<1>3. /\ DOMAIN there = DOMAIN play /\ there.token = play.token /\ IsPlay(there)
      /\ there.filter = play.filter /\ there.tagging = play.tagging
  BY <1>2 DEF PInv, Timed, IsPlay
<1>4. CASE play.where = "bar" /\ play.song = s
  <2>1. play' = there /\ UNCHANGED <<tags, level>> /\ ReadNeighbors(order, there, tags)
    BY <1>2, <1>4 DEF OpenSong, tagsVars
  <2>2. PICK back \in Neighbors(-1, order, there, tags) : \E on \in Neighbors(1, back.order, there, tags) :
          order' = on.order /\ ghost' = [ghost EXCEPT !.peek = on.to]
    BY <2>1 DEF ReadNeighbors
  <2>3. PICK on \in Neighbors(1, back.order, there, tags) :
          order' = on.order /\ ghost' = [ghost EXCEPT !.peek = on.to]
    BY <2>2
  <2>4. ghost'.peek = on.to /\ DOMAIN ghost' = DOMAIN ghost
    BY <2>3 DEF PInv
  <2>5. IsPath(order') /\ Peeked'
    BY <2>1, <2>2, <2>3, <2>4, ReadPeeks DEF PInv
  <2> QED
    BY <1>1, <1>3, <2>1, <2>4, <2>5 DEF PInv, Follows
<1>5. CASE ~(play.where = "bar" /\ play.song = s)
  <2>1. PICK p, o : /\ p = IF play.where = "bar" THEN SessionEnded(there) ELSE there
                    /\ o = IF play.where = "bar" THEN << >> ELSE order
    OBVIOUS
  <2>2. /\ play' = Loaded(p, s, FALSE) /\ UNCHANGED level
        /\ \E back \in Neighbors(-1, o, play', tags') : \E on \in Neighbors(1, back.order, play', tags') :
             order' = on.order /\ ghost' = [peek |-> on.to, went |-> None, newest |-> s]
    BY <1>2, <1>5, <2>1 DEF OpenSong
  <2>3. IsPath(o)
    BY <2>1, EmptyIsPath DEF PInv
  <2>4. IsPlay(p) /\ ~(p.filter /\ p.tagging)
    BY <1>3, <2>1 DEF PInv, SessionEnded, IsPlay
  <2>5. ~(play'.filter /\ play'.tagging)
    BY <2>2, <2>4 DEF Loaded, IsPlay
  <2>6. PICK q, t : q = play' /\ t = tags'
    OBVIOUS
  <2>7. PICK back \in Neighbors(-1, o, q, t) : \E on \in Neighbors(1, back.order, q, t) :
          order' = on.order /\ ghost' = [peek |-> on.to, went |-> None, newest |-> s]
    BY <2>2, <2>6
  <2>8. PICK on \in Neighbors(1, back.order, q, t) :
          order' = on.order /\ ghost' = [peek |-> on.to, went |-> None, newest |-> s]
    BY <2>7
  <2>9. ghost'.peek = on.to /\ ghost'.went = None /\ DOMAIN ghost' = {"peek", "went", "newest"}
    BY <2>8
  <2>10. IsPath(order') /\ Peeked'
    BY <2>3, <2>6, <2>7, <2>8, <2>9, ReadPeeks
  <2> QED
    BY <1>1, <2>2, <2>5, <2>9, <2>10, PlayerAssumption DEF PInv, Follows
<1> QED
  BY <1>4, <1>5

LEMMA ArrangePeeks ==
  ASSUME NEW p, NEW o, PInv, Arrange(p, o), IsPath(o), IsPlay(p), p.pos = play.pos, p.token = play.token,
         ~(p.filter /\ p.tagging)
  PROVE  Follows
<1>1. play' = p /\ tags' = tags /\ level' = level /\ ReadNeighbors(o, p, tags)
  BY DEF Arrange, tagsVars
<1>2. PICK back \in Neighbors(-1, o, p, tags) : \E on \in Neighbors(1, back.order, p, tags) :
        order' = on.order /\ ghost' = [ghost EXCEPT !.peek = on.to]
  BY <1>1 DEF ReadNeighbors
<1>3. PICK on \in Neighbors(1, back.order, p, tags) :
        order' = on.order /\ ghost' = [ghost EXCEPT !.peek = on.to]
  BY <1>2
<1>4. ghost'.peek = on.to /\ DOMAIN ghost' = DOMAIN ghost
  BY <1>3 DEF PInv
<1>5. IsPath(order') /\ Peeked'
  BY <1>1, <1>2, <1>3, <1>4, ReadPeeks
<1> QED
  BY <1>1, <1>4, <1>5 DEF PInv, Follows, Timed

LEMMA ButtonsPeek ==
  ASSUME PInv, ChangeMode \/ ChangeTagging \/ ChangeFilter \/ \E on \in BOOLEAN : ApplyMix(on)
  PROVE  Follows
<1>1. IsPath(<< >>) /\ IsPath(order)
  BY DEF IsPath, PInv
<1>2. CASE ChangeMode
  <2>1. PICK p : p = [play EXCEPT !.mode = NextMode[@]]
    OBVIOUS
  <2>2. IsPlay(p) /\ p.pos = play.pos /\ p.token = play.token /\ ~(p.filter /\ p.tagging)
    BY <2>1 DEF PInv, Timed, IsPlay
  <2> QED
    BY <1>1, <1>2, <2>1, <2>2, ArrangePeeks DEF ChangeMode
<1>3. CASE ChangeTagging
  <2>1. PICK p : p = [play EXCEPT !.tagging = ~@, !.filter = @ /\ play.tagging]
    OBVIOUS
  <2>2. IsPlay(p) /\ p.pos = play.pos /\ p.token = play.token /\ ~(p.filter /\ p.tagging)
    BY <2>1 DEF PInv, Timed, IsPlay
  <2> QED
    BY <1>1, <1>3, <2>1, <2>2, ArrangePeeks DEF ChangeTagging
<1>4. CASE ChangeFilter
  <2>1. PICK p : p = [play EXCEPT !.filter = ~@, !.tagging = @ /\ play.filter]
    OBVIOUS
  <2>2. IsPlay(p) /\ p.pos = play.pos /\ p.token = play.token /\ ~(p.filter /\ p.tagging)
    BY <2>1 DEF PInv, Timed, IsPlay
  <2> QED
    BY <1>1, <1>4, <2>1, <2>2, ArrangePeeks DEF ChangeFilter
<1>5. ASSUME NEW on \in BOOLEAN, ApplyMix(on) PROVE Follows
  <2>1. PICK p : p = [play EXCEPT !.mix = on, !.mode = IF on THEN "shuffle" ELSE @]
    OBVIOUS
  <2>2. IsPlay(p) /\ p.pos = play.pos /\ p.token = play.token /\ ~(p.filter /\ p.tagging)
    BY <2>1 DEF PInv, Timed, IsPlay
  <2> QED
    BY <1>1, <1>5, <2>1, <2>2, ArrangePeeks DEF ApplyMix
<1> QED
  BY <1>2, <1>3, <1>4, <1>5

LEMMA HandTagPeeks == ASSUME NEW s, PInv, HandTag(s) PROVE Follows
<1>1. Timed' /\ level' = level
  BY DEF HandTag, PInv, Timed, IsPlay
<1>2. /\ play'.token = play.token /\ play'.filter = play.filter /\ play'.tagging = play.tagging
      /\ play'.where = play.where
  BY DEF HandTag, PInv, Timed, IsPlay
<1>3. CASE play.where = "viewer"
  <2>1. PICK p, t : p = play' /\ t = tags'
    OBVIOUS
  <2>2. PICK back \in Neighbors(-1, order, p, t) : \E on \in Neighbors(1, back.order, p, t) :
          order' = on.order /\ ghost' = [ghost EXCEPT !.peek = on.to]
    BY <1>3, <2>1 DEF HandTag, ReadNeighbors
  <2>3. PICK on \in Neighbors(1, back.order, p, t) :
          order' = on.order /\ ghost' = [ghost EXCEPT !.peek = on.to]
    BY <2>2
  <2>4. ghost'.peek = on.to /\ DOMAIN ghost' = DOMAIN ghost
    BY <2>3 DEF PInv
  <2>5. IsPath(order') /\ Peeked'
    BY <2>1, <2>2, <2>3, <2>4, ReadPeeks DEF PInv
  <2> QED
    BY <1>1, <1>2, <2>4, <2>5 DEF PInv, Follows
<1>4. CASE play.where # "viewer"
  <2>1. order' = order /\ ghost' = [ghost EXCEPT !.peek = None]
    BY <1>4 DEF HandTag
  <2>2. ghost'.peek = None /\ DOMAIN ghost' = DOMAIN ghost
    BY <2>1 DEF PInv
  <2> QED
    BY <1>1, <1>2, <2>1, <2>2 DEF PInv, Follows, Peeked
<1> QED
  BY <1>3, <1>4

LEMMA LeavePeeks == ASSUME NEW playing \in BOOLEAN, PInv, LeaveSong(playing) PROVE Follows
<1>1. Timed' /\ level' = level /\ ghost' = ghost
  BY LeaveIsTimed DEF PInv, LeaveSong
<1>2. CASE playing
  <2>1. play' = [play EXCEPT !.where = "bar"] /\ tags' = tags /\ order' = order
    BY <1>2 DEF LeaveSong, tagsVars
  <2>2. Alike(play, play') /\ play'.token = play.token
    BY <2>1 DEF Alike, PInv, Timed, IsPlay
  <2>3. play.where # "none"
    BY DEF LeaveSong
  <2>4. Peeked'
    BY <1>1, <2>1, <2>2, <2>3, PeekStays
  <2> QED
    BY <1>1, <2>1, <2>2, <2>4 DEF PInv, Follows, Alike
<1>3. CASE ~playing
  <2>1. /\ play' = [SessionEnded(play) EXCEPT !.where = "none", !.track = None]
        /\ order' = << >>
    BY <1>3 DEF LeaveSong
  <2>2. play'.where = "none" /\ play'.token = play.token /\ ~(play'.filter /\ play'.tagging)
    BY <2>1 DEF SessionEnded, PInv, Timed, IsPlay
  <2>3. IsPath(order')
    BY <2>1 DEF IsPath
  <2> QED
    BY <1>1, <2>2, <2>3 DEF PInv, Follows, Peeked
<1> QED
  BY <1>2, <1>3

LEMMA EndPeeks == ASSUME PInv, SongEnds PROVE Follows
<1>1. play.filter => Settled(TRUE, FALSE) = tags
  BY SettledFiltered
<1>2. CASE play.mode # "off"
  BY <1>1, <1>2, StepPeeks DEF SongEnds, Follows
<1>3. CASE play.mode = "off"
  <2>1. /\ play' = [play EXCEPT !.track = None] /\ SetTags(Settled(TRUE, FALSE))
        /\ UNCHANGED <<order, level, ghost>> /\ play.where # "none"
    BY <1>3 DEF SongEnds
  <2>2. Alike(play, play') /\ play'.token = play.token /\ Timed'
    BY <2>1 DEF Alike, PInv, Timed, IsPlay
  <2>3. play.filter => tags' = tags
    BY <1>1, <2>1, TagsSet
  <2>4. Peeked'
    BY <2>1, <2>2, <2>3, PeekStays
  <2> QED
    BY <2>1, <2>2, <2>4 DEF PInv, Follows, Alike
<1> QED
  BY <1>2, <1>3

LEMMA LevelsPeek == ASSUME PInv, LevelSongs \/ PlaysOn PROVE Follows
<1>1. ASSUME UNCHANGED <<tags, order, ghost>>, Timed', Alike(play, play'), play'.where = play.where,
             level' \in BOOLEAN, play'.token = play.token \/ level' # level
      PROVE  Follows
  <2>1. Peeked'
    BY <1>1, PeekStays
  <2> QED
    BY <1>1, <2>1 DEF PInv, Follows, Alike
<1>2. CASE \E s \in Song : WarmGain(s)
  BY <1>1, <1>2 DEF WarmGain, tagsVars, PInv, Timed, Alike
<1>3. ASSUME NEW s, NEW ok \in BOOLEAN, LandGain(s, ok) PROVE Follows
  <2>1. UNCHANGED <<tags, order, ghost, level>>
    BY <1>3 DEF LandGain, tagsVars
  <2>2. play' = play \/ play' = [play EXCEPT !.gain = IF ok THEN s ELSE None]
    BY <1>3 DEF LandGain
  <2>3. Timed' /\ Alike(play, play') /\ play'.where = play.where /\ play'.token = play.token
    BY <2>2 DEF PInv, Timed, IsPlay, Alike
  <2> QED
    BY <1>1, <2>1, <2>3 DEF PInv
<1>4. CASE ToggleLevel
  <2>1. UNCHANGED <<tags, order, ghost>> /\ level' \in BOOLEAN /\ level' # level
    BY <1>4 DEF ToggleLevel, tagsVars, PInv
  <2>2. Timed' /\ Alike(play, play') /\ play'.where = play.where
    BY <1>4 DEF ToggleLevel, PInv, Timed, IsPlay, Alike
  <2> QED
    BY <1>1, <2>1, <2>2
<1>5. CASE PlaysOn
  <2>1. UNCHANGED <<tags, order, ghost, level>>
    BY <1>5 DEF PlaysOn, tagsVars
  <2>2. Timed' /\ Alike(play, play') /\ play'.where = play.where /\ play'.token = play.token
    BY <1>5 DEF PlaysOn, PInv, Timed, IsPlay, Alike
  <2> QED
    BY <1>1, <2>1, <2>2 DEF PInv
<1> QED
  BY <1>2, <1>3, <1>4, <1>5 DEF LevelSongs

LEMMA TagsPeek == ASSUME PInv, TagsMove PROVE Follows
<1>1. UNCHANGED <<play, order, level>> /\ Timed'
  BY DEF TagsMove, PInv, Timed
<1>2. CASE tags' = tags
  <2>1. ghost' = ghost
    BY <1>2 DEF TagsMove
  <2> QED
    BY <1>1, <1>2, <2>1 DEF PInv, Follows, Peeked
<1>3. CASE tags' # tags
  <2>1. ghost' = [ghost EXCEPT !.peek = None]
    BY <1>3 DEF TagsMove
  <2>2. ghost'.peek = None /\ DOMAIN ghost' = DOMAIN ghost
    BY <2>1 DEF PInv
  <2> QED
    BY <1>1, <2>2 DEF PInv, Follows, Peeked
<1> QED
  BY <1>2, <1>3

\* What is shown as next is what comes next: a read is kept, whatever is read or skipped to since.
THEOREM PeekedIsNext == PageSpec => NextIsTheOnePeeked
<1> DEFINE Comes == play'.token # play.token /\ level' = level /\ ghost'.went \in {"on", "end"}
                      /\ ghost.peek # None => play'.song = ghost.peek
<1>1. Init => PInv
  <2> SUFFICES ASSUME PlayerInit PROVE PInv
    BY DEF Init
  <2>1. Timed /\ play.where = "none" /\ ~play.filter
    BY DEF PlayerInit, Timed, IsPlay
  <2>2. level \in BOOLEAN /\ DOMAIN ghost = {"peek", "went", "newest"} /\ order = << >>
    BY DEF PlayerInit
  <2> QED
    BY <2>1, <2>2, EmptyIsPath DEF PInv, Peeked
<1>2. ASSUME PInv, [Next]_pageVars PROVE PInv' /\ [Comes]_<<play, ghost>>
  <2>1. CASE Listen \/ Autotag \/ LevelSongs \/ TagsMove
    <3>1. ASSUME NEW way \in {"on", "back"}, Skip(way) PROVE Follows
      <4>1. PICK fromHead : Step(way, fromHead, tags, Settled(FALSE, way = "back"))
        BY <3>1 DEF Skip
      <4>2. play.where # "none"
        BY <3>1 DEF Skip
      <4>3. PICK verdict : verdict = Settled(FALSE, way = "back")
        OBVIOUS
      <4>4. Step(way, fromHead, tags, verdict)
        BY <4>1, <4>3
      <4>5. PInv' /\ (way # "back" /\ ghost.peek # None => play'.song = ghost.peek)
        BY <1>2, <4>2, <4>4, StepPeeks
      <4>6. ghost'.went = way
        BY <1>2, <4>4, StepIsTimed DEF PInv
      <4> QED
        BY <4>5, <4>6 DEF Follows
    <3>2. Follows
      BY <2>1, <1>2, <3>1, OpenPeeks, LeavePeeks, EndPeeks, ButtonsPeek, LevelsPeek, HandTagPeeks, TagsPeek
      DEF Listen, Autotag
    <3> QED
      BY <3>2 DEF Follows
  <2>2. CASE UNCHANGED <<play, order, level, ghost>> /\ (play.where = "none" \/ UNCHANGED tags)
    BY <1>2, <2>2 DEF PInv, Timed, Peeked
  <2> QED
    BY <1>2, <2>1, <2>2 DEF Next, InBrowser, InEditor, InViewer, InDialog, WithSongs, InTransfer, pageVars,
                        songVars, tagsVars, playerVars
<1> HIDE DEF Comes
<1>3. PageSpec => [][Comes]_<<play, ghost>>
  BY <1>1, <1>2, PTL DEF PageSpec
<1> QED
  BY <1>3, PTL DEF NextIsTheOnePeeked, Comes
----------------------------------------------------------------------------
(* Transfers: the originals *)

\* What is inside a vault or a bucket.
Veiled(p) == \E v \in Nested : IsPrefix(v, p)

LEMMA PrefixOfPath ==
  ASSUME NEW p, NEW q, IsPath(p), IsPath(q)
  PROVE  IsPrefix(p, q) <=> Len(p) <= Len(q) /\ \A i \in 1 .. Len(p) : p[i] = q[i]
<1> DEFINE S == ToSet(p) \cup ToSet(q)
<1>1. p \in Seq(S) /\ q \in Seq(S)
  BY DEF IsPath
<1> HIDE DEF S
<1>2. SubSeq(p, 1, Len(p)) = p
  BY <1>1
<1>3. ASSUME Len(p) <= Len(q)
      PROVE  p = SubSeq(q, 1, Len(p)) <=> \A i \in 1 .. Len(p) : p[i] = q[i]
  BY <1>1, <1>3
<1> QED
  BY <1>2, <1>3 DEF IsPrefix

LEMMA PathSize == ASSUME NEW p, IsPath(p) PROVE Len(p) \in Nat
BY DEF IsPath

LEMMA PathsEqual ==
  ASSUME NEW p, NEW q, IsPath(p), IsPath(q), Len(p) = Len(q), \A i \in 1 .. Len(p) : p[i] = q[i]
  PROVE  p = q
<1> DEFINE S == ToSet(p) \cup ToSet(q)
<1>1. p \in Seq(S) /\ q \in Seq(S)
  BY DEF IsPath
<1> HIDE DEF S
<1> QED
  BY <1>1

LEMMA CutPath ==
  ASSUME NEW p, IsPath(p), NEW k \in 0 .. Len(p)
  PROVE  /\ IsPath(SubSeq(p, 1, k)) /\ Len(SubSeq(p, 1, k)) = k
         /\ \A i \in 1 .. k : SubSeq(p, 1, k)[i] = p[i]
<1> DEFINE S == ToSet(p)
<1>1. p \in Seq(S)
  BY DEF IsPath
<1> HIDE DEF S
<1>2. SubSeq(p, 1, k) \in Seq(S) /\ Len(SubSeq(p, 1, k)) = k /\ \A i \in 1 .. k : SubSeq(p, 1, k)[i] = p[i]
  BY <1>1
<1> QED
  BY <1>2, SeqsArePaths

LEMMA LongerPath ==
  ASSUME NEW p, IsPath(p), NEW n
  PROVE  /\ IsPath(Append(p, n)) /\ Len(Append(p, n)) = Len(p) + 1 /\ Append(p, n)[Len(p) + 1] = n
         /\ \A i \in 1 .. Len(p) : Append(p, n)[i] = p[i]
<1> DEFINE S == ToSet(p) \cup {n}
<1>1. p \in Seq(S) /\ n \in S
  BY DEF IsPath
<1> HIDE DEF S
<1>2. /\ Append(p, n) \in Seq(S) /\ Len(Append(p, n)) = Len(p) + 1 /\ Append(p, n)[Len(p) + 1] = n
      /\ \A i \in 1 .. Len(p) : Append(p, n)[i] = p[i]
  BY <1>1
<1>3. IsPath(Append(p, n))
  BY <1>2, SeqsArePaths
<1> QED
  BY <1>2, <1>3

LEMMA PrefixesChain ==
  ASSUME NEW p, NEW q, NEW r, IsPath(p), IsPath(q), IsPath(r), IsPrefix(p, q), IsPrefix(q, r)
  PROVE  IsPrefix(p, r)
BY PrefixOfPath, PathSize

LEMMA CutIsPrefix ==
  ASSUME NEW p, IsPath(p), NEW k \in 0 .. Len(p)
  PROVE  IsPrefix(SubSeq(p, 1, k), p)
<1>1. /\ IsPath(SubSeq(p, 1, k)) /\ Len(SubSeq(p, 1, k)) = k
      /\ \A i \in 1 .. k : SubSeq(p, 1, k)[i] = p[i]
  BY CutPath
<1>2. k \in Nat /\ k <= Len(p)
  BY PathSize
<1> QED
  BY <1>1, <1>2, PrefixOfPath

LEMMA VeilCovers ==
  ASSUME NEW p, NEW q, IsPath(p), IsPath(q), IsPrefix(p, q), Veiled(p)
  PROVE  Veiled(q)
<1>1. PICK v \in Nested : IsPrefix(v, p)
  BY DEF Veiled
<1> QED
  BY <1>1, TransferAssumption, PrefixesChain DEF Veiled

LEMMA CutOfLonger ==
  ASSUME NEW p, IsPath(p), NEW n, NEW k \in 1 .. Len(p)
  PROVE  SubSeq(Append(p, n), 1, k) = SubSeq(p, 1, k)
<1>1. Len(p) \in Nat /\ k \in 0 .. Len(p) /\ k \in 0 .. Len(Append(p, n)) /\ IsPath(Append(p, n))
  BY PathSize, LongerPath
<1>2. \A i \in 1 .. k : SubSeq(Append(p, n), 1, k)[i] = SubSeq(p, 1, k)[i]
  BY <1>1, CutPath, LongerPath
<1> QED
  BY <1>1, <1>2, CutPath, PathsEqual

\* The tree: each path in folders that are there, what is inside vaults and buckets aside.
Folded(p) == \A k \in 1 .. Len(p) - 1 : SubSeq(p, 1, k) \in tree.dirs
Grown ==
  /\ \A p \in tree.dirs \cup tree.files : IsPath(p) /\ (Veiled(p) \/ Folded(p))
  /\ tree.dirs \cap tree.files = {}
  /\ IsFiniteSet(tree.dirs \cup tree.files)
  /\ shown \in tree.dirs

LEMMA FoldedInFolder ==
  ASSUME Grown, NEW d, IsPath(d), NEW n, d \in tree.dirs \/ Veiled(d)
  PROVE  Veiled(Append(d, n)) \/ Folded(Append(d, n))
<1>1. /\ IsPath(Append(d, n)) /\ Len(Append(d, n)) = Len(d) + 1 /\ Len(d) \in Nat
      /\ \A i \in 1 .. Len(d) : Append(d, n)[i] = d[i]
  BY LongerPath, PathSize
<1>4. IsPrefix(d, Append(d, n))
  <2>1. PICK q : q = Append(d, n)
    OBVIOUS
  <2>2. IsPath(q) /\ Len(d) <= Len(q) /\ \A i \in 1 .. Len(d) : d[i] = q[i]
    BY <1>1, <2>1
  <2> QED
    BY <2>1, <2>2, PrefixOfPath
<1>2. CASE Veiled(d)
  BY <1>1, <1>2, <1>4, VeilCovers
<1>3. CASE d \in tree.dirs /\ Folded(d)
  <2>1. ASSUME NEW k \in 1 .. Len(d) PROVE SubSeq(Append(d, n), 1, k) \in tree.dirs
    <3>1. CASE k = Len(d)
      <4>1. SubSeq(d, 1, Len(d)) = d
        <5>1. Len(d) \in 0 .. Len(d)
          BY <1>1
        <5> QED
          BY <1>1, <5>1, CutPath, PathsEqual
      <4> QED
        BY <1>3, <3>1, <4>1, CutOfLonger
    <3>2. CASE k # Len(d)
      <4>1. k \in 1 .. Len(d) - 1
        BY <1>1, <3>2
      <4> QED
        BY <1>3, <4>1, CutOfLonger DEF Folded
    <3> QED
      BY <3>1, <3>2
  <2> QED
    BY <1>1, <2>1 DEF Folded
<1> QED
  BY <1>2, <1>3 DEF Grown

LEMMA GrowsBy ==
  ASSUME Grown, NEW d, IsPath(d), NEW n, d \in tree.dirs \/ Veiled(d),
         Append(d, n) \notin tree.dirs \cup tree.files,
         \/ tree'.dirs = tree.dirs \cup {Append(d, n)} /\ tree'.files = tree.files
         \/ tree'.files = tree.files \cup {Append(d, n)} /\ tree'.dirs = tree.dirs,
         UNCHANGED shown
  PROVE  Grown'
<1>1. tree'.dirs \cup tree'.files = (tree.dirs \cup tree.files) \cup {Append(d, n)}
  OBVIOUS
<1>2. IsFiniteSet(tree'.dirs \cup tree'.files)
  BY <1>1, FS_AddElement DEF Grown
<1>3. ASSUME NEW p, Folded(p) PROVE Folded(p)'
  BY <1>3 DEF Folded
<1>4. \A p \in tree'.dirs \cup tree'.files : IsPath(p) /\ (Veiled(p) \/ Folded(p)')
  <2>1. IsPath(Append(d, n))
    BY LongerPath
  <2> QED
    BY <1>1, <1>3, <2>1, FoldedInFolder DEF Grown
<1> QED
  BY <1>2, <1>4 DEF Grown, Veiled

LEMMA ShrinksBy ==
  ASSUME Grown, NEW path, IsPath(path), ~IsPrefix(path, shown), UNCHANGED shown,
         tree' = [dirs  |-> {d \in tree.dirs : ~IsPrefix(path, d)},
                  files |-> tree.files \ {p \in tree.files : IsPrefix(path, p)}]
  PROVE  Grown'
<1>1. /\ tree'.dirs \subseteq tree.dirs /\ tree'.files \subseteq tree.files
      /\ \A p \in tree'.dirs \cup tree'.files : ~IsPrefix(path, p)
  OBVIOUS
<1>2. IsFiniteSet(tree'.dirs \cup tree'.files)
  <2>1. tree'.dirs \cup tree'.files \in SUBSET (tree.dirs \cup tree.files)
    BY <1>1
  <2> QED
    BY <2>1, FS_Subset DEF Grown
<1>3. ASSUME NEW p \in tree'.dirs \cup tree'.files, Folded(p), IsPath(p) PROVE Folded(p)'
  <2>1. ASSUME NEW k \in 1 .. Len(p) - 1 PROVE SubSeq(p, 1, k) \in tree'.dirs
    <3>1. k \in 0 .. Len(p) /\ SubSeq(p, 1, k) \in tree.dirs
      BY <1>3, PathSize DEF Folded
    <3>2. IsPath(SubSeq(p, 1, k)) /\ IsPrefix(SubSeq(p, 1, k), p)
      BY <1>3, <3>1, CutPath, CutIsPrefix
    <3>3. ~IsPrefix(path, SubSeq(p, 1, k))
      BY <1>1, <1>3, <3>2, PrefixesChain
    <3> QED
      BY <3>1, <3>3
  <2> QED
    BY <2>1 DEF Folded
<1> QED
  BY <1>1, <1>2, <1>3 DEF Grown, Veiled

\* What an import owes: the files there when their folder was scanned, inside the chosen entries.
RootOf(p) == p[Len(shown) + 1]
Beneath(p) == IsPrefix(shown, p) /\ Len(p) > Len(shown)
Concerned(j) == {p \in tree.files \ went.late : Beneath(p) /\ RootOf(p) \in j.roots /\ ~Veiled(p)}
FoundIn(j) == {f.path : f \in ToSet(j.files)}

\* What was found is known by the chosen entry it comes from.
Rooted(j) ==
  \A f \in ToSet(j.files) : IsPath(f.path) /\ Beneath(f.path) /\ ImportRootOf(f) = RootOf(f.path)

\* During the scan such a file is found, chosen itself, or inside a folder still to be listed.
Reached(j, p) ==
  \/ RootOf(p) \in ToSet(j.dirRoots)
  \/ \E e \in ToSet(j.stack) : IsPrefix(e.at, p)
  \/ p \in FoundIn(j)
  \/ p = Append(shown, RootOf(p)) /\ <<RootOf(p)>> \notin ToSet(j.dirs)

Listing(e) ==
  IsPath(e.at) /\ IsPath(e.rel) /\ Beneath(e.at) /\ e.rel # << >> /\ e.rel[1] = RootOf(e.at)
Scanning(j) ==
  /\ \A e \in ToSet(j.stack) : Listing(e)
  /\ \A p \in Concerned(j) : Reached(j, p)
\* Then it is to be sent, sent, or its chosen entry broken.
Carrying(j) ==
  \A p \in Concerned(j) :
    p \in FoundIn(j) \cup went.sealed \/ (j.stage = "files" /\ RootOf(p) \in j.broken)
\* At last it is sent if its chosen entry is to be deleted.
Deleting(j) ==
  /\ IsPath(j.todo) /\ ToSet(j.todo) \subseteq j.roots
  /\ \A p \in Concerned(j) : RootOf(p) \in ToSet(j.todo) => p \in went.sealed

Imported(j) ==
  /\ j.stage \in {"scan", "dirs", "files"} => Rooted(j)
  /\ j.stage = "scan" => Scanning(j)
  /\ j.stage \in {"dirs", "files"} => Carrying(j)
  /\ j.stage = "delete" => Deleting(j)

\* The lists are sequences.
Lists(j) == IsPath(j.stack) /\ IsPath(j.dirs) /\ IsPath(j.files) /\ IsPath(j.dirRoots)

\* An upload makes its folders in ones that are there; an import in the vault.
Housed(j) ==
  /\ j.stage \in {"scan", "dirs", "files", "delete"} /\ j.kind \in {"upload", "move", "copy"}
  /\ j.stage = "scan" => j.kind # "upload"
  /\ j.stage = "delete" => j.kind = "move"
  /\ IF j.kind = "upload" THEN \A r \in DOMAIN j.real : j.dest \o j.real[r] \in tree.dirs
     ELSE j.dest = Into /\ IsFiniteSet(j.roots) /\ Lists(j)

OInv ==
  /\ DOMAIN went = {"sealed", "trashed", "late", "walked"}
  /\ Grown
  /\ job # None => Housed(job) /\ (job.kind # "upload" /\ ~went.walked => Imported(job))
  /\ OriginalsGoOnlyWhenImported

LEMMA ImageIsFinite ==
  ASSUME NEW S, IsFiniteSet(S), NEW f, f = [x \in S |-> f[x]]
  PROVE  IsFiniteSet({f[x] : x \in S})
<1> DEFINE T == {f[x] : x \in S}
<1>1. f \in Surjection(S, T)
  BY DEF Surjection
<1> QED
  BY <1>1, FS_Surjection

LEMMA ListsAll ==
  ASSUME NEW S, IsFiniteSet(S)
  PROVE  IsPath(SetToSeq(S)) /\ ToSet(SetToSeq(S)) = S
<1> DEFINE n == Cardinality(S)
<1>1. n \in Nat /\ ExistsBijection(1 .. n, S)
  BY FS_CardinalityType
<1>2. PICK f : f \in [1 .. n -> S] /\ IsInjective(f)
  BY <1>1 DEF ExistsBijection, Bijection, Injection
<1>3. SetToSeq(S) \in [1 .. n -> S] /\ IsInjective(SetToSeq(S))
  BY <1>2 DEF SetToSeq
<1>4. PICK g : g = SetToSeq(S)
  OBVIOUS
<1>5. g \in Injection(1 .. n, S) /\ Cardinality(1 .. n) = n
  <2>1. IsFiniteSet(1 .. n) /\ Cardinality(1 .. n) = n
    BY <1>1, FS_Interval
  <2> QED
    BY <1>3, <1>4, <2>1 DEF Injection
<1>6. g \in Surjection(1 .. n, S)
  BY <1>5, FS_Injection
<1> HIDE DEF n
<1>7. g \in Seq(S) /\ DOMAIN g = 1 .. n
  BY <1>1, <1>3, <1>4
<1>8. ToSet(g) = S
  BY <1>3, <1>4, <1>6, <1>7 DEF ToSet, Surjection
<1> QED
  BY <1>4, <1>7, <1>8, SeqsArePaths

LEMMA ListsJoin ==
  ASSUME NEW s, NEW t, IsPath(s), IsPath(t)
  PROVE  IsPath(s \o t) /\ ToSet(s \o t) = ToSet(s) \cup ToSet(t)
<1> DEFINE S == ToSet(s) \cup ToSet(t)
<1>1. s \in Seq(S) /\ t \in Seq(S)
  BY DEF IsPath
<1> HIDE DEF S
<1>2. s \o t \in Seq(S) /\ Len(s \o t) = Len(s) + Len(t) /\ Len(s) \in Nat /\ Len(t) \in Nat
  BY <1>1
<1>3. /\ \A i \in 1 .. Len(s) : (s \o t)[i] = s[i]
      /\ \A i \in 1 .. Len(t) : (s \o t)[Len(s) + i] = t[i]
  BY <1>1
<1>4. DOMAIN s = 1 .. Len(s) /\ DOMAIN t = 1 .. Len(t) /\ DOMAIN (s \o t) = 1 .. Len(s) + Len(t)
  BY <1>1, <1>2
<1>5. PICK u : u = s \o t
  OBVIOUS
<1>6. \A i \in 1 .. Len(s) + Len(t) : u[i] \in ToSet(s) \cup ToSet(t)
  <2>1. ASSUME NEW i \in 1 .. Len(s) + Len(t), ~(i <= Len(s)) PROVE u[i] \in ToSet(t)
    <3>1. PICK k \in 1 .. Len(t) : i = Len(s) + k
      <4>1. i - Len(s) \in 1 .. Len(t) /\ i = Len(s) + (i - Len(s))
        BY <1>2, <2>1
      <4> QED
        BY <4>1
    <3> QED
      BY <1>3, <1>4, <1>5, <3>1 DEF ToSet
  <2>2. ASSUME NEW i \in 1 .. Len(s) + Len(t), i <= Len(s) PROVE u[i] \in ToSet(s)
    <3>1. i \in 1 .. Len(s)
      BY <1>2, <2>2
    <3> QED
      BY <1>3, <1>4, <1>5, <3>1 DEF ToSet
  <2> QED
    BY <2>1, <2>2
<1>7. ToSet(s) \cup ToSet(t) \subseteq ToSet(u)
  <2>1. \A i \in 1 .. Len(s) : i \in DOMAIN u /\ s[i] = u[i]
    BY <1>2, <1>3, <1>4, <1>5
  <2>2. \A i \in 1 .. Len(t) : Len(s) + i \in DOMAIN u /\ t[i] = u[Len(s) + i]
    BY <1>2, <1>3, <1>4, <1>5
  <2> QED
    BY <1>4, <2>1, <2>2 DEF ToSet
<1>8. ToSet(u) \subseteq ToSet(s) \cup ToSet(t)
  BY <1>4, <1>5, <1>6 DEF ToSet
<1> QED
  BY <1>2, <1>5, <1>7, <1>8, SeqsArePaths

LEMMA ListGrows ==
  ASSUME NEW s, NEW e, IsPath(s)
  PROVE  IsPath(Append(s, e)) /\ ToSet(Append(s, e)) = ToSet(s) \cup {e}
<1>1. /\ IsPath(Append(s, e)) /\ Len(Append(s, e)) = Len(s) + 1 /\ Append(s, e)[Len(s) + 1] = e
      /\ \A i \in 1 .. Len(s) : Append(s, e)[i] = s[i]
  BY LongerPath
<1>2. DOMAIN s = 1 .. Len(s) /\ Len(s) \in Nat /\ DOMAIN Append(s, e) = 1 .. Len(s) + 1
  BY <1>1 DEF IsPath
<1>3. PICK u : u = Append(s, e)
  OBVIOUS
<1> QED
  BY <1>1, <1>2, <1>3 DEF ToSet

LEMMA ListHead ==
  ASSUME NEW s, IsPath(s), s # << >>
  PROVE  IsPath(Tail(s)) /\ ToSet(s) = ToSet(Tail(s)) \cup {Head(s)}
<1> DEFINE S == ToSet(s)
<1>1. s \in Seq(S)
  BY DEF IsPath
<1> HIDE DEF S
<1>2. /\ Tail(s) \in Seq(S) /\ Len(Tail(s)) = Len(s) - 1 /\ Len(s) \in Nat /\ Len(s) > 0 /\ Head(s) = s[1]
      /\ \A i \in 1 .. Len(s) - 1 : Tail(s)[i] = s[i + 1]
  BY <1>1
<1>3. DOMAIN s = 1 .. Len(s) /\ DOMAIN Tail(s) = 1 .. Len(s) - 1
  BY <1>1, <1>2
<1>4. PICK u : u = Tail(s)
  OBVIOUS
<1>5. \A i \in 1 .. Len(s) : i = 1 \/ (i - 1 \in 1 .. Len(s) - 1 /\ s[i] = u[i - 1])
  BY <1>2, <1>4
<1>6. \A i \in 1 .. Len(s) - 1 : u[i] = s[i + 1] /\ i + 1 \in 1 .. Len(s)
  BY <1>2, <1>4
<1>7. 1 \in 1 .. Len(s)
  BY <1>2
<1>8. ToSet(s) \subseteq ToSet(u) \cup {Head(s)}
  BY <1>2, <1>3, <1>4, <1>5 DEF ToSet
<1>9. ToSet(u) \cup {Head(s)} \subseteq ToSet(s)
  BY <1>2, <1>3, <1>4, <1>6, <1>7 DEF ToSet
<1> QED
  BY <1>2, <1>4, <1>8, <1>9, SeqsArePaths

LEMMA ListMapped ==
  ASSUME NEW s, NEW t, IsPath(s), t = [i \in DOMAIN s |-> t[i]]
  PROVE  IsPath(t) /\ ToSet(t) = {t[i] : i \in DOMAIN s}
<1>1. Len(s) \in Nat /\ DOMAIN s = 1 .. Len(s)
  BY DEF IsPath
<1>2. t \in Seq({t[i] : i \in DOMAIN s})
  BY <1>1, SeqDef
<1> QED
  BY <1>2, SeqsArePaths DEF ToSet

\* A path inside the chosen entry n of the folder on screen.
LEMMA InsideEntry ==
  ASSUME IsPath(shown), NEW n
  PROVE  /\ IsPath(Append(shown, n)) /\ Beneath(Append(shown, n)) /\ RootOf(Append(shown, n)) = n
         /\ Last(Append(shown, n)) = n
         /\ \A p : IsPath(p) => (IsPrefix(Append(shown, n), p) <=> Beneath(p) /\ RootOf(p) = n)
<1>1. /\ IsPath(Append(shown, n)) /\ Len(Append(shown, n)) = Len(shown) + 1
      /\ Append(shown, n)[Len(shown) + 1] = n
      /\ \A i \in 1 .. Len(shown) : Append(shown, n)[i] = shown[i]
  BY LongerPath
<1>2. Len(shown) \in Nat
  BY PathSize
<1>3. PICK a : a = Append(shown, n)
  OBVIOUS
<1>4. /\ IsPath(a) /\ Len(a) = Len(shown) + 1 /\ a[Len(shown) + 1] = n
      /\ \A i \in 1 .. Len(shown) : a[i] = shown[i]
  BY <1>1, <1>3
<1>5. IsPrefix(shown, a)
  BY <1>2, <1>4, PrefixOfPath
<1>6. ASSUME NEW p, IsPath(p) PROVE IsPrefix(a, p) <=> Beneath(p) /\ RootOf(p) = n
  <2>1. Len(p) \in Nat
    BY <1>6, PathSize
  <2>2. IsPrefix(a, p) <=> Len(a) <= Len(p) /\ \A i \in 1 .. Len(a) : a[i] = p[i]
    BY <1>4, <1>6, PrefixOfPath
  <2>3. IsPrefix(shown, p) <=> Len(shown) <= Len(p) /\ \A i \in 1 .. Len(shown) : shown[i] = p[i]
    BY <1>6, PrefixOfPath
  <2>4. (\A i \in 1 .. Len(a) : a[i] = p[i]) <=> (\A i \in 1 .. Len(shown) : shown[i] = p[i]) /\ p[Len(shown) + 1] = n
    BY <1>2, <1>4
  <2>5. Len(a) <= Len(p) <=> Len(p) > Len(shown)
    BY <1>2, <1>4, <2>1
  <2> QED
    BY <1>2, <2>1, <2>2, <2>3, <2>4, <2>5 DEF Beneath, RootOf
<1>7. Beneath(a) /\ RootOf(a) = n /\ Last(a) = n
  BY <1>2, <1>4, <1>5 DEF Beneath, RootOf, Last
<1> QED
  BY <1>3, <1>4, <1>6, <1>7

Fields == {"kind", "dest", "stage", "roots", "dirRoots", "stack", "files", "dirs", "todo", "real",
           "broken", "made"}
SameJob(j, k) ==
  k.kind = j.kind /\ k.dest = j.dest /\ k.roots = j.roots /\ k.real = j.real

\* The chosen files that follow the folders, once all of these were scanned.
PlainFiles(j) ==
  {[path |-> Append(shown, n), rel |-> << >>] : n \in {n \in j.roots : <<n>> \notin ToSet(j.dirs)}}

\* The two steps of NextRoot: the next chosen folder, and the files at last.
ScansFolder(j, k, n) ==
  /\ k.dirRoots = Tail(j.dirRoots) /\ k.dirs = Append(j.dirs, <<n>>)
  /\ k.stack = <<[at |-> Append(shown, n), rel |-> <<n>>]>>
  /\ k.files = j.files /\ k.stage = j.stage /\ k.roots = j.roots
EndsScan(j, k) ==
  /\ k.stage = "dirs" /\ k.files = j.files \o SetToSeq(PlainFiles(j))
  /\ k.stack = j.stack /\ k.dirs = j.dirs /\ k.dirRoots = j.dirRoots /\ k.roots = j.roots

LEMMA NextRootSteps ==
  ASSUME NEW j, DOMAIN j = Fields
  PROVE  /\ j.stack # << >> => NextRoot(j) = j
         /\ j.stack = << >> /\ j.dirRoots # << >> => ScansFolder(j, NextRoot(j), Head(j.dirRoots))
         /\ j.stack = << >> /\ j.dirRoots = << >> => EndsScan(j, NextRoot(j))
<1>1. j.stack # << >> => NextRoot(j) = j
  BY DEF NextRoot
<1>2. ASSUME j.stack = << >>, j.dirRoots # << >> PROVE ScansFolder(j, NextRoot(j), Head(j.dirRoots))
  <2> DEFINE n == Head(j.dirRoots)
             stack == <<[at |-> Append(shown, n), rel |-> <<n>>]>>
  <2>1. NextRoot(j) = [j EXCEPT !.dirRoots = Tail(@), !.dirs = Append(@, <<n>>), !.stack = stack]
    BY <1>2 DEF NextRoot
  <2>2. PICK s : s = stack
    OBVIOUS
  <2>3. PICK m : m = n
    OBVIOUS
  <2> HIDE DEF n, stack
  <2>4. /\ NextRoot(j).dirRoots = Tail(j.dirRoots) /\ NextRoot(j).dirs = Append(j.dirs, <<m>>)
        /\ NextRoot(j).stack = s
        /\ NextRoot(j).files = j.files /\ NextRoot(j).stage = j.stage /\ NextRoot(j).roots = j.roots
    BY <2>1, <2>2, <2>3 DEF Fields
  <2> QED
    BY <2>2, <2>3, <2>4 DEF ScansFolder, stack, n
<1>3. ASSUME j.stack = << >>, j.dirRoots = << >> PROVE EndsScan(j, NextRoot(j))
  <2> DEFINE fs == j.files \o SetToSeq(PlainFiles(j))
             todo == UploadDirs([dirs |-> j.dirs, files |-> fs])
  <2>1. NextRoot(j) = [j EXCEPT !.stage = "dirs", !.files = fs, !.todo = todo]
    BY <1>3, Zenon DEF NextRoot, PlainFiles
  <2> HIDE DEF fs, todo
  <2>2. /\ NextRoot(j).stage = "dirs" /\ NextRoot(j).files = fs /\ NextRoot(j).stack = j.stack
        /\ NextRoot(j).dirs = j.dirs /\ NextRoot(j).dirRoots = j.dirRoots /\ NextRoot(j).roots = j.roots
    BY <2>1 DEF Fields
  <2> QED
    BY <2>2 DEF EndsScan, fs
<1> QED
  BY <1>1, <1>2, <1>3

LEMMA NextRootSame ==
  ASSUME NEW j, DOMAIN j = Fields
  PROVE  SameJob(j, NextRoot(j)) /\ DOMAIN NextRoot(j) = Fields
BY DEF NextRoot, SameJob, Fields

LEMMA PlainAreListed ==
  ASSUME NEW j, IsFiniteSet(j.roots)
  PROVE  IsPath(SetToSeq(PlainFiles(j))) /\ ToSet(SetToSeq(PlainFiles(j))) = PlainFiles(j)
<1> DEFINE plain == {n \in j.roots : <<n>> \notin ToSet(j.dirs)}
           f == [n \in plain |-> [path |-> Append(shown, n), rel |-> << >>]]
<1>1. IsFiniteSet(plain)
  BY FS_Subset
<1>2. f = [n \in plain |-> f[n]] /\ {f[n] : n \in plain} = PlainFiles(j)
  BY DEF PlainFiles
<1> HIDE DEF plain, f
<1>3. IsFiniteSet(PlainFiles(j))
  BY <1>1, <1>2, ImageIsFinite
<1> QED
  BY <1>3, ListsAll

LEMMA NextRootLists ==
  ASSUME NEW j, DOMAIN j = Fields, IsPath(shown), IsFiniteSet(j.roots), Lists(j), j.stage = "scan"
  PROVE  Lists(NextRoot(j)) /\ NextRoot(j).stage \in {"scan", "dirs"}
<1>1. CASE j.stack # << >>
  BY <1>1 DEF NextRoot
<1>2. CASE j.stack = << >> /\ j.dirRoots # << >>
  <2>0. ScansFolder(j, NextRoot(j), Head(j.dirRoots))
    BY <1>2, NextRootSteps
  <2>1. PICK k : k = NextRoot(j)
    OBVIOUS
  <2>3. PICK n, e : /\ k.dirRoots = Tail(j.dirRoots) /\ k.dirs = Append(j.dirs, n)
                    /\ k.stack = <<e>> /\ k.files = j.files /\ k.stage = j.stage
    BY <2>0, <2>1 DEF ScansFolder
  <2>2. IsPath(k.dirs) /\ IsPath(k.dirRoots) /\ IsPath(<<e>>)
    <3>1. IsPath(<<e>>)
      BY DEF IsPath, ToSet
    <3> QED
      BY <1>2, <2>3, <3>1, ListGrows, ListHead DEF Lists
  <2> QED
    BY <2>1, <2>2, <2>3 DEF Lists
<1>3. CASE j.stack = << >> /\ j.dirRoots = << >>
  <2>1. EndsScan(j, NextRoot(j))
    BY <1>3, NextRootSteps
  <2> QED
    BY <2>1, PlainAreListed, ListsJoin DEF Lists, EndsScan
<1> QED
  BY <1>1, <1>2, <1>3

LEMMA NextRootScans ==
  ASSUME NEW j, DOMAIN j = Fields, Grown, IsFiniteSet(j.roots), Lists(j), j.stage = "scan",
         Rooted(j), Scanning(j)
  PROVE  Imported(NextRoot(j))
<1>0. IsPath(shown)
  BY DEF Grown
<1>1. CASE j.stack # << >>
  BY <1>1 DEF NextRoot, Imported
<1>2. CASE j.stack = << >> /\ j.dirRoots # << >>
  <2>0. ScansFolder(j, NextRoot(j), Head(j.dirRoots))
    BY <1>2, NextRootSteps
  <2>9. PICK k, n : k = NextRoot(j) /\ n = Head(j.dirRoots)
    OBVIOUS
  <2>1. /\ k = NextRoot(j) /\ n = Head(j.dirRoots) /\ k.dirRoots = Tail(j.dirRoots)
        /\ k.dirs = Append(j.dirs, <<n>>)
        /\ k.stack = <<[at |-> Append(shown, n), rel |-> <<n>>]>>
        /\ k.files = j.files /\ k.stage = "scan" /\ k.roots = j.roots
    BY <2>0, <2>9 DEF ScansFolder
  <2>2. ToSet(k.dirs) = ToSet(j.dirs) \cup {<<n>>} /\ ToSet(j.dirRoots) = ToSet(k.dirRoots) \cup {n}
    BY <1>2, <2>1, ListGrows, ListHead DEF Lists
  <2>3. PICK e : e = [at |-> Append(shown, n), rel |-> <<n>>]
    OBVIOUS
  <2>4. ToSet(k.stack) = {e}
    <3>1. k.stack = <<e>>
      BY <2>1, <2>3
    <3> QED
      BY <3>1 DEF ToSet
  <2>5. Listing(e)
    <3>1. IsPath(<<n>>) /\ <<n>> # << >> /\ <<n>>[1] = n
      BY DEF IsPath, ToSet
    <3> QED
      BY <1>0, <2>3, <3>1, InsideEntry DEF Listing
  <2>6. ASSUME NEW p \in Concerned(k) PROVE Reached(k, p)
    <3>1. p \in Concerned(j) /\ IsPath(p) /\ Beneath(p)
      BY <2>1, <2>6 DEF Concerned, Grown
    <3>2. Reached(j, p)
      BY <3>1 DEF Scanning
    <3>3. CASE RootOf(p) = n
      <4>1. IsPrefix(e.at, p)
        BY <1>0, <2>3, <3>1, <3>3, InsideEntry
      <4> QED
        BY <2>4, <4>1 DEF Reached
    <3>4. CASE RootOf(p) # n
      <4>1. <<RootOf(p)>> # <<n>> /\ ToSet(j.stack) = {}
        BY <1>2, <3>4 DEF ToSet
      <4> QED
        BY <2>1, <2>2, <3>2, <3>4, <4>1 DEF Reached, FoundIn
    <3> QED
      BY <3>3, <3>4
  <2>7. Rooted(k)
    BY <2>1 DEF Rooted
  <2>8. Scanning(k)
    BY <2>4, <2>5, <2>6 DEF Scanning
  <2> QED
    BY <2>1, <2>7, <2>8 DEF Imported
<1>3. CASE j.stack = << >> /\ j.dirRoots = << >>
  <2>0. EndsScan(j, NextRoot(j))
    BY <1>3, NextRootSteps
  <2>5. PICK k : k = NextRoot(j)
    OBVIOUS
  <2>1. /\ k = NextRoot(j) /\ k.roots = j.roots /\ k.stage = "dirs"
        /\ k.files = j.files \o SetToSeq(PlainFiles(j))
    BY <2>0, <2>5 DEF EndsScan
  <2>2. ToSet(k.files) = ToSet(j.files) \cup PlainFiles(j)
    BY <2>1, PlainAreListed, ListsJoin DEF Lists
  <2>3. Rooted(k)
    <3>1. ASSUME NEW f \in PlainFiles(j)
          PROVE  IsPath(f.path) /\ Beneath(f.path) /\ ImportRootOf(f) = RootOf(f.path)
      <4>1. PICK n : f = [path |-> Append(shown, n), rel |-> << >>]
        BY DEF PlainFiles
      <4> QED
        BY <1>0, <4>1, InsideEntry DEF ImportRootOf
    <3> QED
      BY <2>2, <3>1 DEF Rooted
  <2>4. ASSUME NEW p \in Concerned(k) PROVE p \in FoundIn(k)
    <3>1. p \in Concerned(j) /\ RootOf(p) \in j.roots
      BY <2>1, <2>4 DEF Concerned
    <3>2. Reached(j, p) /\ ToSet(j.stack) = {} /\ ToSet(j.dirRoots) = {}
      BY <1>3, <3>1 DEF Scanning, ToSet
    <3>3. CASE p \in FoundIn(j)
      BY <2>2, <3>3 DEF FoundIn
    <3>4. CASE p = Append(shown, RootOf(p)) /\ <<RootOf(p)>> \notin ToSet(j.dirs)
      <4>1. [path |-> p, rel |-> << >>] \in PlainFiles(j)
        BY <3>1, <3>4 DEF PlainFiles
      <4> QED
        BY <2>2, <4>1 DEF FoundIn
    <3> QED
      BY <3>2, <3>3, <3>4 DEF Reached
  <2> QED
    BY <2>1, <2>3, <2>4 DEF Imported, Carrying
<1> QED
  BY <1>1, <1>2, <1>3

\* The job after a step, as a value.
LEMMA ImportedThen ==
  ASSUME NEW k, job' = k, Imported(k)'
  PROVE  Imported(job)'
BY DEF Imported, Rooted, Scanning, Carrying, Deleting, Concerned, FoundIn, Reached, Listing, RootOf, Beneath,
       Veiled

LEMMA HousedThen ==
  ASSUME NEW k, job' = k, Housed(k)'
  PROVE  Housed(job)'
BY DEF Housed, Lists

\* What an import owes does not grow by what others or the import itself add.
LEMMA OwesNoMore ==
  ASSUME Grown, NEW j, UNCHANGED shown, went'.late = went.late \/ went.late \subseteq went'.late,
         \A p \in tree'.files \ tree.files : p \in went'.late \/ Veiled(p)
  PROVE  Concerned(j)' \subseteq Concerned(j)
BY DEF Concerned, Beneath, RootOf, Veiled

LEMMA ImportStays ==
  ASSUME NEW j, Imported(j), UNCHANGED shown, Concerned(j)' \subseteq Concerned(j),
         went.sealed \subseteq went'.sealed
  PROVE  Imported(j)'
<1>1. \A p : RootOf(p)' = RootOf(p) /\ (Beneath(p)' <=> Beneath(p))
  BY DEF RootOf, Beneath
<1>2. PICK c : c = Concerned(j)'
  OBVIOUS
<1>3. Rooted(j) => Rooted(j)'
  BY <1>1 DEF Rooted
<1>4. \A e : Listing(e) => Listing(e)'
  BY <1>1 DEF Listing
<1>5. \A p : Reached(j, p) => Reached(j, p)'
  BY <1>1 DEF Reached
<1>6. Scanning(j) => Scanning(j)'
  BY <1>4, <1>5 DEF Scanning
<1>7. Carrying(j) => Carrying(j)'
  BY <1>1 DEF Carrying
<1>8. Deleting(j) => Deleting(j)'
  BY <1>1 DEF Deleting
<1> QED
  BY <1>3, <1>6, <1>7, <1>8 DEF Imported

LEMMA NamesAreFinite ==
  ASSUME Grown
  PROVE  IsFiniteSet({Last(p) : p \in Children(shown, tree.dirs \cup tree.files)})
<1> DEFINE C == Children(shown, tree.dirs \cup tree.files)
           f == [p \in C |-> Last(p)]
<1>1. IsFiniteSet(C)
  BY FS_Subset DEF Grown, Children
<1>2. f = [p \in C |-> f[p]] /\ {f[p] : p \in C} = {Last(p) : p \in C}
  OBVIOUS
<1> HIDE DEF C, f
<1>3. IsFiniteSet({f[p] : p \in C})
  BY <1>1, <1>2, ImageIsFinite
<1> QED
  BY <1>2, <1>3 DEF C

\* A job whose next step is NextRoot, with the page and the tree as they were.
LEMMA ScanGoesOn ==
  ASSUME OInv, NEW j, DOMAIN j = Fields, Lists(j), IsFiniteSet(j.roots), j.stage = "scan", j.dest = Into,
         j.kind \in {"move", "copy"}, ~went.walked => Rooted(j) /\ Scanning(j),
         job' = NextRoot(j), UNCHANGED <<tree, shown, went>>
  PROVE  OInv'
<1>1. PICK k : k = NextRoot(j)
  OBVIOUS
<1>2. SameJob(j, k) /\ Lists(k) /\ k.stage \in {"scan", "dirs"} /\ (~went.walked => Imported(k))
  <2>1. Grown /\ IsPath(shown)
    BY DEF OInv, Grown
  <2> QED
    BY <1>1, <2>1, NextRootSame, NextRootLists, NextRootScans
<1>3. Housed(job)'
  <2>1. Housed(k)'
    BY <1>2 DEF Housed, SameJob, Lists
  <2> QED
    BY <1>1, <2>1, HousedThen
<1>4. ASSUME ~went'.walked PROVE Imported(job)'
  <2>1. Concerned(k)' = Concerned(k)
    BY DEF Concerned, Beneath, RootOf, Veiled
  <2>2. Imported(k)'
    BY <1>2, <1>4, <2>1, ImportStays
  <2> QED
    BY <1>1, <2>2, ImportedThen
<1>5. Grown'
  BY DEF OInv, Grown, Folded, Veiled
<1>6. OriginalsGoOnlyWhenImported'
  BY DEF OInv, OriginalsGoOnlyWhenImported
<1> QED
  BY <1>3, <1>4, <1>5, <1>6 DEF OInv

\* A file inside a folder is one of its children, or inside one.
LEMMA ChildOrDeeper ==
  ASSUME Grown, NEW at \in tree.dirs, NEW p \in tree.files, IsPrefix(at, p), ~Veiled(p)
  PROVE  \/ p \in Children(at, tree.files)
         \/ \E d \in Children(at, tree.dirs) \ Nested : IsPrefix(d, p)
<1>1. IsPath(at) /\ IsPath(p) /\ p # at /\ Folded(p)
  BY DEF Grown
<1>2. /\ Len(at) \in Nat /\ Len(p) \in Nat /\ Len(at) <= Len(p)
      /\ \A i \in 1 .. Len(at) : at[i] = p[i]
  BY <1>1, PathSize, PrefixOfPath
<1>3. Len(at) # Len(p)
  BY <1>1, <1>2, PathsEqual
<1>4. CASE Len(p) = Len(at) + 1
  BY <1>1, <1>4 DEF Children, Under
<1>5. CASE Len(p) # Len(at) + 1
  <2>1. PICK k, d : k = Len(at) + 1 /\ d = SubSeq(p, 1, k)
    OBVIOUS
  <2>2. k \in 1 .. Len(p) - 1 /\ k \in 0 .. Len(p)
    BY <1>2, <1>3, <1>5, <2>1
  <2>3. d \in tree.dirs
    BY <1>1, <2>1, <2>2 DEF Folded
  <2>4. IsPath(d) /\ Len(d) = k /\ \A i \in 1 .. k : d[i] = p[i]
    BY <1>1, <2>1, <2>2, CutPath
  <2>5. IsPrefix(d, p)
    BY <1>1, <2>1, <2>2, CutIsPrefix
  <2>6. IsPrefix(at, d)
    <3>1. Len(at) <= Len(d) /\ \A i \in 1 .. Len(at) : at[i] = d[i]
      BY <1>2, <2>1, <2>4
    <3> QED
      BY <1>1, <2>4, <3>1, PrefixOfPath
  <2>7. d # at
    BY <1>2, <2>1, <2>4
  <2>8. d \notin Nested
    BY <2>5 DEF Veiled
  <2> QED
    BY <2>1, <2>3, <2>4, <2>5, <2>6, <2>7, <2>8 DEF Children, Under
<1> QED
  BY <1>4, <1>5

LEMMA ImportOwes ==
  ASSUME FInv, OInv, NEW move,
         NEW names \in SUBSET {Last(p) : p \in Children(shown, tree.dirs \cup tree.files)},
         ImportToVault(names, move)
  PROVE  OInv'
<1> DEFINE kind  == IF move THEN "move" ELSE "copy"
           plan  == Plan(kind, Into, [dirs |-> << >>, files |-> << >>])
           roots == {n \in names : Append(shown, n) \in tree.dirs}
           j     == [plan EXCEPT !.stage = "scan", !.roots = names, !.dirRoots = SetToSeq(roots)]
<1>1. job' = NextRoot(j) /\ UNCHANGED <<tree, shown, went>> /\ \A n \in names : Taken(Append(shown, n))
  BY DEF ImportToVault
<1>2. /\ DOMAIN plan = Fields /\ plan.dest = Into /\ plan.kind \in {"move", "copy"} /\ plan.files = << >>
      /\ plan.dirs = << >> /\ plan.stack = << >>
  BY DEF Plan, Fields
<1> HIDE DEF plan, kind
<1>3. PICK dr : dr = SetToSeq(roots)
  OBVIOUS
<1>4. /\ DOMAIN j = Fields /\ j.stage = "scan" /\ j.dest = Into /\ j.kind \in {"move", "copy"}
      /\ j.roots = names /\ j.dirRoots = dr /\ j.files = << >> /\ j.dirs = << >> /\ j.stack = << >>
  BY <1>2, <1>3 DEF Fields
<1> HIDE DEF j
<1>5. IsFiniteSet(names) /\ IsFiniteSet(roots)
  <2>1. IsFiniteSet(names)
    BY NamesAreFinite, FS_Subset DEF OInv
  <2> QED
    BY <2>1, FS_Subset
<1>6. IsPath(dr) /\ ToSet(dr) = roots
  BY <1>3, <1>5, ListsAll
<1>7. IsPath(<< >>) /\ ToSet(<< >>) = {}
  BY DEF IsPath, ToSet
<1>8. Rooted(j)
  BY <1>4, <1>7 DEF Rooted
<1>9. Scanning(j)
  <2>1. ASSUME NEW p \in Concerned(j) PROVE Reached(j, p)
    <3>1. /\ p \in tree.files /\ Beneath(p) /\ RootOf(p) \in names /\ IsPath(p) /\ IsPath(shown)
          /\ Folded(p) /\ shown \in tree.dirs
      BY <1>4, <2>1 DEF Concerned, OInv, Grown
    <3>2. PICK n : n = RootOf(p)
      OBVIOUS
    <3>3. CASE n \in roots
      BY <1>4, <1>6, <3>2, <3>3 DEF Reached
    <3>4. CASE n \notin roots
      <4>1. PICK a : a = Append(shown, n)
        OBVIOUS
      <4>2. IsPath(a) /\ Len(a) = Len(shown) + 1 /\ IsPrefix(a, p) /\ a \notin tree.dirs
        BY <3>1, <3>2, <3>4, <4>1, InsideEntry, LongerPath
      <4>3. /\ Len(a) \in Nat /\ Len(p) \in Nat /\ Len(a) <= Len(p) /\ Len(a) > 0
            /\ \A i \in 1 .. Len(a) : a[i] = p[i]
        BY <3>1, <4>2, PathSize, PrefixOfPath
      <4>4. Len(a) = Len(p)
        <5> SUFFICES ASSUME Len(a) # Len(p) PROVE FALSE
          OBVIOUS
        <5>1. Len(a) \in 1 .. Len(p) - 1 /\ Len(a) \in 0 .. Len(p)
          BY <4>3
        <5>2. SubSeq(p, 1, Len(a)) \in tree.dirs
          BY <3>1, <5>1 DEF Folded
        <5>3. PICK s : s = SubSeq(p, 1, Len(a))
          OBVIOUS
        <5>4. IsPath(s) /\ Len(s) = Len(a) /\ \A i \in 1 .. Len(s) : s[i] = a[i]
          BY <3>1, <4>3, <5>1, <5>3, CutPath
        <5>5. s = a
          BY <4>2, <5>4, PathsEqual
        <5> QED
          BY <4>2, <5>2, <5>3, <5>5
      <4>5. p = a
        BY <3>1, <4>2, <4>3, <4>4, PathsEqual
      <4> QED
        BY <1>4, <1>7, <3>2, <4>1, <4>5 DEF Reached
    <3> QED
      BY <3>3, <3>4
  <2> QED
    BY <1>4, <1>7, <2>1 DEF Scanning
<1>10. Lists(j)
  BY <1>4, <1>6, <1>7 DEF Lists
<1> QED
  BY <1>1, <1>4, <1>5, <1>8, <1>9, <1>10, ScanGoesOn

\* scanForVault carries on: what was inside the folder listed is found or inside one to list.
LEMMA ScanOwes == ASSUME FInv, OInv, ScanForVault PROVE OInv'
<1>1. CASE job' = None
  BY <1>1 DEF ScanForVault, OInv, Grown, Folded, Veiled, OriginalsGoOnlyWhenImported
<1>2. CASE job' # None
  <2> DEFINE e     == Head(job.stack)
             dirs  == SetToSeq(Children(e.at, tree.dirs) \ Nested)
             found == SetToSeq({[path |-> p, rel |-> e.rel] : p \in Children(e.at, tree.files)})
             subs  == [i \in DOMAIN dirs |-> [at |-> dirs[i], rel |-> Append(e.rel, Last(dirs[i]))]]
             rels  == [i \in DOMAIN dirs |-> Append(e.rel, Last(dirs[i]))]
             j     == [job EXCEPT !.stack = subs \o Tail(@), !.dirs = @ \o rels, !.files = @ \o found]
  <2>1. /\ e.at \in tree.dirs /\ job' = NextRoot(j) /\ UNCHANGED <<tree, shown, went>>
        /\ job # None /\ job.stage = "scan" /\ job.stack # << >>
    BY <1>2, Zenon DEF ScanForVault
  <2>2. /\ DOMAIN job = Fields /\ Housed(job) /\ job.kind # "upload" /\ job.kind \in {"move", "copy"}
        /\ Lists(job) /\ IsFiniteSet(job.roots) /\ job.dest = Into
        /\ ~went.walked => Rooted(job) /\ Scanning(job)
    BY <2>1 DEF FInv, Placed, Fields, OInv, Housed, Imported
  <2>3. PICK ds : ds = dirs
    OBVIOUS
  <2>4. PICK fs : fs = found
    OBVIOUS
  <2>5. PICK ss : ss = subs
    OBVIOUS
  <2>6. PICK rs : rs = rels
    OBVIOUS
  <2>7. PICK h : h = e
    OBVIOUS
  <2>8. /\ DOMAIN j = Fields /\ j.stage = "scan" /\ j.dest = Into /\ j.kind = job.kind
        /\ j.roots = job.roots /\ j.dirRoots = job.dirRoots /\ j.files = job.files \o fs
        /\ j.dirs = job.dirs \o rs /\ j.stack = ss \o Tail(job.stack)
    <3> HIDE DEF e, dirs, found, subs, rels
    <3> QED
      BY <2>1, <2>2, <2>4, <2>5, <2>6 DEF Fields
  <2>9. IsPath(ds) /\ ToSet(ds) = Children(h.at, tree.dirs) \ Nested
    <3>1. IsFiniteSet(Children(h.at, tree.dirs) \ Nested)
      BY FS_Subset DEF OInv, Grown, Children
    <3> QED
      BY <2>3, <2>7, <3>1, ListsAll
  <2>10. IsPath(fs) /\ ToSet(fs) = {[path |-> p, rel |-> h.rel] : p \in Children(h.at, tree.files)}
    <3> DEFINE C == Children(h.at, tree.files)
               F == {[path |-> p, rel |-> h.rel] : p \in C}
               f == [p \in C |-> [path |-> p, rel |-> h.rel]]
    <3>1. IsFiniteSet(C)
      BY FS_Subset DEF OInv, Grown, Children
    <3>2. f = [p \in C |-> f[p]] /\ {f[p] : p \in C} = F
      OBVIOUS
    <3>3. fs = SetToSeq(F)
      BY <2>4, <2>7
    <3> HIDE DEF C, F, f
    <3>4. IsFiniteSet(F)
      BY <3>1, <3>2, ImageIsFinite
    <3>5. IsPath(fs) /\ ToSet(fs) = F
      BY <3>3, <3>4, ListsAll
    <3> QED
      BY <3>5 DEF F, C
  <2>11. /\ ss = [i \in DOMAIN ds |-> [at |-> ds[i], rel |-> Append(h.rel, Last(ds[i]))]]
         /\ rs = [i \in DOMAIN ds |-> Append(h.rel, Last(ds[i]))]
    BY <2>3, <2>5, <2>6, <2>7
  <2>12. /\ IsPath(ss) /\ ToSet(ss) = {[at |-> d, rel |-> Append(h.rel, Last(d))] : d \in ToSet(ds)}
         /\ IsPath(rs) /\ ToSet(rs) = {Append(h.rel, Last(d)) : d \in ToSet(ds)}
    <3>1. ss = [i \in DOMAIN ds |-> ss[i]] /\ rs = [i \in DOMAIN ds |-> rs[i]]
      BY <2>11
    <3>2. IsPath(ss) /\ ToSet(ss) = {ss[i] : i \in DOMAIN ds}
      BY <2>9, <3>1, ListMapped
    <3>3. IsPath(rs) /\ ToSet(rs) = {rs[i] : i \in DOMAIN ds}
      BY <2>9, <3>1, ListMapped
    <3>4. /\ \A i \in DOMAIN ds : ds[i] \in ToSet(ds)
          /\ \A d \in ToSet(ds) : \E i \in DOMAIN ds : d = ds[i]
      BY DEF ToSet
    <3>5. /\ \A i \in DOMAIN ds : ss[i] = [at |-> ds[i], rel |-> Append(h.rel, Last(ds[i]))]
          /\ \A i \in DOMAIN ds : rs[i] = Append(h.rel, Last(ds[i]))
      BY <2>11
    <3>6. {ss[i] : i \in DOMAIN ds} = {[at |-> d, rel |-> Append(h.rel, Last(d))] : d \in ToSet(ds)}
      <4>1. PICK G : G = [d \in ToSet(ds) |-> [at |-> d, rel |-> Append(h.rel, Last(d))]]
        OBVIOUS
      <4>2. \A i \in DOMAIN ds : ss[i] = G[ds[i]]
        BY <3>4, <3>5, <4>1
      <4>3. {ss[i] : i \in DOMAIN ds} = {G[d] : d \in ToSet(ds)}
        BY <3>4, <4>2
      <4>4. {G[d] : d \in ToSet(ds)} = {[at |-> d, rel |-> Append(h.rel, Last(d))] : d \in ToSet(ds)}
        BY <4>1
      <4> QED
        BY <4>3, <4>4
    <3>7. {rs[i] : i \in DOMAIN ds} = {Append(h.rel, Last(d)) : d \in ToSet(ds)}
      BY <3>4, <3>5
    <3> QED
      BY <3>2, <3>3, <3>6, <3>7
  <2>13. IsPath(Tail(job.stack)) /\ ToSet(job.stack) = ToSet(Tail(job.stack)) \cup {h}
    BY <2>1, <2>2, <2>7, ListHead DEF Lists
  <2> HIDE DEF e, dirs, found, subs, rels, j
  <2>14. /\ ToSet(j.stack) = ToSet(ss) \cup ToSet(Tail(job.stack))
         /\ ToSet(j.dirs) = ToSet(job.dirs) \cup ToSet(rs) /\ ToSet(j.files) = ToSet(job.files) \cup ToSet(fs)
         /\ IsPath(j.stack) /\ IsPath(j.dirs) /\ IsPath(j.files)
    <3>1. IsPath(job.dirs) /\ IsPath(job.files)
      BY <2>2 DEF Lists
    <3>2. IsPath(j.stack) /\ ToSet(j.stack) = ToSet(ss) \cup ToSet(Tail(job.stack))
      BY <2>8, <2>12, <2>13, ListsJoin
    <3>3. IsPath(j.dirs) /\ ToSet(j.dirs) = ToSet(job.dirs) \cup ToSet(rs)
      BY <2>8, <2>12, <3>1, ListsJoin
    <3>4. IsPath(j.files) /\ ToSet(j.files) = ToSet(job.files) \cup ToSet(fs)
      BY <2>8, <2>10, <3>1, ListsJoin
    <3> QED
      BY <3>2, <3>3, <3>4
  <2>15. Lists(j)
    BY <2>2, <2>8, <2>14 DEF Lists
  <2>16. ASSUME ~went.walked PROVE Rooted(j) /\ Scanning(j)
    <3>1. Listing(h) /\ IsPath(shown) /\ Grown
      BY <2>2, <2>13, <2>16 DEF Scanning, OInv, Grown
    <3>2. ASSUME NEW p, p \in tree.dirs \cup tree.files, Under(h.at, p)
          PROVE  IsPath(p) /\ Beneath(p) /\ RootOf(p) = RootOf(h.at)
      <4>1. IsPath(p) /\ IsPath(h.at) /\ IsPrefix(shown, h.at) /\ IsPrefix(h.at, p)
        BY <3>1, <3>2 DEF Grown, Listing, Beneath, Under
      <4>2. IsPrefix(shown, p) /\ Len(shown) \in Nat /\ Len(p) \in Nat /\ Len(h.at) \in Nat /\ Len(h.at) > Len(shown)
        BY <3>1, <4>1, PrefixesChain, PathSize DEF Listing, Beneath
      <4>3. Len(h.at) <= Len(p) /\ \A i \in 1 .. Len(h.at) : h.at[i] = p[i]
        BY <4>1, PrefixOfPath
      <4> QED
        BY <4>1, <4>2, <4>3 DEF Beneath, RootOf
    <3>3. /\ IsPath(h.rel) /\ h.rel # << >> /\ Len(h.rel) \in Nat /\ Len(h.rel) > 0
          /\ h.rel[1] = RootOf(h.at)
      BY <3>1, PathSize DEF Listing, IsPath
    <3>4. Rooted(j)
      <4>1. ASSUME NEW f \in ToSet(fs)
            PROVE  IsPath(f.path) /\ Beneath(f.path) /\ ImportRootOf(f) = RootOf(f.path)
        <5>1. PICK p \in Children(h.at, tree.files) : f = [path |-> p, rel |-> h.rel]
          BY <2>10
        <5> QED
          BY <3>2, <3>3, <5>1 DEF Children, ImportRootOf
      <4> QED
        BY <2>2, <2>14, <2>16, <4>1 DEF Rooted
    <3>5. ASSUME NEW n
          PROVE  /\ IsPath(Append(h.rel, n)) /\ Append(h.rel, n) # << >> /\ Append(h.rel, n)[1] = h.rel[1]
                 /\ Len(Append(h.rel, n)) > 1
      <4>1. /\ IsPath(Append(h.rel, n)) /\ Len(Append(h.rel, n)) = Len(h.rel) + 1
            /\ Append(h.rel, n)[1] = h.rel[1]
        BY <3>3, LongerPath
      <4> QED
        BY <3>3, <4>1
    <3>6. ASSUME NEW x \in ToSet(j.stack) PROVE Listing(x)
      <4>1. CASE x \in ToSet(job.stack)
        BY <2>2, <2>16, <4>1 DEF Scanning
      <4>2. CASE x \in ToSet(ss)
        <5>1. PICK d \in Children(h.at, tree.dirs) : x = [at |-> d, rel |-> Append(h.rel, Last(d))]
          BY <2>9, <2>12, <4>2
        <5> QED
          BY <3>2, <3>3, <3>5, <5>1 DEF Children, Listing
      <4> QED
        BY <2>13, <2>14, <3>6, <4>1, <4>2
    <3>7. ASSUME NEW p \in Concerned(j) PROVE Reached(j, p)
      <4>1. p \in Concerned(job) /\ p \in tree.files /\ ~Veiled(p)
        BY <2>8, <3>7 DEF Concerned
      <4>2. Reached(job, p)
        BY <2>2, <2>16, <4>1 DEF Scanning
      <4>3. CASE RootOf(p) \in ToSet(job.dirRoots)
        BY <2>8, <4>3 DEF Reached
      <4>4. CASE \E x \in ToSet(job.stack) : IsPrefix(x.at, p)
        <5>1. CASE IsPrefix(h.at, p)
          <6>1. h.at \in tree.dirs
            BY <2>1, <2>7
          <6>2. CASE p \in Children(h.at, tree.files)
            <7>1. [path |-> p, rel |-> h.rel] \in ToSet(j.files)
              BY <2>10, <2>14, <6>2
            <7> QED
              BY <7>1 DEF Reached, FoundIn
          <6>3. ASSUME NEW d \in Children(h.at, tree.dirs) \ Nested, IsPrefix(d, p) PROVE Reached(j, p)
            <7>1. [at |-> d, rel |-> Append(h.rel, Last(d))] \in ToSet(j.stack)
              BY <2>9, <2>12, <2>14, <6>3
            <7> QED
              BY <6>3, <7>1 DEF Reached
          <6> QED
            BY <3>1, <4>1, <5>1, <6>1, <6>2, <6>3, ChildOrDeeper
        <5>2. CASE ~IsPrefix(h.at, p)
          BY <2>13, <2>14, <4>4, <5>2 DEF Reached
        <5> QED
          BY <5>1, <5>2
      <4>5. CASE p \in FoundIn(job)
        BY <2>14, <4>5 DEF Reached, FoundIn
      <4>6. CASE p = Append(shown, RootOf(p)) /\ <<RootOf(p)>> \notin ToSet(job.dirs)
        <5>1. <<RootOf(p)>> \notin ToSet(rs)
          <6>1. Len(<<RootOf(p)>>) = 1
            OBVIOUS
          <6> QED
            BY <2>12, <3>5, <6>1
        <5> QED
          BY <2>14, <4>6, <5>1 DEF Reached
      <4> QED
        BY <4>2, <4>3, <4>4, <4>5, <4>6 DEF Reached
    <3> QED
      BY <3>4, <3>6, <3>7 DEF Scanning
  <2> QED
    BY <2>1, <2>2, <2>8, <2>15, <2>16, ScanGoesOn DEF j
<1> QED
  BY <1>1, <1>2

LEMMA GrownStays == Grown /\ UNCHANGED <<tree, shown>> => Grown'
BY DEF Grown, Folded, Veiled

LEMMA OriginalsStay ==
  ASSUME OriginalsGoOnlyWhenImported, went'.trashed = went.trashed, went.sealed \subseteq went'.sealed,
         went.late \subseteq went'.late, went.walked => went'.walked
  PROVE  OriginalsGoOnlyWhenImported'
BY DEF OriginalsGoOnlyWhenImported

LEMMA UploadOwes == ASSUME FInv, OInv, NEW plan, UploadFiles(plan) PROVE OInv'
<1>1. /\ job' = Plan("upload", shown, plan) /\ UNCHANGED <<tree, shown, went>>
  BY DEF UploadFiles
<1>2. PICK k : k = Plan("upload", shown, plan)
  OBVIOUS
<1>3. k.kind = "upload" /\ k.dest = shown /\ k.stage = "dirs" /\ k.real = [r \in {<< >>} |-> << >>]
  BY <1>2 DEF Plan
<1>4. shown \o << >> = shown /\ shown \in tree.dirs
  BY DEF FInv, IsPath, OInv, Grown
<1>5. Housed(k)'
  BY <1>1, <1>3, <1>4 DEF Housed
<1>6. Housed(job)' /\ job'.kind = "upload"
  BY <1>1, <1>2, <1>3, <1>5, HousedThen
<1> QED
  BY <1>1, <1>6, GrownStays, OriginalsStay DEF OInv

\* A step of the job itself, with the page and the tree as they were.
LEMMA JobGoesOn ==
  ASSUME OInv, NEW k, job' = k, UNCHANGED <<tree, shown, went>>,
         k # None => Housed(k) /\ (k.kind # "upload" /\ ~went.walked => Imported(k))
  PROVE  OInv'
<1>1. Grown' /\ OriginalsGoOnlyWhenImported'
  BY GrownStays, OriginalsStay DEF OInv
<1>2. ASSUME k # None PROVE Housed(job)'
  <2>1. Housed(k)'
    BY <1>2 DEF Housed, Lists
  <2> QED
    BY <2>1, HousedThen
<1>3. ASSUME k # None, k.kind # "upload", ~went.walked PROVE Imported(job)'
  <2>1. Concerned(k)' = Concerned(k)
    BY DEF Concerned, Beneath, RootOf, Veiled
  <2>2. Imported(k)'
    BY <1>3, <2>1, ImportStays
  <2> QED
    BY <2>2, ImportedThen
<1> QED
  BY <1>1, <1>2, <1>3 DEF OInv

LEMMA DirsMadeOwes == ASSUME FInv, OInv, DirsMade PROVE OInv'
<1>1. PICK b : job' = [job EXCEPT !.stage = "files", !.broken = b]
  BY DEF DirsMade
<1>2. /\ job # None /\ job.stage = "dirs" /\ UNCHANGED <<tree, shown, went>>
      /\ DOMAIN job = Fields /\ Housed(job)
  BY DEF DirsMade, FInv, Placed, Fields, OInv
<1>3. PICK k : k = job'
  OBVIOUS
<1>4. /\ k.stage = "files" /\ k.kind = job.kind /\ k.dest = job.dest /\ k.real = job.real /\ k.roots = job.roots
      /\ k.files = job.files /\ k.stack = job.stack /\ k.dirs = job.dirs /\ k.dirRoots = job.dirRoots
  BY <1>1, <1>2, <1>3 DEF Fields
<1>5. Housed(k)
  BY <1>2, <1>4 DEF Housed, Lists
<1>6. ASSUME k.kind # "upload", ~went.walked PROVE Imported(k)
  <2>1. Rooted(job) /\ Carrying(job)
    BY <1>2, <1>4, <1>6 DEF OInv, Imported
  <2> QED
    BY <1>2, <1>4, <2>1 DEF Imported, Rooted, Carrying, Concerned, FoundIn
<1> QED
  BY <1>2, <1>3, <1>5, <1>6, JobGoesOn

\* All files were tried: of a chosen entry that is not broken, each is in the vault.
LEMMA SentOwes == ASSUME FInv, OInv, FilesSent PROVE OInv'
<1>1. job # None /\ job.stage = "files" /\ job.files = << >> /\ UNCHANGED <<tree, shown, went>>
      /\ DOMAIN job = Fields /\ Housed(job)
  BY DEF FilesSent, FInv, Placed, Fields, OInv
<1>2. CASE job.kind # "move"
  BY <1>1, <1>2, JobGoesOn DEF FilesSent
<1>3. CASE job.kind = "move"
  <2>1. PICK t : t = SetToSeq(job.roots \ job.broken)
    OBVIOUS
  <2>2. job' = [job EXCEPT !.stage = "delete", !.todo = t]
    BY <1>3, <2>1 DEF FilesSent
  <2>3. IsPath(t) /\ ToSet(t) = job.roots \ job.broken
    <3>1. IsFiniteSet(job.roots \ job.broken)
      BY <1>1, <1>3, FS_Subset DEF Housed
    <3> QED
      BY <2>1, <3>1, ListsAll
  <2>4. PICK k : k = job'
    OBVIOUS
  <2>5. /\ k.stage = "delete" /\ k.kind = job.kind /\ k.dest = job.dest /\ k.real = job.real
        /\ k.roots = job.roots /\ k.todo = t
        /\ k.files = job.files /\ k.stack = job.stack /\ k.dirs = job.dirs /\ k.dirRoots = job.dirRoots
    BY <1>1, <2>2, <2>4 DEF Fields
  <2>6. Housed(k)
    BY <1>1, <1>3, <2>5 DEF Housed, Lists
  <2>7. ASSUME ~went.walked PROVE Imported(k)
    <3>1. Carrying(job) /\ FoundIn(job) = {}
      BY <1>1, <1>3, <2>7 DEF OInv, Imported, FoundIn, ToSet
    <3>2. \A p \in Concerned(job) : p \in went.sealed \/ RootOf(p) \in job.broken
      BY <3>1 DEF Carrying
    <3>3. Concerned(k) = Concerned(job)
      BY <2>5 DEF Concerned
    <3> QED
      BY <2>3, <2>5, <3>2, <3>3 DEF Imported, Deleting
  <2> QED
    BY <1>1, <2>4, <2>6, <2>7, JobGoesOn
<1> QED
  BY <1>2, <1>3

LEMMA WalkOwes == ASSUME FInv, OInv, NEW d \in tree.dirs, WalkTo(d) PROVE OInv'
<1>1. /\ shown' = d /\ UNCHANGED <<tree, job>>
      /\ went' = [went EXCEPT !.walked = @ \/ (job # None /\ job.kind # "upload")]
  BY DEF WalkTo
<1>2. Grown'
  BY <1>1 DEF OInv, Grown, Folded, Veiled
<1>3. Housed(job) => Housed(job)'
  BY <1>1 DEF Housed, Lists
<1> QED
  BY <1>1, <1>2, <1>3 DEF OInv, OriginalsGoOnlyWhenImported

\* What goes into the vault is out of the sight of what an import owes.
LEMMA GoesUnderVeil ==
  ASSUME NEW j, Placed(j), j.dest = Into, NEW r \in DOMAIN j.real
  PROVE  IsPath(j.dest \o j.real[r]) /\ Veiled(j.dest \o j.real[r])
<1>1. PICK a, b : a = Into /\ b = j.real[r]
  OBVIOUS
<1>2. IsPath(a) /\ IsPath(b) /\ IsPath(a \o b) /\ a \in Nested
  BY <1>1, TransferAssumption, JoinIsPath DEF Placed
<1>3. IsPrefix(a, a \o b)
  <2> DEFINE S == ToSet(a) \cup ToSet(b)
  <2>1. a \in Seq(S) /\ b \in Seq(S)
    BY <1>2 DEF IsPath
  <2> HIDE DEF S
  <2>2. Len(a) <= Len(a \o b) /\ \A i \in 1 .. Len(a) : a[i] = (a \o b)[i]
    BY <2>1
  <2>3. PICK c : c = a \o b
    OBVIOUS
  <2>4. IsPrefix(a, c)
    BY <1>2, <2>2, <2>3, PrefixOfPath
  <2> QED
    BY <2>3, <2>4
<1> QED
  BY <1>1, <1>2, <1>3 DEF Veiled

\* Where the files of a job go: into a folder that is there, or into the vault.
LEMMA GoesSomewhere ==
  ASSUME FInv, OInv, job # None, NEW r \in DOMAIN job.real
  PROVE  /\ IsPath(job.dest \o job.real[r])
         /\ IF job.kind = "upload" THEN job.dest \o job.real[r] \in tree.dirs
            ELSE Veiled(job.dest \o job.real[r])
<1>1. Placed(job) /\ Housed(job)
  BY DEF FInv, OInv
<1>2. CASE job.kind = "upload"
  <2>1. job.dest \o job.real[r] \in tree.dirs
    BY <1>1, <1>2 DEF Housed
  <2> QED
    BY <1>2, <2>1 DEF FInv
<1>3. CASE job.kind # "upload"
  BY <1>1, <1>3, GoesUnderVeil DEF Housed
<1> QED
  BY <1>2, <1>3

LEMMA MadeWhere ==
  ASSUME NEW j, Placed(j), NEW r \in DOMAIN j.real, NEW n
  PROVE  j.dest \o Append(j.real[r], n) = Append(j.dest \o j.real[r], n)
<1>1. PICK a, b : a = j.dest /\ b = j.real[r]
  OBVIOUS
<1>2. IsPath(a) /\ IsPath(b)
  BY <1>1 DEF Placed
<1>3. a \o Append(b, n) = Append(a \o b, n)
  BY <1>2, PathsJoin
<1> QED
  BY <1>1, <1>3

LEMMA MakeOwes == ASSUME FInv, OInv, NEW ok \in BOOLEAN, MakeUploadDir(ok) PROVE OInv'
<1> DEFINE dir    == Head(job.todo)
           parent == Front(dir)
           rest   == [job EXCEPT !.todo = Tail(@)]
<1>1. /\ job # None /\ job.stage = "dirs" /\ UNCHANGED <<shown, went>> /\ DOMAIN job = Fields
      /\ DOMAIN tree = {"dirs", "files"} /\ Placed(job) /\ Housed(job)
  BY DEF MakeUploadDir, FInv, Placed, Fields, OInv
<1>2. /\ DOMAIN rest = Fields /\ rest.stage = job.stage /\ rest.kind = job.kind /\ rest.dest = job.dest
      /\ rest.real = job.real /\ rest.roots = job.roots /\ rest.files = job.files /\ rest.stack = job.stack
      /\ rest.dirs = job.dirs /\ rest.dirRoots = job.dirRoots
  BY <1>1 DEF Fields
<1> HIDE DEF rest
<1>3. CASE job' = rest /\ UNCHANGED tree
  <2>1. PICK k : k = rest
    OBVIOUS
  <2>2. Housed(k)
    BY <1>1, <1>2, <2>1 DEF Housed, Lists
  <2>3. ASSUME k.kind # "upload", ~went.walked PROVE Imported(k)
    <3>1. Rooted(job) /\ Carrying(job)
      BY <1>1, <1>2, <2>1, <2>3 DEF OInv, Imported
    <3> QED
      BY <1>1, <1>2, <2>1, <3>1 DEF Imported, Rooted, Carrying, Concerned, FoundIn
  <2> QED
    BY <1>1, <1>3, <2>1, <2>2, <2>3, JobGoesOn
<1>4. CASE parent \in DOMAIN job.real /\ ok
  <2>1. PICK n : /\ job' = [rest EXCEPT
                              !.real = [r \in DOMAIN @ \cup {dir} |->
                                          IF r = dir THEN Append(@[parent], n) ELSE @[r]],
                              !.made = @ \cup {Append(job.dest \o job.real[parent], n)}]
                 /\ tree' = [tree EXCEPT !.dirs = @ \cup {Append(job.dest \o job.real[parent], n)}]
                 /\ ~Taken(Append(job.dest \o job.real[parent], n))
    BY <1>4, ZenonT(40) DEF MakeUploadDir, rest
  <2> HIDE DEF dir, parent
  <2>2. PICK d, at, new : d = job.dest \o job.real[parent] /\ at = job.real[parent] /\ new = Append(d, n)
    OBVIOUS
  <2>3. IsPath(d) /\ IF job.kind = "upload" THEN d \in tree.dirs ELSE Veiled(d)
    BY <1>1, <1>4, <2>2, GoesSomewhere
  <2>4. tree'.dirs = tree.dirs \cup {new} /\ tree'.files = tree.files /\ new \notin tree.dirs \cup tree.files
    BY <1>1, <2>1, <2>2 DEF Taken
  <2>5. Grown'
    BY <1>1, <2>2, <2>3, <2>4, GrowsBy DEF OInv
  <2>6. PICK k : k = job'
    OBVIOUS
  <2>7. /\ k.stage = job.stage /\ k.kind = job.kind /\ k.dest = job.dest /\ k.roots = job.roots
        /\ k.files = job.files /\ k.stack = job.stack /\ k.dirs = job.dirs /\ k.dirRoots = job.dirRoots
        /\ k.real = [r \in DOMAIN job.real \cup {dir} |-> IF r = dir THEN Append(at, n) ELSE job.real[r]]
    BY <1>2, <2>1, <2>2, <2>6 DEF Fields
  <2>8. Housed(k)'
    <3>1. k.kind # "upload" => k.dest = Into /\ IsFiniteSet(k.roots) /\ Lists(k)
      BY <1>1, <2>7 DEF Housed, Lists
    <3>2. ASSUME k.kind = "upload", NEW r \in DOMAIN k.real PROVE k.dest \o k.real[r] \in tree'.dirs
      <4>1. CASE r = dir
        <5>1. job.dest \o Append(at, n) = new
          BY <1>1, <1>4, <2>2, MadeWhere
        <5> QED
          BY <2>4, <2>7, <4>1, <5>1
      <4>2. CASE r # dir
        BY <1>1, <2>4, <2>7, <3>2, <4>2 DEF Housed
      <4> QED
        BY <4>1, <4>2
    <3> QED
      BY <1>1, <2>7, <3>1, <3>2 DEF Housed, Lists
  <2>9. Housed(job)'
    BY <2>6, <2>8, HousedThen
  <2>10. ASSUME k.kind # "upload", ~went.walked PROVE Imported(job)'
    <3>1. Rooted(job) /\ Carrying(job)
      BY <1>1, <2>7, <2>10 DEF OInv, Imported
    <3>2. Imported(k)
      BY <1>1, <2>7, <3>1 DEF Imported, Rooted, Carrying, Concerned, FoundIn
    <3>3. Concerned(k)' \subseteq Concerned(k)
      BY <1>1, <2>4 DEF Concerned, Beneath, RootOf, Veiled
    <3>4. Imported(k)'
      BY <1>1, <3>2, <3>3, ImportStays
    <3> QED
      BY <2>6, <3>4, ImportedThen
  <2>11. OriginalsGoOnlyWhenImported'
    BY <1>1, OriginalsStay DEF OInv
  <2> QED
    BY <1>1, <2>5, <2>6, <2>9, <2>10, <2>11 DEF OInv
<1> QED
  BY <1>3, <1>4 DEF MakeUploadDir, rest

\* A file that is sent is in the vault; one that is not leaves its chosen entry broken.
LEMMA SendOwes == ASSUME FInv, OInv, NEW ok \in BOOLEAN, SendFile(ok) PROVE OInv'
<1> DEFINE f      == Head(job.files)
           dir    == job.dest \o job.real[f.rel]
           new    == Append(dir, FreeName(dir, Last(f.path)))
           rest   == [job EXCEPT !.files = Tail(@)]
<1>1. /\ job # None /\ job.stage = "files" /\ job.files # << >> /\ UNCHANGED shown /\ DOMAIN job = Fields
      /\ DOMAIN tree = {"dirs", "files"} /\ Placed(job) /\ Housed(job)
      /\ DOMAIN went = {"sealed", "trashed", "late", "walked"}
  BY DEF SendFile, FInv, Placed, Fields, OInv
<1>2. \/ /\ ok /\ f.rel \in DOMAIN job.real /\ ~Taken(new) /\ tree' = [tree EXCEPT !.files = @ \cup {new}]
         /\ job' = rest
         /\ went' = IF job.kind = "upload" THEN went ELSE [went EXCEPT !.sealed = @ \cup {f.path}]
      \/ /\ job' = [rest EXCEPT !.broken = @ \cup {ImportRootOf(f)}] /\ UNCHANGED <<tree, went>>
  BY Zenon DEF SendFile
<1>3. PICK k, g : k = job' /\ g = f
  OBVIOUS
<1>4. /\ k.stage = "files" /\ k.kind = job.kind /\ k.dest = job.dest /\ k.real = job.real /\ k.roots = job.roots
      /\ k.files = Tail(job.files) /\ k.stack = job.stack /\ k.dirs = job.dirs /\ k.dirRoots = job.dirRoots
      /\ k.broken \in {job.broken, job.broken \cup {ImportRootOf(g)}}
  BY <1>1, <1>2, <1>3 DEF Fields
<1>5. /\ \/ tree' = tree
         \/ /\ tree'.dirs = tree.dirs /\ tree'.files = tree.files \cup {new} /\ g.rel \in DOMAIN job.real
            /\ new \notin tree.dirs \cup tree.files
      /\ \/ went' = went
         \/ /\ DOMAIN went' = DOMAIN went /\ went'.sealed = went.sealed \cup {g.path}
            /\ went'.trashed = went.trashed /\ went'.late = went.late /\ went'.walked = went.walked
      /\ job.kind # "upload" => g.path \in went'.sealed \/ ImportRootOf(g) \in k.broken
  <2>1. CASE /\ ok /\ f.rel \in DOMAIN job.real /\ ~Taken(new) /\ tree' = [tree EXCEPT !.files = @ \cup {new}]
             /\ job' = rest
             /\ went' = IF job.kind = "upload" THEN went ELSE [went EXCEPT !.sealed = @ \cup {f.path}]
    <3> HIDE DEF new, f
    <3> QED
      BY <1>1, <1>3, <2>1 DEF Taken
  <2>2. CASE job' = [rest EXCEPT !.broken = @ \cup {ImportRootOf(f)}] /\ UNCHANGED <<tree, went>>
    <3>1. k.broken = job.broken \cup {ImportRootOf(g)}
      BY <1>1, <1>3, <2>2 DEF Fields
    <3> QED
      BY <2>2, <3>1
  <2> QED
    BY <1>2, <2>1, <2>2
<1>6. ASSUME g.rel \in DOMAIN job.real
      PROVE  /\ IsPath(dir) /\ IF job.kind = "upload" THEN dir \in tree.dirs ELSE Veiled(dir)
             /\ job.kind # "upload" => Veiled(new)
  <2>1. IsPath(dir) /\ IF job.kind = "upload" THEN dir \in tree.dirs ELSE Veiled(dir)
    BY <1>1, <1>3, <1>6, GoesSomewhere
  <2>2. PICK d, n : d = dir /\ new = Append(d, n)
    OBVIOUS
  <2>3. PICK a : a = Append(d, n)
    OBVIOUS
  <2>4. IsPath(a) /\ Len(d) <= Len(a) /\ \A i \in 1 .. Len(d) : d[i] = a[i]
    <3>1. IsPath(d) /\ Len(d) \in Nat
      BY <2>1, <2>2, PathSize
    <3>2. IsPath(a) /\ Len(a) = Len(d) + 1 /\ \A i \in 1 .. Len(d) : a[i] = d[i]
      BY <2>3, <3>1, LongerPath
    <3> QED
      BY <3>1, <3>2
  <2>5. IsPrefix(d, a)
    BY <2>1, <2>2, <2>4, PrefixOfPath
  <2>6. Veiled(d) => Veiled(a)
    BY <2>1, <2>2, <2>4, <2>5, VeilCovers
  <2> QED
    BY <2>1, <2>2, <2>3, <2>6
<1>7. PICK d, n : d = dir /\ new = Append(d, n)
  OBVIOUS
<1> HIDE DEF f, dir, rest
<1>8. Grown'
  <2>1. CASE tree' = tree
    BY <1>1, <2>1, GrownStays DEF OInv
  <2>2. CASE tree' # tree
    BY <1>1, <1>5, <1>6, <1>7, <2>2, GrowsBy DEF OInv
  <2> QED
    BY <2>1, <2>2
<1> HIDE DEF new
<1>9. Housed(job)'
  <2>1. IsPath(Tail(job.files)) \/ job.kind = "upload"
    BY <1>1, ListHead DEF Housed, Lists
  <2>2. tree'.dirs = tree.dirs
    BY <1>5
  <2>3. Housed(k)'
    BY <1>1, <1>4, <2>1, <2>2 DEF Housed, Lists
  <2> QED
    BY <1>3, <2>3, HousedThen
<1>10. ASSUME k.kind # "upload", ~went.walked PROVE Imported(job)'
  <2>1. Rooted(job) /\ Carrying(job)
    BY <1>1, <1>4, <1>10 DEF OInv, Imported
  <2>2. ToSet(job.files) = ToSet(k.files) \cup {g}
    BY <1>1, <1>3, <1>4, <1>10, ListHead DEF Housed, Lists, f
  <2>3. Concerned(k)' \subseteq Concerned(job)
    BY <1>1, <1>4, <1>5, <1>6, <1>10 DEF Concerned, Beneath, RootOf, Veiled
  <2>4. \A p : RootOf(p)' = RootOf(p) /\ (Beneath(p)' <=> Beneath(p))
    BY <1>1 DEF RootOf, Beneath
  <2>5. Rooted(k)'
    BY <2>1, <2>2, <2>4 DEF Rooted
  <2>6. ASSUME NEW p \in Concerned(job) PROVE p \in FoundIn(k) \cup went'.sealed \/ RootOf(p) \in k.broken
    <3>1. p \in FoundIn(job) \cup went.sealed \/ RootOf(p) \in job.broken
      BY <2>1, <2>6 DEF Carrying
    <3>2. CASE p \in went.sealed
      BY <1>5, <3>2
    <3>3. CASE RootOf(p) \in job.broken
      BY <1>4, <3>3
    <3>4. CASE p \in FoundIn(job)
      <4>1. CASE p = g.path
        <5>1. ImportRootOf(g) = RootOf(p)
          BY <2>1, <2>2, <4>1 DEF Rooted
        <5> QED
          BY <1>4, <1>5, <1>10, <4>1, <5>1
      <4>2. CASE p # g.path
        BY <2>2, <3>4, <4>2 DEF FoundIn
      <4> QED
        BY <4>1, <4>2
    <3> QED
      BY <3>1, <3>2, <3>3, <3>4
  <2>7. Carrying(k)'
    BY <1>4, <2>3, <2>4, <2>6 DEF Carrying, FoundIn
  <2>8. Imported(k)'
    BY <1>4, <2>5, <2>7 DEF Imported
  <2> QED
    BY <1>3, <2>8, ImportedThen
<1>11. OriginalsGoOnlyWhenImported'
  BY <1>5, OriginalsStay DEF OInv
<1>12. job'.kind = k.kind /\ (went'.walked <=> went.walked) /\ DOMAIN went' = DOMAIN went
  BY <1>3, <1>5
<1> QED
  BY <1>1, <1>8, <1>9, <1>10, <1>11, <1>12 DEF OInv

\* What goes with an original that is deleted is in the vault.
LEMMA DeleteOwes == ASSUME FInv, OInv, NEW ok \in BOOLEAN, DeleteOriginal(ok) PROVE OInv'
<1>1. /\ job # None /\ job.stage = "delete" /\ job.todo # << >> /\ UNCHANGED shown /\ DOMAIN job = Fields
      /\ Housed(job) /\ job.kind = "move" /\ DOMAIN went = {"sealed", "trashed", "late", "walked"}
      /\ IsPath(shown)
  BY DEF DeleteOriginal, FInv, Placed, Fields, OInv, Housed
<1>2. PICK k, n, path : k = job' /\ n = Head(job.todo) /\ path = Append(shown, n)
  OBVIOUS
<1>3. /\ k.stage = "delete" /\ k.kind = job.kind /\ k.dest = job.dest /\ k.real = job.real /\ k.roots = job.roots
      /\ k.todo = Tail(job.todo)
      /\ k.files = job.files /\ k.stack = job.stack /\ k.dirs = job.dirs /\ k.dirRoots = job.dirRoots
  BY <1>1, <1>2 DEF DeleteOriginal, Fields
<1>4. PICK gone : gone = {p \in tree.files : IsPrefix(path, p)}
  OBVIOUS
<1>5. \/ UNCHANGED <<tree, went>>
      \/ /\ tree' = [dirs |-> {d \in tree.dirs : ~IsPrefix(path, d)}, files |-> tree.files \ gone]
         /\ went' = [went EXCEPT !.trashed = @ \cup gone]
  BY <1>2, <1>4, Zenon DEF DeleteOriginal
<1>6. Grown'
  <2>1. IsPath(path) /\ ~IsPrefix(path, shown)
    <3>1. IsPath(path) /\ Len(path) = Len(shown) + 1 /\ Len(shown) \in Nat
      BY <1>1, <1>2, LongerPath, PathSize
    <3> QED
      BY <1>1, <3>1, PrefixOfPath
  <2>2. CASE UNCHANGED tree
    BY <1>1, <2>2, GrownStays DEF OInv
  <2>3. CASE tree' = [dirs |-> {d \in tree.dirs : ~IsPrefix(path, d)}, files |-> tree.files \ gone]
    BY <1>1, <1>4, <2>1, <2>3, ShrinksBy DEF OInv
  <2> QED
    BY <1>5, <2>2, <2>3
<1>7. /\ tree'.files \subseteq tree.files /\ DOMAIN went' = DOMAIN went
      /\ went'.sealed = went.sealed /\ went'.late = went.late /\ went'.walked = went.walked
      /\ went'.trashed \subseteq went.trashed \cup gone
  BY <1>1, <1>5
<1>8. Housed(job)'
  <2>1. Housed(k)'
    BY <1>1, <1>3 DEF Housed, Lists
  <2> QED
    BY <1>2, <2>1, HousedThen
<1>9. ASSUME ~went.walked
      PROVE  Imported(job)' /\ \A p \in gone : p \in went.sealed \cup went.late \/ Veiled(p)
  <2>1. Deleting(job)
    BY <1>1, <1>9 DEF OInv, Imported
  <2>2. IsPath(k.todo) /\ ToSet(k.todo) \subseteq ToSet(job.todo) /\ n \in ToSet(job.todo)
    BY <1>1, <1>2, <1>3, <2>1, ListHead DEF Deleting
  <2>3. Concerned(k)' \subseteq Concerned(job)
    BY <1>1, <1>3, <1>7 DEF Concerned, Beneath, RootOf, Veiled
  <2>4. \A p : RootOf(p)' = RootOf(p)
    BY <1>1 DEF RootOf
  <2>5. Deleting(k)'
    BY <1>3, <1>7, <2>1, <2>2, <2>3, <2>4 DEF Deleting
  <2>6. Imported(k)'
    BY <1>3, <2>5 DEF Imported
  <2>7. Imported(job)'
    BY <1>2, <2>6, ImportedThen
  <2>8. ASSUME NEW p \in gone, p \notin went.late, ~Veiled(p) PROVE p \in went.sealed
    <3>1. p \in tree.files /\ IsPrefix(path, p) /\ IsPath(p)
      BY <1>4, <2>8 DEF OInv, Grown
    <3>2. Beneath(p) /\ RootOf(p) = n
      BY <1>1, <1>2, <3>1, InsideEntry
    <3>3. p \in Concerned(job)
      BY <2>1, <2>2, <2>8, <3>1, <3>2 DEF Concerned, Deleting
    <3> QED
      BY <2>1, <2>2, <3>2, <3>3 DEF Deleting
  <2> QED
    BY <2>7, <2>8
<1>10. OriginalsGoOnlyWhenImported'
  BY <1>7, <1>9 DEF OInv, OriginalsGoOnlyWhenImported, Veiled
<1> QED
  BY <1>1, <1>6, <1>7, <1>8, <1>9, <1>10 DEF OInv

LEMMA AddOwes == ASSUME FInv, OInv, NEW p \in Added, AddedElsewhere(p) PROVE OInv'
<1>1. /\ UNCHANGED <<shown, job>> /\ ~Taken(p) /\ Front(p) \in tree.dirs /\ IsPath(p)
      /\ tree' = [tree EXCEPT !.files = @ \cup {p}] /\ went' = [went EXCEPT !.late = @ \cup {p}]
      /\ DOMAIN tree = {"dirs", "files"} /\ DOMAIN went = {"sealed", "trashed", "late", "walked"}
  BY TransferAssumption DEF AddedElsewhere, FInv, OInv
<1>2. p # << >>
  <2>1. Front(<< >>) = << >>
    BY DEF Front
  <2> QED
    BY <1>1, <2>1 DEF Taken
<1>3. PICK d, n : d = Front(p) /\ p = Append(d, n)
  BY <1>1, <1>2, LastJoins
<1>4. Grown'
  <2>1. tree'.files = tree.files \cup {p} /\ tree'.dirs = tree.dirs /\ p \notin tree.dirs \cup tree.files
    BY <1>1 DEF Taken
  <2>2. IsPath(d) /\ d \in tree.dirs
    BY <1>1, <1>3 DEF FInv
  <2> QED
    BY <1>1, <1>3, <2>1, <2>2, GrowsBy DEF OInv
<1>5. /\ tree'.dirs = tree.dirs /\ tree'.files = tree.files \cup {p} /\ DOMAIN went' = DOMAIN went
      /\ went'.sealed = went.sealed /\ went'.late = went.late \cup {p} /\ went'.walked = went.walked
      /\ went'.trashed = went.trashed
  BY <1>1
<1>6. Housed(job) => Housed(job)'
  BY <1>1, <1>5 DEF Housed, Lists
<1>7. Imported(job) => Imported(job)'
  <2>1. PICK j : j = job
    OBVIOUS
  <2>2. Concerned(j)' \subseteq Concerned(j)
    BY <1>1, <1>5 DEF Concerned, Beneath, RootOf, Veiled
  <2>3. Imported(j) => Imported(j)'
    BY <1>1, <1>5, <2>2, ImportStays
  <2> QED
    BY <1>1, <2>1, <2>3, ImportedThen
<1>8. OriginalsGoOnlyWhenImported'
  BY <1>5, OriginalsStay DEF OInv
<1> QED
  BY <1>1, <1>4, <1>5, <1>6, <1>7, <1>8 DEF OInv

LEMMA OInvInit == TransferInit => OInv
<1> SUFFICES ASSUME TransferInit PROVE OInv
  OBVIOUS
<1>1. Grown
  BY TransferAssumption DEF TransferInit, Grown, Folded
<1> QED
  BY <1>1 DEF TransferInit, OInv, OriginalsGoOnlyWhenImported

LEMMA OInvNext == FInv /\ OInv /\ [Next]_pageVars => OInv'
<1>0. [Next]_pageVars => Transfers \/ UNCHANGED transferVars
  BY DEF Next, InBrowser, InEditor, InViewer, InDialog, WithSongs, InTransfer, pageVars
<1> SUFFICES ASSUME FInv, OInv, Transfers \/ UNCHANGED transferVars PROVE OInv'
  BY <1>0
<1>1. ASSUME UNCHANGED <<tree, shown, went>>, job' = job \/ job' = None PROVE OInv'
  <2>1. PICK k : k = job'
    OBVIOUS
  <2> QED
    BY <1>1, <2>1, JobGoesOn DEF OInv
<1>2. CASE ScanFails \/ OriginalsGone \/ SealUp \/ UNCHANGED transferVars
  BY <1>1, <1>2 DEF ScanFails, OriginalsGone, SealUp, transferVars
<1> QED
  BY <1>2, UploadOwes, ImportOwes, ScanOwes, DirsMadeOwes, SentOwes, MakeOwes, SendOwes, DeleteOwes,
     WalkOwes, AddOwes DEF Transfers

\* Whatever fails or is added meanwhile, a move into a vault deletes no file that it has not got.
THEOREM OriginalsAreKept == PageSpec => []OriginalsGoOnlyWhenImported
<1>1. Init => FInv /\ OInv
  BY FInvInit, OInvInit DEF Init
<1>2. FInv /\ OInv /\ [Next]_pageVars => FInv' /\ OInv'
  BY FInvNext, OInvNext
<1>3. OInv => OriginalsGoOnlyWhenImported
  BY DEF OInv
<1> QED
  BY <1>1, <1>2, <1>3, PTL DEF PageSpec

=============================================================================
