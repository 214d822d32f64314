--------------------------------- MODULE Page ---------------------------------
(***************************************************************************)
(* The parts of the page under one roof, for TLC.  A session has an        *)
(* errand: the parts of the page it uses and how many gestures it makes,   *)
(* so that what is explored is the sum of the errands, not the product of  *)
(* the parts.                                                              *)
(***************************************************************************)
EXTENDS Browser, Editor, Viewer, Dialog, Player, Transfer

CONSTANT Errands    \* bound: [uses: the parts used, gestures]

ASSUME ErrandsAssumption == \A e \in Errands : e.gestures \in Nat

VARIABLE uses       \* the parts of the page this session uses

songVars == <<tagsVars, playerVars>>
pageVars == <<left, uses, browserVars, editorVars, viewerVars, dialogVars, songVars, transferVars>>

Init ==
  /\ \E e \in Errands : uses = e.uses /\ left = e.gestures
  /\ BrowserInit /\ EditorInit /\ ViewerInit /\ DialogInit /\ PlayerInit /\ TransferInit
  /\ "listen" \notin uses => play.mode = "off" /\ ~play.mix
  /\ "view" \notin uses => ~viewer.vault
  /\ "talk" \notin uses => scope = "folder"

InBrowser ==
  /\ \/ "browse" \in uses /\ (BrowserAsync \/ Browse)
     \/ "write" \in uses /\ (Select \/ Write)
     \/ "vault" \in uses /\ UseVault
  /\ UNCHANGED <<editorVars, viewerVars, dialogVars, songVars, transferVars>>

InEditor ==
  /\ "edit" \in uses /\ Edit
  /\ UNCHANGED <<browserVars, viewerVars, dialogVars, songVars, transferVars>>

InViewer ==
  /\ "view" \in uses /\ View
  /\ UNCHANGED <<browserVars, editorVars, dialogVars, songVars, transferVars>>

InDialog ==
  /\ "talk" \in uses /\ Converse
  /\ UNCHANGED <<browserVars, editorVars, viewerVars, songVars, transferVars>>

WithSongs ==
  /\ \/ "listen" \in uses /\ Listen
     \/ "tag" \in uses /\ Autotag
     \/ "level" \in uses /\ LevelSongs
     \/ "sync" \in uses /\ TagsMove
     \/ "retag" \in uses /\ play.where = "none" /\ TagsNext /\ TagsGiven
                       /\ UNCHANGED <<play, order, level, gains, ghost>>
  /\ UNCHANGED <<browserVars, editorVars, viewerVars, dialogVars, transferVars>>

InTransfer ==
  /\ "transfer" \in uses /\ Transfers
  /\ UNCHANGED <<browserVars, editorVars, viewerVars, dialogVars, songVars>>

Next ==
  /\ UNCHANGED uses
  /\ InBrowser \/ InEditor \/ InViewer \/ InDialog \/ WithSongs \/ InTransfer

PageSpec == Init /\ [][Next]_pageVars
------------------------------------------------------------------------------
(* The values of the constants in the runs.                                *)

Errand(parts, n) == [uses |-> parts, gestures |-> n]

AnySession ==
  {Errand({"browse", "write", "vault"}, 3), Errand({"browse", "vault"}, 4), Errand({"edit"}, 7),
   Errand({"view"}, 6), Errand({"talk"}, 6), Errand({"listen", "tag"}, 5),
   Errand({"listen", "level"}, 5), Errand({"listen", "tag", "sync"}, 4), Errand({"retag"}, 5),
   Errand({"transfer"}, 4)}

ThreeNames   == <<"f", "g", "h">>
ThreeSongs   == <<"a", "b", "c">>
TwoAndAVideo == <<"image", "image", "video">>

PickerFolders == {<< >>, <<"a">>, <<"b">>, <<"a", "c">>}
PickerBlocked == {<<"b">>}

\* home holds the file f and the folder d, with a folder e and a vault n in it; other holds an f too
DriveFolders == {<<"home">>, <<"other">>, <<"vlt">>, <<"home", "d">>, <<"home", "d", "e">>,
                 <<"home", "d", "n">>}
DriveFiles == {<<"home", "f">>, <<"other", "f">>, <<"home", "d", "g">>, <<"home", "d", "e", "h">>,
               <<"home", "d", "n", "blob">>}
DriveVaults == {<<"home", "d", "n">>, <<"vlt">>}
DriveVault  == <<"vlt">>
AddedLater  == {<<"home", "k">>, <<"home", "d", "k">>}
DropOnHome  == <<"home">>
DroppedOnce == {[dirs |-> << <<"d", "e">> >>, files |-> <<[path |-> <<"d", "x">>, rel |-> <<"d">>],
                                               [path |-> <<"d", "e", "x">>, rel |-> <<"d", "e">>]>>]}
DriveNames == {"d", "e", "f", "g", "h", "k", "x"}
Suffixed   == [n \in DriveNames \cup {n \o "2" : n \in DriveNames} |-> n \o "2"]
==============================================================================
