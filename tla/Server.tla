-------------------------------- MODULE Server --------------------------------
(***************************************************************************)
(* Parts of the server under one roof, for TLC.  The part that is watched  *)
(* is chosen at the start, with how many requests and faults come its way, *)
(* so that what is explored is the sum of the parts, not their product:    *)
(* they have no state in common.                                           *)
(***************************************************************************)
EXTENDS Shares, BucketMove, Thumbs, Logins

CONSTANT Watches    \* bound: [part: the part watched, spend: requests and faults]

VARIABLE part

serverVars == <<left, part, sharesVars, bucketVars, thumbsVars, loginsVars>>

\* Where a part is not watched, one of its initial states will do.
Init ==
  /\ \E w \in Watches : part = w.part /\ left = w.spend
  /\ SharesInit /\ BucketInit /\ ThumbsInit /\ LoginsInit
  /\ part # "buckets" => \A k \in Key : store[k] # None => k[1] \in Drive
  /\ part # "thumbs" => files = [n \in Name |-> None]

Next ==
  /\ UNCHANGED part
  /\ \/ part = "shares" /\ SharesNext /\ UNCHANGED <<bucketVars, thumbsVars, loginsVars>>
     \/ part = "buckets" /\ BucketNext /\ UNCHANGED <<sharesVars, thumbsVars, loginsVars>>
     \/ part = "thumbs" /\ ThumbsNext /\ UNCHANGED <<sharesVars, bucketVars, loginsVars>>
     \/ part = "logins" /\ LoginsNext /\ UNCHANGED <<left, sharesVars, bucketVars, thumbsVars>>

ServerSpec == Init /\ [][Next]_serverVars
------------------------------------------------------------------------------
(* The values of the constants in the runs.                                *)

Watch(p, n) == [part |-> p, spend |-> n]

AnyPart == {Watch("shares", 5), Watch("buckets", 3), Watch("thumbs", 4), Watch("logins", 0)}

\* Names, contents and goroutines are interchangeable, and so are the buckets.
Symmetry ==
  Permutations(Handler) \cup Permutations(Top) \cup Permutations(Folder \ Drive) \cup Permutations(Picture)
==============================================================================
