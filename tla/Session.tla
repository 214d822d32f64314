------------------------------- MODULE Session -------------------------------
(***************************************************************************)
(* What the parts of the page share: the values that stand for null and    *)
(* for a failed request, and the bound on what happens in one session.     *)
(***************************************************************************)
EXTENDS Naturals, FiniteSets, SequencesExt

CONSTANTS None,     \* null
          Failed    \* the answer of a request that failed

\* bound: what the user, other sessions and faults may still do in this session
VARIABLE left

Gesture == left > 0 /\ left' = left - 1

\* A path is a sequence of names.
IsPath(p) == p \in Seq(ToSet(p))
==============================================================================
