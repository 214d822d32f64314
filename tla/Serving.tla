------------------------------- MODULE Serving -------------------------------
(***************************************************************************)
(* What the handlers of the server share: the goroutines that run them,    *)
(* and the bound on what happens while one is watched.                     *)
(***************************************************************************)
EXTENDS Naturals

CONSTANTS None,     \* nil
          Handler   \* goroutines serving requests

\* bound: requests, faults and restarts to come
VARIABLE left

Spend == left > 0 /\ left' = left - 1
==============================================================================
