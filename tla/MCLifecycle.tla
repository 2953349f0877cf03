------------------------------ MODULE MCLifecycle ------------------------------
(***************************************************************************)
(* Small instances of the lifecycle: one or two runs asking for the same   *)
(* thing, one or two settling passes, a stopper, a reaper.                 *)
(***************************************************************************)
EXTENDS Lifecycle, TLC

CONSTANTS r1, r2, p1, p2, s1, k1

OneRequest == [r \in Runs |-> "request"]

Interchangeable == Permutations({r1, r2}) \cup Permutations({p1, p2})
==============================================================================
