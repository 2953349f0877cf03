------------------------------- MODULE MCHolds -------------------------------
(***************************************************************************)
(* One held machine, its lease and its hold a few ticks long.              *)
(***************************************************************************)
EXTENDS Holds, TLC

CONSTANTS rental, user, expirer

request == [r \in {rental} |-> "hold"]
==============================================================================
