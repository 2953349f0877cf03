------------------------------ MODULE MCOutbox ------------------------------
(***************************************************************************)
(* One or two keeps, of a text and of a file, two calls, a pass, a reader. *)
(***************************************************************************)
EXTENDS Outbox, TLC

CONSTANTS k1, k2, call1, call2, pass1, reader1

Calls == Permutations({call1, call2})
==============================================================================
