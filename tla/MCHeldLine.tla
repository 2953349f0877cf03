------------------------------ MODULE MCHeldLine ------------------------------
(***************************************************************************)
(* Small held lines: one or two entries, two generations, one or two lines.*)
(***************************************************************************)
EXTENDS HeldLine, TLC

CONSTANTS h1, h2, pass1, cancel1
==============================================================================
