------------------------------- MODULE MCBatches -------------------------------
(***************************************************************************)
(* Small batches: one or two jobs, each with a placeholder and one to      *)
(* three handles the target may give it (the bound on how often it is      *)
(* taken).                                                                 *)
(***************************************************************************)
EXTENDS Batches, TLC

CONSTANTS j1, j2, p1, p2, a1, b1, c1, a2, run1, pass1, pass2, stop1, w1, w2

Asked == [r \in Runs |-> IF r \in {p2, a2} THEN j2 ELSE j1]

\* Every run that ends is ok: whether it is told does not turn on the word.
\* Its behaviours are behaviours of FairSpec.
AllOk == \A h \in Handles : verdict'[h] # "failed"
OkSpec == Init /\ [][Next /\ AllOk]_vars /\ Fairness
==============================================================================
