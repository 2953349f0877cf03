----------------------------- MODULE MCBatchCasts -----------------------------
(***************************************************************************)
(* Two casts in one run, drawn at the start and kept: two passes that ask  *)
(* again for a held job, against a cancel; and a pass beside a watch that  *)
(* may be killed.  The others stay at rest.  Its behaviours, the cast left *)
(* out, are behaviours of Spec.                                            *)
(***************************************************************************)
EXTENDS MCBatches

VARIABLE cast

AskedAgain == [actors |-> {run1, pass1, pass2, stop1}, watches |-> {}]
Watched == [actors |-> {run1, pass1}, watches |-> {w1}]

\* The target takes a watched job twice at most.
Around == cast = Watched => queue'[c1] = "free"

CastInit == Init /\ cast \in {AskedAgain, Watched}

CastNext ==
    /\ \/ \E d \in cast.actors : Acts(d) /\ UNCHANGED watching
       \/ \E w \in cast.watches : WatchActs(w) /\ UNCHANGED dispatching
       \/ \E h \in Handles : JobEnds(h) /\ UNCHANGED <<dispatching, watching>>
    /\ Around
    /\ UNCHANGED cast

CastSpec == CastInit /\ [][CastNext]_<<vars, cast>>
==============================================================================
