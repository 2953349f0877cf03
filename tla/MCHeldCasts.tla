----------------------------- MODULE MCHeldCasts ------------------------------
(***************************************************************************)
(* Two casts in one run, drawn at the start and kept: one line and one     *)
(* allocation, released under two entries, one of which may land late; and *)
(* two lines, two keepers and two allocations over one entry that is       *)
(* cancelled, where a line may be opened because a beat is late.  Its      *)
(* behaviours, the cast left out, are behaviours of Spec.                  *)
(***************************************************************************)
EXTENDS MCHeldLine

VARIABLE cast

Released == "released"
Reopened == "reopened"

\* Only the second entry's write is ever unanswered, no read loses its reply,
\* PBS keeps its history, and one exit code stands for all: the properties
\* ask whether there is one.
Around ==
    /\ \A h \in Entries :
        sub'[h] # "submitting" /\ exits'[h] \in {NoExit, "terminated"}
    /\ sub'[h1] # "confirm"
    /\ \A g \in Gens : pbs'[g] # "forgotten"
    /\ \/ cast = Released /\ line' <= 1 /\ dirs' \subseteq {1} /\ ask' = ask
       \/ /\ cast = Reopened /\ sub'[h1] # "failed" /\ sub'[h2] = "fresh"
          /\ on'[cancel1] # h2 /\ stopping' # "qdel"

CastInit == Init /\ cast \in {Released, Reopened}
CastNext == Next /\ Around /\ UNCHANGED cast
CastSpec == CastInit /\ [][CastNext]_<<vars, cast>>
==============================================================================
