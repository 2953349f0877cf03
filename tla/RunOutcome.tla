------------------------------ MODULE RunOutcome ------------------------------
(***************************************************************************)
(* What the lifecycle promises about a rented run, whoever carries it out: *)
(* it is decided once, nothing starts to bill for it afterwards, and its   *)
(* outcome is delivered only when nothing bills for it any more.           *)
(*                                                                         *)
(*   outcome    Open until decided, then the settled word                  *)
(*   billing    never, may (a machine may exist), ended                    *)
(*   delivered  whether the outcome stands as reported, so that no sweep   *)
(*              will look at the run again                                 *)
(***************************************************************************)
CONSTANTS Runs, Settled

VARIABLES outcome, billing, delivered

outcomes == <<outcome, billing, delivered>>

Open == "open"

\* Nothing bills: delivering is allowed.
Quiet(r) == billing[r] # "may"

Init ==
    /\ outcome = [r \in Runs |-> Open]
    /\ billing = [r \in Runs |-> "never"]
    /\ delivered = [r \in Runs |-> FALSE]

\* A machine is asked for, only while the run is open.
Ask(r) ==
    /\ outcome[r] = Open /\ billing[r] = "never"
    /\ billing' = [billing EXCEPT ![r] = "may"]
    /\ UNCHANGED <<outcome, delivered>>

\* The provider declined before anything existed.
Decline(r) ==
    /\ outcome[r] = Open /\ billing[r] = "may"
    /\ billing' = [billing EXCEPT ![r] = "never"]
    /\ UNCHANGED <<outcome, delivered>>

End(r) ==
    /\ billing[r] = "may"
    /\ billing' = [billing EXCEPT ![r] = "ended"]
    /\ UNCHANGED <<outcome, delivered>>

\* The one decision; a run nothing bills for may be delivered with it.
Decide(r) ==
    /\ outcome[r] = Open
    /\ outcome'[r] \in Settled
    /\ outcome' = [outcome EXCEPT ![r] = outcome'[r]]
    /\ \/ Quiet(r) /\ delivered' = [delivered EXCEPT ![r] = TRUE]
       \/ UNCHANGED delivered
    /\ UNCHANGED billing

Deliver(r) ==
    /\ outcome[r] # Open /\ Quiet(r)
    /\ delivered' = [delivered EXCEPT ![r] = TRUE]
    /\ UNCHANGED <<outcome, billing>>

\* A late report of another verdict, or a target no longer declared, takes
\* deliveries back.
Recall ==
    /\ UNCHANGED <<outcome, billing>>
    /\ \E back \in SUBSET Runs :
          delivered' = [r \in Runs |-> delivered[r] /\ r \notin back]

Next ==
    \/ Recall
    \/ \E r \in Runs : Ask(r) \/ Decline(r) \/ End(r) \/ Decide(r) \/ Deliver(r)

Spec == Init /\ [][Next]_outcomes
==============================================================================
