-------------------------------- MODULE Reaping --------------------------------
(***************************************************************************)
(* The orphan sweep: Reaper.once, decide and Kept.ruling                   *)
(* (settling/reaping/reaper.py).                                           *)
(*                                                                         *)
(* A pass lists the provider's machines first and reads the registry       *)
(* after, both under the settlement lock; its rulings are then applied one *)
(* by one, against rows that deadlines and landings keep changing outside  *)
(* that lock.  One machine per creation label is modelled, so a label is   *)
(* never listed twice and a bound row always names the listed machine.     *)
(*                                                                         *)
(*   spot[k]    where reaper k stands                                      *)
(*   listed[k]  the machines its provider listed, then those still to rule *)
(*   ruled[k]   the ruling on each                                         *)
(***************************************************************************)
EXTENDS Rental

CONSTANTS
    Reapers,     \* the processes that run reap passes
    ReapDeletes  \* whether rulings are applied, or only logged

ASSUME ReapingAssumption == ReapDeletes \in BOOLEAN

VARIABLES spot, listed, ruled

reapVars == <<spot, listed, ruled>>

ReapTypeOK ==
    /\ spot \in [Reapers -> {"idle", "decide", "apply"}]
    /\ listed \in [Reapers -> SUBSET Runs]
    /\ ruled \in [Reapers -> [Runs -> {"keep", "bind", "end"}]]

Unruled == [r \in Runs |-> "keep"]

ReapInit ==
    /\ spot = [k \in Reapers |-> "idle"]
    /\ listed = [k \in Reapers |-> {}]
    /\ ruled = [k \in Reapers |-> Unruled]

EndOwed(r) ==                        \* mutant: owed runs are ended as done ones
    IF IsPrepared(r) THEN "keep"
    ELSE IF IsSubmitting(r) THEN IF young[r] THEN "keep" ELSE "bind"
    ELSE IF IsSettled(r) \/ Overdue(r) THEN "end" ELSE "keep"

\* Kept.ruling, on a machine listed under r's label: the first that applies.
Ruling(r) ==
    IF IsPrepared(r) THEN "keep"
    ELSE IF IsSubmitting(r) THEN IF young[r] THEN "keep" ELSE "bind"
    ELSE IF Closed(r) \/ Overdue(r) THEN "end" ELSE "keep"

\* Reaper.once and _listed: the lock without waiting, then the listing; a
\* provider that cannot list is left alone.
ReapClaim(k) ==
    /\ spot[k] = "idle"
    /\ Acquire(k)
    /\ spot' = [spot EXCEPT ![k] = "decide"]
    /\ \E up \in {{r \in Runs : machine[r] = "up"}, {}} :
          listed' = [listed EXCEPT ![k] = up]
    /\ UNCHANGED <<registry, machine, job, log, event, clockVars, ruled>>

\* Reaper._decided: the registry is read after the listing.
Decide(k) ==
    /\ spot[k] = "decide"
    /\ spot' = [spot EXCEPT ![k] = "apply"]
    /\ ruled' = [ruled EXCEPT ![k] =
          [r \in Runs |-> IF r \in listed[k] THEN Ruling(r) ELSE "keep"]]
    /\ listed' = [listed EXCEPT ![k] =
          IF ReapDeletes THEN {r \in @ : Ruling(r) # "keep"} ELSE {}]
    /\ UNCHANGED <<registry, world>>

\* Reaper._attempt: a bind goes through Allocation.created, which refuses a
\* row that is no longer submitting; an end may be refused by the provider.
Apply(k, r) ==
    /\ spot[k] = "apply"
    /\ r \in listed[k]
    /\ listed' = [listed EXCEPT ![k] = @ \ {r}]
    /\ \/ ruled[k][r] = "bind" /\ Bind(r) /\ UNCHANGED machine
       \/ ruled[k][r] = "bind" /\ ~IsSubmitting(r) /\ UNCHANGED <<registry, machine>>
       \/ ruled[k][r] = "end" /\ EndMachine(r) /\ UNCHANGED registry
       \/ ruled[k][r] = "end" /\ UNCHANGED <<registry, machine>>
    /\ UNCHANGED <<job, log, event, clockVars, lock, spot, ruled>>

Retire(k) ==
    /\ spot' = [spot EXCEPT ![k] = "idle"]
    /\ listed' = [listed EXCEPT ![k] = {}]
    /\ ruled' = [ruled EXCEPT ![k] = Unruled]
    /\ Release(k)
    /\ UNCHANGED <<registry, machine, job, log, event, clockVars>>

ReapDone(k) == spot[k] = "apply" /\ listed[k] = {} /\ Retire(k)
ReapCrash(k) == spot[k] # "idle" /\ Retire(k)

ReapWork(k) ==
    ReapClaim(k) \/ Decide(k) \/ (\E r \in Runs : Apply(k, r)) \/ ReapDone(k)

ReapStep(k) == ReapWork(k) \/ ReapCrash(k)
==============================================================================
