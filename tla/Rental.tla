-------------------------------- MODULE Rental --------------------------------
(***************************************************************************)
(* The world a rental lives in, shared by every process that acts on it:   *)
(* the provider's machine, the job its entrypoint runs, the log that dies  *)
(* with the machine, the settlement lock, and time.                        *)
(*                                                                         *)
(*   machine   none, asked (a create is in flight), up, or gone            *)
(*   job       idle while the entrypoint waits for its launch file, then   *)
(*             running, then ok or failed; unlanded if it gave up waiting  *)
(*   log       how much of the job's log was captured here: unread,        *)
(*             partial (read while the job ran), full (read after it)      *)
(*   event     what the newest EVIDENCE event published says: none yet,    *)
(*             copied, or anything else                                    *)
(*   term      how the lease's deadline stands: open, due, or overdue (due *)
(*             for longer than the reaper's GRACE)                         *)
(*   young     whether the row was submitted less than GRACE ago           *)
(*   declared  whether the manifest still declares the target              *)
(*   lock      who holds the settlement lock, None when nobody does        *)
(*                                                                         *)
(* Wall-clock instants are kept only as the phases decisions compare them  *)
(* to, so no bound on time is needed.                                      *)
(***************************************************************************)
EXTENDS RunRegistry

CONSTANTS
    GraceEnds,     \* whether the reaper's GRACE may run out on a row or lease
    MayUndeclare,  \* whether the manifest may drop the target mid-run
    None           \* nobody, and no run

ASSUME RentalAssumption ==
    /\ GraceEnds \in BOOLEAN
    /\ MayUndeclare \in BOOLEAN

VARIABLES machine, job, log, event, term, young, declared, lock

clockVars == <<term, young, declared>>
world == <<machine, job, log, event, clockVars, lock>>

RentalTypeOK ==
    /\ RegistryTypeOK
    /\ machine \in [Runs -> {"none", "asked", "up", "gone"}]
    /\ job \in [Runs -> {"idle", "running", "ok", "failed", "unlanded"}]
    /\ log \in [Runs -> {"unread", "partial", "full"}]
    /\ event \in [Runs -> {"none", "copied", "other"}]
    /\ term \in [Runs -> {"open", "due", "overdue"}]
    /\ young \in [Runs -> BOOLEAN]
    /\ declared \in BOOLEAN

RentalInit ==
    /\ RegistryInit
    /\ machine = [r \in Runs |-> "none"]
    /\ job = [r \in Runs |-> "idle"]
    /\ log = [r \in Runs |-> "unread"]
    /\ event = [r \in Runs |-> "none"]
    /\ term = [r \in Runs |-> "open"]
    /\ young = [r \in Runs |-> TRUE]
    /\ declared = TRUE
    /\ lock = None

(***************************************************************************)
(* Reading and acting on a rental.                                         *)
(***************************************************************************)
\* Lease.expired, and Kept.expired past the reaper's grace.
Expired(r) == leased[r] /\ term[r] # "open"
Overdue(r) == leased[r] /\ term[r] = "overdue"

Launched(r) == job[r] \in {"running", "ok", "failed"}
Ended(r) == job[r] \in {"ok", "failed", "unlanded"}

\* CloudBackend.state: the words a poll may answer.  An exit file that could
\* not be read says `running` whatever happened.
Polled(r) ==
    CASE machine[r] = "gone"                 -> {"vanished"}
      [] machine[r] # "gone" /\ Ended(r)     ->
             {"running", IF job[r] = "ok" THEN "ok" ELSE "failed"}
      [] OTHER                               -> {"running"}

\* ProviderBackend.cancel went through; asking twice is expected.
EndMachine(r) == machine' = [machine EXCEPT ![r] = "gone"]

\* Settlement.capture read the log of an up machine, or could not read it.
ReadLog(r) ==
    /\ machine[r] = "up"
    /\ log' = [log EXCEPT ![r] = IF Ended(r) THEN "full" ELSE "partial"]

\* Settlement.evidence: the record first, then its event, which a full disk
\* or a death may leave unpublished.
Evidence(r, status) ==
    /\ Delivery(r, status)
    /\ \/ event' = [event EXCEPT ![r] =
                IF status \in Copied THEN "copied" ELSE "other"]
       \/ UNCHANGED event

Acquire(who) == lock = None /\ lock' = who
Release(who) == lock' = IF lock = who THEN None ELSE lock

(***************************************************************************)
(* What happens with nobody here acting.                                   *)
(***************************************************************************)
\* A create in flight takes effect, its reply heard or not.
Appear(r) ==
    /\ machine[r] = "asked"
    /\ machine' = [machine EXCEPT ![r] = "up"]
    /\ UNCHANGED <<registry, job, log, event, clockVars, lock>>

\* The launched command exits, or the entrypoint gives up waiting for a
\* landing (rentals.waiting).
JobEnds(r) ==
    /\ machine[r] = "up"
    /\ \/ job[r] = "running" /\ \E w \in {"ok", "failed"} :
             job' = [job EXCEPT ![r] = w]
       \/ job[r] = "idle" /\ job' = [job EXCEPT ![r] = "unlanded"]
    /\ UNCHANGED <<registry, machine, log, event, clockVars, lock>>

\* The provider takes the machine back, or its own cap ends it.
Preempted(r) ==
    /\ machine[r] = "up"
    /\ EndMachine(r)
    /\ UNCHANGED <<registry, job, log, event, clockVars, lock>>

LeasePasses(r) ==
    /\ leased[r]
    /\ term[r] = "open" \/ (GraceEnds /\ term[r] = "due")
    /\ term' = [term EXCEPT ![r] = IF @ = "open" THEN "due" ELSE "overdue"]
    /\ UNCHANGED <<registry, machine, job, log, event, young, declared, lock>>

\* Only a submitting row's age is ever read.
GracePasses(r) ==
    /\ GraceEnds
    /\ IsSubmitting(r) /\ young[r]
    /\ young' = [young EXCEPT ![r] = FALSE]
    /\ UNCHANGED <<registry, machine, job, log, event, term, declared, lock>>

Undeclare ==
    /\ MayUndeclare /\ declared
    /\ declared' = FALSE
    /\ UNCHANGED <<registry, machine, job, log, event, term, young, lock>>

Passing(r) ==
    Appear(r) \/ JobEnds(r) \/ Preempted(r) \/ LeasePasses(r) \/ GracePasses(r)
==============================================================================
