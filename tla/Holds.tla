-------------------------------- MODULE Holds --------------------------------
(***************************************************************************)
(* A machine held as a host (holding/holds.py): set up after its rental,   *)
(* given the hold's deadline in place of the rental's, and ended by its    *)
(* release, by `expire`, by the deadline pass (settling/monitor/           *)
(* deadlines.py) or by its provider, each in a process of its own.         *)
(*                                                                         *)
(* It starts where backend.rent has returned: the machine is up, its row   *)
(* is bound under the rental's own lease, and its evidence reads           *)
(* not_started (Landing models the way there).                             *)
(*                                                                         *)
(*   now       the clock                                                   *)
(*   machine   whether the machine is up                                   *)
(*   lease     the row's release_by                                        *)
(*   due       the deadline the holdings record for the alias, or NotHeld  *)
(*   ready     the deadline Holds.hold counted when the machine was ready  *)
(*   at        where Holds.hold stands; "held" when it has returned        *)
(*   overran   the set-up outlived the rental's lease or the drafted       *)
(*             deadline                                                    *)
(*   swept     where the deadline pass stands                              *)
(*   copied    whether that pass read evidence that had arrived            *)
(*   ending    where each caller of Holds.release stands                   *)
(*   asked     whether the user released it, or the provider took it back  *)
(***************************************************************************)
EXTENDS RunRegistry, Naturals

CONSTANTS
    run,        \* the rental's row
    Lifetime,   \* how long the rental's own lease lasts
    Duration,   \* how long the machine is held once ready
    MaxTime,    \* how far the clock runs
    Enders,     \* processes that release, or expire what is past due
    Expirer     \* the one of them that runs `expire`

ASSUME HoldAssumption ==
    /\ Runs = {run} /\ Placeholders = {}
    /\ Lifetime \in Nat /\ Duration \in Nat /\ MaxTime \in Nat

VARIABLES now, machine, lease, due, ready, at, overran, swept, copied, ending, asked

hold == <<due, ready, at, overran>>
clock == <<now, lease>>
pass == <<swept, copied>>
vars == <<registry, clock, machine, hold, pass, ending, asked>>

NotHeld == MaxTime + 1      \* later than any deadline
Least(t) == IF t < MaxTime THEN t ELSE MaxTime

Init ==
    /\ verdict = [r \in Runs |-> "queued"]
    /\ stopped = [r \in Runs |-> FALSE]
    /\ reported = [r \in Runs |-> Nothing]
    /\ evidence = [r \in Runs |-> "not_started"]
    /\ leased = [r \in Runs |-> TRUE]
    /\ bound = [r \in Runs |-> TRUE]
    /\ now = 0
    /\ machine = "up"
    /\ lease = Lifetime
    /\ due = NotHeld /\ ready = NotHeld
    /\ at = "rented"
    /\ overran = FALSE
    /\ swept = "idle" /\ copied = FALSE
    /\ ending = [e \in Enders |-> "idle"]
    /\ asked = FALSE

TypeOK ==
    /\ RegistryTypeOK
    /\ now \in 0..MaxTime
    /\ machine \in {"up", "gone"}
    /\ lease \in 0..MaxTime
    /\ due \in 0..NotHeld /\ ready \in 0..NotHeld
    /\ at \in {"rented", "setup", "parked", "recorded", "delivered", "held",
               "abandon", "forget", "dead"}
    /\ overran \in BOOLEAN /\ copied \in BOOLEAN /\ asked \in BOOLEAN
    /\ swept \in {"idle", "seen", "noted", "cancelled", "closed", "reported"}
    /\ ending \in [Enders -> {"idle", "cancel", "forget"}]

Tick ==
    /\ now < MaxTime
    /\ now' = now + 1
    /\ UNCHANGED <<registry, machine, lease, hold, pass, ending, asked>>

(***************************************************************************)
(* Holds._keep, from the rental in hand to the hold handed back.           *)
(***************************************************************************)
To(from, point) ==
    /\ at = from
    /\ at' = point
    /\ UNCHANGED <<now, pass, ending, asked>>
Idle == UNCHANGED <<registry, machine, lease, due, ready, overran>>

\* The alias, and the hold as drafted before set-up.
Draft ==
    /\ To("rented", "setup")
    /\ due' = Least(now + Duration)
    /\ UNCHANGED <<registry, machine, lease, ready, overran>>

\* Set up and parked, which only a machine that is up can be.
SetUp ==
    /\ machine = "up"
    /\ To("setup", "parked")
    /\ Idle

\* The ready hold, due from now.
RecordReady ==
    /\ To("parked", "recorded")
    /\ ready' = Least(now + Duration)
    /\ due' = ready'
    /\ overran' = (now >= lease \/ now >= due \/ due = NotHeld)
    /\ UNCHANGED <<registry, machine, lease>>

\* _relet, in two registry writes.
DeliverPending ==
    /\ To("recorded", "delivered")
    /\ Delivery(run, "pending")
    /\ UNCHANGED <<machine, lease, due, ready, overran>>

KeepsLease ==                       \* mutant: the lease is not moved
    /\ To("delivered", "held")
    /\ Idle

MoveLease ==
    /\ To("delivered", "held")
    /\ Relet(run)
    /\ lease' = ready
    /\ overran' = (overran \/ now >= lease)
    /\ UNCHANGED <<machine, due, ready>>

\* Anything _keep raises runs _abandon; a killed process runs nothing.
Fails ==
    /\ at \in {"rented", "setup", "parked", "recorded", "delivered"}
    /\ To(at, "abandon")
    /\ Idle
Dies ==
    /\ at \notin {"held", "dead"}
    /\ To(at, "dead")
    /\ Idle

(***************************************************************************)
(* Holds._end, as _abandon, release and expire call it: the rental is      *)
(* cancelled through Verdicts.cancel, then forgotten.  Stopping has the    *)
(* steps of a cancel; here it is the outcome they come to.                 *)
(***************************************************************************)

\* The row closed on `word`, unless it had settled, its evidence as found.
Book(word) ==
    LET kept == IF IsSettled(run) THEN verdict[run] ELSE word IN
    \E found \in {"verified", "unverified"} :
        /\ verdict' = [verdict EXCEPT ![run] = kept]
        /\ reported' = [reported EXCEPT ![run] = kept]
        /\ stopped' = [stopped EXCEPT ![run] = (kept = "cancelled")]
        /\ evidence' = [evidence EXCEPT ![run] = found]
        /\ UNCHANGED <<leased, bound>>

CancelRental ==
    IF Closed(run)
    THEN UNCHANGED <<registry, machine>>
    ELSE machine' = "gone" /\ Book("cancelled")

\* A provider that refuses: evidence recorded, the machine kept.
RefuseRental ==
    /\ ~Closed(run)
    /\ Delivery(run, "unverified")
    /\ UNCHANGED machine

\* Refused, the rental is still tracked and its alias still held.
Abandon ==
    /\ To("abandon", "forget")
    /\ CancelRental
    /\ UNCHANGED <<lease, due, ready, overran>>
AbandonRefused ==
    /\ To("abandon", "dead")
    /\ RefuseRental
    /\ UNCHANGED <<lease, due, ready, overran>>
AbandonForgets ==
    /\ To("forget", "dead")
    /\ due' = NotHeld
    /\ UNCHANGED <<registry, machine, lease, ready, overran>>

Keeper == UNCHANGED <<clock, ready, at, overran, pass>>
Ending(e, from, point) == ending[e] = from /\ ending' = [ending EXCEPT ![e] = point]

Expired == due <= now \/ IsSettled(run)
Release(e) ==
    /\ due # NotHeld
    /\ e = Expirer => Expired
    /\ Ending(e, "idle", "cancel")
    /\ asked' = (asked \/ e # Expirer)
    /\ UNCHANGED <<registry, machine, due>> /\ Keeper

EndCancels(e) ==
    /\ Ending(e, "cancel", "forget")
    /\ CancelRental
    /\ UNCHANGED <<due, asked>> /\ Keeper
EndRefused(e) ==
    /\ Ending(e, "cancel", "idle")
    /\ RefuseRental
    /\ UNCHANGED <<due, asked>> /\ Keeper
EndForgets(e) ==
    /\ Ending(e, "forget", "idle")
    /\ due' = NotHeld
    /\ UNCHANGED <<registry, machine, asked>> /\ Keeper

(***************************************************************************)
(* Deadlines.expired: no lock, each write its own step, on the row as it   *)
(* was read again when the pass came to it.                                *)
(***************************************************************************)
Pass(from, point) ==
    /\ swept = from
    /\ swept' = point
    /\ UNCHANGED <<clock, hold, ending, asked>>

OnlyLaunched ==                     \* mutant: a hold that started nothing is passed over
    /\ Tracked(run) /\ now >= lease /\ evidence[run] # "not_started"
    /\ Pass("idle", "seen")
    /\ copied' = (evidence[run] \in Copied)
    /\ UNCHANGED <<registry, machine>>

SeeExpired ==
    /\ Tracked(run) /\ now >= lease
    /\ Pass("idle", "seen")
    /\ copied' = (evidence[run] \in Copied)
    /\ UNCHANGED <<registry, machine>>
NoteEvidence ==
    /\ Pass("seen", "noted")
    /\ Delivery(run, IF copied THEN "copied" ELSE "unverified")
    /\ UNCHANGED <<machine, copied>>

CloseFirst ==                       \* mutant: booked before it is cancelled
    /\ Pass("noted", "cancelled")
    /\ Resolve(run, FALSE, "timeout")
    /\ UNCHANGED <<machine, copied>>
CancelDue ==
    /\ Pass("noted", "cancelled")
    /\ machine' = "gone"
    /\ UNCHANGED <<registry, copied>>
CancelRefused ==
    /\ Pass("noted", "idle")
    /\ UNCHANGED <<registry, machine, copied>>
CloseTimeout ==
    /\ Pass("cancelled", "closed")
    /\ Resolve(run, FALSE, "timeout")
    /\ UNCHANGED <<machine, copied>>
CloseEvidence ==
    /\ Pass("closed", "reported")
    /\ Delivery(run, IF copied THEN "verified" ELSE "unverified")
    /\ UNCHANGED <<machine, copied>>
CloseReport ==
    /\ Pass("reported", "idle")
    /\ Report(run, verdict[run])
    /\ UNCHANGED <<machine, copied>>
PassDies ==
    /\ swept # "idle"
    /\ Pass(swept, "idle")
    /\ UNCHANGED <<registry, machine, copied>>

(***************************************************************************)
(* The provider takes the machine back, and a settling pass books it.      *)
(***************************************************************************)
TakenBack ==
    /\ machine = "up"
    /\ machine' = "gone"
    /\ asked' = TRUE
    /\ UNCHANGED <<registry, clock, hold, pass, ending>>
Settles ==
    /\ machine = "gone" /\ Tracked(run)
    /\ Book("vanished")
    /\ UNCHANGED <<machine, clock, hold, pass, ending, asked>>

Keeps == Draft \/ SetUp \/ RecordReady \/ DeliverPending \/ MoveLease
         \/ Abandon \/ AbandonForgets
Sweeps == SeeExpired \/ NoteEvidence \/ CancelDue \/ CloseTimeout \/ CloseEvidence
          \/ CloseReport
Ends(e) == Release(e) \/ EndCancels(e) \/ EndForgets(e)

Next ==
    \/ Tick
    \/ Keeps \/ Fails \/ Dies \/ AbandonRefused
    \/ Sweeps \/ CancelRefused \/ PassDies
    \/ \E e \in Enders : Ends(e) \/ EndRefused(e)
    \/ TakenBack \/ Settles

Spec == Init /\ [][Next]_vars

(***************************************************************************)
(* Properties.                                                             *)
(***************************************************************************)

\* A machine that is up is on a row some sweep still owes an outcome, under a
\* lease: whatever crashed, a pass finds it and may end it.
UpIsTracked == machine = "up" => Tracked(run) /\ leased[run]

\* A hold handed back is kept until it is due, unless its user or its
\* provider ended it, if its set-up did not overrun.
KeptUntilDue ==
    at = "held" /\ ~overran /\ ~asked /\ now < ready => machine = "up"

\* Deadline passes and settling passes, which are scheduled, go on, time
\* passes, a pass is not killed at the same step for ever, and a provider that
\* refuses a cancel does not refuse every one.  Nothing is assumed of a release
\* or of `expire`: each runs when somebody types it, and may die anywhere.
Fairness ==
    /\ WF_vars(Tick) /\ WF_vars(Keeps) /\ WF_vars(Settles)
    /\ WF_vars(SeeExpired) /\ SF_vars(NoteEvidence) /\ SF_vars(CancelDue)
    /\ SF_vars(CloseTimeout) /\ SF_vars(CloseEvidence) /\ SF_vars(CloseReport)
FairSpec == Spec /\ Fairness

\* No machine bills for ever, wherever its holder fails or dies.
MachineEnds == <>(machine = "gone")


\* holds.py:302: "The deadline counts from the moment the machine is ready
\* [...]; until then the rental's own lease, priced with the landing, bounds
\* it."
SetUpIsNotExpired ==
    [][\A e \in Enders :
        EndCancels(e) /\ e = Expirer /\ machine = "up" /\ at = "setup" => now >= lease]_vars

\* holds.py:216: _relet moves the lease "to the hold's deadline, so the sweep
\* releases it then".
ReadyIsKept == at = "held" /\ ~asked /\ now < ready => machine = "up"
==============================================================================
