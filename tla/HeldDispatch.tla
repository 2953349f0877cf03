----------------------------- MODULE HeldDispatch -----------------------------
(***************************************************************************)
(* A batch offered to its target, and what becomes of the jobs the         *)
(* target's quota refuses: Batch.run (batch/runner.py), Dispatcher.handed  *)
(* and hold (dispatch/dispatcher/core.py), Monitor.held and                *)
(* Settlement.resumed (settling/monitor/), Verdicts.__unheld               *)
(* (waiting/verdicts.py).                                                  *)
(*                                                                         *)
(*   at[d]    where actor d stands                                         *)
(*   todo[d]  the jobs it has still to offer                               *)
(*   job[d]   the job it is offering                                       *)
(*   got[d]   what the target answered: a handle, or a refusal             *)
(*   owner    who holds the settlement lock                                *)
(*   begun, deaths   how often a batch was run, and a process killed       *)
(*   lost     what the target took although its dispatcher was told that   *)
(*            it was refused                                               *)
(*                                                                         *)
(* A batch takes no lock; passes and cancels take the settlement lock.  A  *)
(* fault nothing catches ends its process, as a kill does.                 *)
(***************************************************************************)
EXTENDS BatchStream

CONSTANTS
    Runners,    \* processes that run the batch
    Passes,     \* processes that run settling passes
    Stoppers,   \* processes that cancel
    Refusals,   \* how the target may refuse
    MaxDeaths,  \* how many processes may be killed
    MaxRuns,    \* how often the batch may be run
    None

Quota == "quota"
Outage == "outage"
Rejected == "rejected"

ASSUME DispatchAssumption ==
    /\ Refusals \subseteq {Quota, Outage, Rejected}
    /\ MaxDeaths \in Nat /\ MaxRuns \in Nat
    /\ Refusals \cap Runs = {}
    /\ Runners \cap Passes = {} /\ Stoppers \cap (Runners \cup Passes) = {}
    /\ None \notin Runs \cup Jobs \cup Refusals \cup Runners \cup Passes \cup Stoppers

Actors == Runners \cup Passes \cup Stoppers

VARIABLES at, todo, job, got, owner, begun, deaths, lost

dispatching == <<at, todo, job, got, owner, begun, deaths, lost>>

DispatchTypeOK ==
    /\ at \in [Actors -> {"idle", "next", "ask", "record", "receipt", "forget",
                          "refuse", "hold", "told", "report"}]
    /\ todo \in [Actors -> SUBSET Jobs]
    /\ job \in [Actors -> Jobs \cup {None}]
    /\ got \in [Actors -> Handles \cup Refusals \cup {None}]
    /\ owner \in Actors \cup {None}
    /\ begun \in 0..MaxRuns /\ deaths \in 0..MaxDeaths
    /\ lost \subseteq Handles

DispatchInit ==
    /\ at = [d \in Actors |-> "idle"]
    /\ todo = [d \in Actors |-> {}]
    /\ job = [d \in Actors |-> None]
    /\ got = [d \in Actors |-> None]
    /\ owner = None
    /\ begun = 0 /\ deaths = 0
    /\ lost = {}

Go(d, from, to) ==
    /\ at[d] = from
    /\ at' = [at EXCEPT ![d] = to]
    /\ UNCHANGED <<begun, deaths>>
\* The job at hand is dealt with.
Done(d, from) ==
    /\ Go(d, from, "next")
    /\ job' = [job EXCEPT ![d] = None]
    /\ got' = [got EXCEPT ![d] = None]
    /\ UNCHANGED <<todo, owner>>
OnJob == UNCHANGED <<todo, job, got, owner>>

(***************************************************************************)
(* Board.dispatch, as the batch and the pass both call it: the scheduler   *)
(* takes the job, and only then is its handle recorded.                    *)
(***************************************************************************)
Offer(d) ==
    \E j \in todo[d] :
        /\ Go(d, "next", "ask")
        /\ todo' = [todo EXCEPT ![d] = @ \ {j}]
        /\ job' = [job EXCEPT ![d] = j]
        /\ UNCHANGED <<got, owner, registry, stream, queue>>

Taken(d) ==
    \E h \in HandlesOf(job[d]) :
        /\ queue[h] = "free"
        /\ queue' = [queue EXCEPT ![h] = "live"]
        /\ Go(d, "ask", "record")
        /\ got' = [got EXCEPT ![d] = h]
        /\ UNCHANGED <<todo, job, owner, registry, stream>>

ReceiptFirst(d) ==                  \* mutant: the receipt goes before the row
    /\ Go(d, "record", "receipt")
    /\ Answer(job[d], "submitted", got[d])
    /\ OnJob /\ UNCHANGED <<registry, queue>>

Recorded(d) ==
    /\ Go(d, "record", IF d \in Passes THEN "forget" ELSE "receipt")
    /\ Record(got[d])
    /\ OnJob /\ UNCHANGED <<stream, queue>>

\* publish SUBMITTED: Batch.dispatch for the batch, Settlement.submitted for
\* a pass.
Receipt(d) ==
    /\ Done(d, "receipt")
    /\ Answer(job[d], "submitted", got[d])
    /\ UNCHANGED <<registry, queue>>

(***************************************************************************)
(* Batch.run and what it does with a refusal.                              *)
(***************************************************************************)
RunBatch(d) ==
    /\ d \in Runners
    /\ at[d] = "idle" /\ begun < MaxRuns
    /\ at' = [at EXCEPT ![d] = "next"]
    /\ begun' = begun + 1
    /\ \E chosen \in SUBSET Jobs : todo' = [todo EXCEPT ![d] = chosen]
    /\ UNCHANGED <<job, got, owner, deaths, registry, stream, queue>>

RunEnds(d) ==
    /\ d \in Runners /\ todo[d] = {}
    /\ Go(d, "next", "idle")
    /\ OnJob /\ UNCHANGED <<registry, stream, queue>>

\* Batch.dispatch's except clause, on what dispatching raised at `from`.
BatchRefused(d, from, why) ==
    /\ d \in Runners
    /\ IF why = Quota
       THEN /\ Go(d, from, "hold")
            /\ OnJob /\ UNCHANGED stream
       ELSE /\ Done(d, from)
            /\ Answer(job[d], "refused", NoHandle)
    /\ UNCHANGED registry

ToldFirst(d) ==                     \* mutant: the receipt, and no row
    /\ d \in Runners
    /\ Go(d, "hold", "told")
    /\ OnJob /\ UNCHANGED <<registry, stream, queue>>

\* Batch.held: Dispatcher.hold, then the receipt.
BatchHolds(d) ==
    /\ d \in Runners
    /\ Go(d, "hold", "told")
    /\ Hold(Placeholder(job[d]))
    /\ OnJob /\ UNCHANGED <<stream, queue>>

BatchTold(d) ==
    /\ Done(d, "told")
    /\ Answer(job[d], "held", NoHandle)
    /\ UNCHANGED <<registry, queue>>

(***************************************************************************)
(* One settling pass: Monitor.held over the held rows, then the sweep.     *)
(***************************************************************************)
OnlySweeps(d) ==                    \* mutant: held rows are not looked at
    /\ d \in Passes /\ owner = None
    /\ owner' = d
    /\ Go(d, "idle", "next")
    /\ UNCHANGED <<todo, job, got, registry, stream, queue>>

PassClaims(d) ==
    /\ d \in Passes
    /\ owner = None
    /\ owner' = d
    /\ Go(d, "idle", "next")
    /\ todo' = [todo EXCEPT ![d] = {j \in Jobs : verdict[Placeholder(j)] = "held"}]
    /\ UNCHANGED <<job, got, registry, stream, queue>>

\* Settlement._refused: a full quota is asked again by the next pass, any
\* other refusal settles the row failed.
PassRefused(d, from, why) ==
    /\ d \in Passes
    /\ IF why = Quota
       THEN Done(d, from)
       ELSE /\ Go(d, from, "refuse")
            /\ got' = [got EXCEPT ![d] = why]
            /\ UNCHANGED <<todo, job, owner>>
    /\ UNCHANGED <<registry, stream>>

PassFails(d) ==
    /\ Go(d, "refuse", "report")
    /\ Resolve(Placeholder(job[d]), FALSE, "failed")
    /\ OnJob /\ UNCHANGED <<stream, queue>>

NeverForgets(d) ==                  \* mutant: the placeholder stays
    /\ Go(d, "forget", "receipt")
    /\ OnJob /\ UNCHANGED <<registry, stream, queue>>

\* Settlement.resumed drops the placeholder once the run is recorded.
PassForgets(d) ==
    /\ Go(d, "forget", "receipt")
    /\ Forget(Placeholder(job[d]))
    /\ OnJob /\ UNCHANGED <<stream, queue>>

\* Monitor._settle of a queued run, its cursor moved in the same pass: what
\* Settling models step by step.
PassSettles(d, h) ==
    /\ d \in Passes
    /\ at[d] = "next" /\ todo[d] = {}
    /\ Exists(h) /\ ~IsSettled(h)
    /\ IF queue[h] = "over"
       THEN \E word \in {"ok", "failed"} :
                /\ verdict' = [verdict EXCEPT ![h] = word]
                /\ reported' = [reported EXCEPT ![h] = word]
                /\ UNCHANGED <<stopped, evidence, leased, bound>>
       ELSE /\ verdict[h] # "running"
            /\ Resolve(h, FALSE, "running")
    /\ UNCHANGED <<dispatching, stream, queue>>

PassEnds(d) ==
    /\ d \in Passes /\ todo[d] = {}
    /\ Go(d, "next", "idle")
    /\ owner' = None
    /\ UNCHANGED <<todo, job, got, registry, stream, queue>>

(***************************************************************************)
(* Verdicts.__unheld: cancel a held request, under the lock.               *)
(***************************************************************************)
Unheld(d) ==
    /\ d \in Stoppers
    /\ owner = None
    /\ \E j \in Jobs :
        /\ verdict[Placeholder(j)] = "held"
        /\ Resolve(Placeholder(j), TRUE, "cancelled")
        /\ job' = [job EXCEPT ![d] = j]
    /\ owner' = d
    /\ Go(d, "idle", "report")
    /\ UNCHANGED <<todo, got, stream, queue>>

\* Both ways of giving a held request up report it in the same breath.
Reports(d) ==
    /\ at[d] = "report"
    /\ Report(Placeholder(job[d]), IF d \in Passes THEN "failed" ELSE "cancelled")
    /\ IF d \in Passes
       THEN Done(d, "report")
       ELSE /\ Go(d, "report", "idle")
            /\ job' = [job EXCEPT ![d] = None]
            /\ owner' = None
            /\ UNCHANGED <<todo, got>>
    /\ UNCHANGED <<stream, queue>>

(***************************************************************************)
(* What dispatching raises.  Slurm.submit and Pbs.submit raise SystemExit  *)
(* on any answer without a handle, one cut off after the queue took the    *)
(* job included; and handed writes the record after the queue took it.     *)
(***************************************************************************)
Raises(d, from, why) == BatchRefused(d, from, why) \/ PassRefused(d, from, why)

Refused(d, why) == Raises(d, "ask", why) /\ UNCHANGED queue

\* The link drops after the queue took the job.
TakenUnheard(d) ==
    \E h \in HandlesOf(job[d]) :
        /\ Outage \in Refusals
        /\ queue[h] = "free"
        /\ queue' = [queue EXCEPT ![h] = "live"]
        /\ lost' = lost \cup {h}
        /\ Raises(d, "ask", Outage)

\* The queue took the job, and the registry cannot be written.
RecordFails(d) ==
    /\ Outage \in Refusals
    /\ lost' = lost \cup {got[d]}
    /\ Raises(d, "record", Outage)
    /\ UNCHANGED queue

\* A killed process forgets what it was doing; its lock is the OS's to free.
Dies(d) ==
    /\ at[d] # "idle" /\ deaths < MaxDeaths
    /\ deaths' = deaths + 1
    /\ at' = [at EXCEPT ![d] = "idle"]
    /\ todo' = [todo EXCEPT ![d] = {}]
    /\ job' = [job EXCEPT ![d] = None]
    /\ got' = [got EXCEPT ![d] = None]
    /\ owner' = IF owner = d THEN None ELSE owner
    /\ UNCHANGED <<begun, registry, stream, queue>>

\* Every step of d that loses sight of no job.
Works(d) ==
    \/ RunBatch(d) \/ RunEnds(d)
    \/ PassClaims(d) \/ PassEnds(d)
    \/ Offer(d) \/ Taken(d) \/ Recorded(d) \/ Receipt(d)
    \/ \E why \in Refusals : Refused(d, why)
    \/ BatchHolds(d) \/ BatchTold(d)
    \/ PassFails(d) \/ PassForgets(d)
    \/ \E h \in Handles : PassSettles(d, h)
    \/ Unheld(d) \/ Reports(d)
    \/ Dies(d)

Acts(d) ==
    \/ Works(d) /\ UNCHANGED lost
    \/ TakenUnheard(d) \/ RecordFails(d)
==============================================================================
