------------------------------- MODULE Lifecycle -------------------------------
(***************************************************************************)
(* The life of rented runs: the processes that land them, settle them,     *)
(* stop them and reap their machines, all acting on one run registry, one  *)
(* provider and one settlement lock, with any of them dying at any point.  *)
(***************************************************************************)
EXTENDS Landing, Settling, Stopping, Reaping

ASSUME ActorsAssumption ==
    /\ Placeholders = {}      \* quota-held requests never reach a provider here
    /\ Runs \cap (Passes \cup Stoppers \cup Reapers) = {}
    /\ Passes \cap (Stoppers \cup Reapers) = {}
    /\ Stoppers \cap Reapers = {}
    /\ None \notin Runs \cup Passes \cup Stoppers \cup Reapers

vars == <<registry, world, land, passVars, stopVars, reapVars>>

TypeOK ==
    /\ RentalTypeOK
    /\ lock \in {None} \cup Runs \cup Passes \cup Stoppers \cup Reapers
    /\ land \in [Runs -> LandPoints]
    /\ PassTypeOK
    /\ StopTypeOK
    /\ ReapTypeOK

Init == RentalInit /\ LandInit /\ PassInit /\ StopInit /\ ReapInit

Environment(r) == Passing(r) /\ UNCHANGED <<land, passVars, stopVars, reapVars>>
Drop == Undeclare /\ UNCHANGED <<land, passVars, stopVars, reapVars>>
Lander(r) == LandStep(r) /\ UNCHANGED <<passVars, stopVars, reapVars>>
Settler(p) == PassStep(p) /\ UNCHANGED <<land, stopVars, reapVars>>
Stopper(s) == StopStep(s) /\ UNCHANGED <<land, passVars, reapVars>>
Collector(k) == ReapStep(k) /\ UNCHANGED <<land, passVars, stopVars>>

Next ==
    \/ \E r \in Runs : Environment(r)
    \/ Drop
    \/ \E r \in Runs : Lander(r)
    \/ \E p \in Passes : Settler(p)
    \/ \E s \in Stoppers : Stopper(s)
    \/ \E k \in Reapers : Collector(k)

Spec == Init /\ [][Next]_vars

(***************************************************************************)
(* Safety.                                                                 *)
(***************************************************************************)
\* Once a row is settled and reported no sweep looks at it again, so by then
\* the provider bills nothing for it: every closing path releases before it
\* reports.  (An undeclared target is the stated exception: `_abandon`.)
ClosedMeansEnded ==
    declared => \A r \in Runs : Closed(r) => machine[r] \in {"none", "gone"}

\* A creation settled before its handle was recorded never reached the
\* provider: nothing it could have allocated is left without a row to find
\* it by.
SettledUnboundNeverAsked ==
    \A r \in Runs : IsSettled(r) /\ ~bound[r] => machine[r] = "none"

\* Two machines that no row names yet never stand for one request: a retry
\* cannot rent again while the first create may still have allocated.
OneUncertainMachine ==
    \A r, s \in Runs :
        /\ r # s /\ Request[r] = Request[s]
        /\ machine[r] # "none" /\ ~bound[r]
        => ~(machine[s] # "none" /\ ~bound[s])

\* A job is only handed to a machine whose row has not settled, although the
\* row is read, marked and the job handed over in three separate steps.
LaunchOnlyUnsettled ==
    [][\A r \in Runs : job[r] = "idle" /\ job'[r] = "running" => ~IsSettled(r)]_vars

\* A landing that gives up ends its machine only when no job was handed to
\* it: an ambiguous launch is left to the settling passes.
AbortSparesLaunched ==
    [][\A r \in Runs :
          /\ land[r] = "abortCancel" /\ land'[r] = "done"
          /\ machine'[r] # machine[r]
          => ~Launched(r)]_vars

\* The reaper ends a machine only when its row is closed or its lease is
\* past the grace, even though the row is read before the provider is asked.
ReaperSpares ==
    [][\A k \in Reapers, r \in Runs :
          spot[k] = "apply" /\ listed'[k] # listed[k] /\ machine'[r] # machine[r]
             => Closed(r) \/ Overdue(r)]_vars

(***************************************************************************)
(* The inductive invariant behind these properties: what each process      *)
(* relies on at each of its points, with the row and the machine.          *)
(***************************************************************************)
\* A row is bound exactly from the moment its machine is known; before that
\* only a submitting row can have a machine, and one that settles closes in the
\* same write; nothing is reported before it settled, nor closed while its
\* machine is up.
RowInv(r) ==
    /\ verdict[r] \notin {Unresolved, "held"}
    /\ bound[r] => verdict[r] \notin Pending \cup {NoRow}
    /\ bound[r] => machine[r] \in {"up", "gone"}
    /\ ~bound[r] => verdict[r] \in Pending \cup {NoRow, "failed", "cancelled"}
    /\ ~bound[r] /\ verdict[r] # "submitting" => machine[r] = "none"
    /\ ~IsSettled(r) => reported[r] = Nothing
    /\ ~bound[r] /\ IsSettled(r) => Closed(r)
    /\ declared /\ Closed(r) => machine[r] \in {"none", "gone"}

LandBound ==
    {"boot", "unreachable", "equip", "launch", "check", "mark", "start",
     "abort", "abortFail", "abortCancel", "interruptFail"}

LandInv(r) ==
    /\ land[r] = "new" <=> verdict[r] = NoRow
    /\ land[r] \in {"create", "declined"} =>
          verdict[r] = "submitting" /\ machine[r] = "none"
    /\ land[r] = "bind" => machine[r] \in {"up", "gone"}
    /\ land[r] \in LandBound => bound[r]

PassResting == {"idle", "expire", "settle"}
PassReleased ==
    {"xClose", "xSeal", "xReport", "hSeal", "hReport", "uMark", "uReport"}
PassExpiring == {"xMark", "xCancel", "xClose"}
PassClosing == {"xSeal", "xReport"}

PassInv(p) ==
    /\ \A r \in due[p] \cup todo[p] : bound[r]
    /\ point[p] \notin PassResting => at[p] \in Runs /\ bound[at[p]]
    /\ point[p] \in PassReleased => machine[at[p]] = "gone"
    /\ point[p] \notin PassResting \cup PassExpiring => IsSettled(at[p])
    /\ point[p] \notin PassResting \cup PassExpiring \cup PassClosing =>
          told[p][at[p]] \in Words
    /\ \A r \in Runs : told[p][r] \in Settled =>
          told[p][r] \in {"ok", "failed", "vanished"} \/ IsSettled(r)

StopInv(s) ==
    /\ stage[s] # "idle" => run[s] \in Runs
    /\ stage[s] \notin {"idle", "unprepare"} => bound[run[s]]
    /\ stage[s] \in {"seal", "report"} => machine[run[s]] = "gone"
    /\ stage[s] \in {"release", "seal", "report", "disown"} => IsSettled(run[s])
    /\ stage[s] \in {"abandon", "forsake", "disown"} => ~declared
    /\ said[s] \in Settled
    /\ stage[s] \in {"capture", "preserve", "kill", "stop"} =>
          said[s] \in {"cancelled", "ok", "failed"} \/ IsSettled(run[s])

ReapInv(k) == \A r \in listed[k] : machine[r] \in {"up", "gone"}

\* Two unresolved creations never ask for the same thing.
IntentInv ==
    \A r, s \in Runs :
        Uncreated(r) /\ Uncreated(s) /\ Request[r] = Request[s] => r = s

IInv ==
    /\ TypeOK
    /\ IntentInv
    /\ \A r \in Runs : RowInv(r) /\ LandInv(r)
    /\ \A p \in Passes : PassInv(p)
    /\ \A s \in Stoppers : StopInv(s)
    /\ \A k \in Reapers : ReapInv(k)

(***************************************************************************)
(* Evidence.                                                               *)
(***************************************************************************)
\* Evidence recorded as arrived is the log of the whole job, whatever passes
\* died, raced or were repeated in between.  It holds as long as nobody stops
\* the run by hand (see CapturePrecedesRelease).
EvidenceIsComplete ==
    \A r \in Runs : Launched(r) /\ evidence[r] \in Copied => log[r] = "full"

\* Behind it: the job is over before a run settles or is collected from, and
\* what is recorded as arrived is whole.
LandOver == {"abort", "abortFail", "abortCancel", "interrupted", "interruptFail", "done"}
Jobless(r) ==
    /\ ~Launched(r)
    /\ land[r] \in LandOver \/ machine[r] = "gone" \/ job[r] = "unlanded"
Over(r) == machine[r] = "gone" \/ Ended(r) \/ Jobless(r)
Whole(r) == log[r] = "full" \/ Jobless(r)

EvidenceRow(r) ==
    /\ land[r] \notin {"abort", "done"} => ~Launched(r)
    /\ log[r] = "partial" => Jobless(r)
    /\ evidence[r] \in Copied \/ event[r] = "copied" => Whole(r)
    /\ IsSettled(r) => Over(r)

PassCopied == {"recover", "hCopied", "hRelease", "hRetry", "hSeal"}
PassDue == {"xMark", "xCancel", "xClose", "xSeal"}

EvidencePass(p, r) ==
    /\ told[p][r] \in Settled => Over(r)
    /\ at[p] = r =>
          /\ point[p] = "collect" => Over(r)
          /\ point[p] \in PassCopied => Whole(r)
          /\ point[p] \in PassDue /\ flag[p] => Whole(r)

EvidenceInv(r) == EvidenceRow(r) /\ \A p \in Passes : EvidencePass(p, r)

\* settlement.py: "Capture must precede release, which destroys a rented
\* instance and its log": a pass releases a finished job's machine only with
\* the log of the whole job captured here.
CapturePrecedesRelease ==
    [][\A p \in Passes :
          LET r == at[p] IN
          /\ point[p] = "hRelease" /\ point'[p] = "hSeal"
          /\ machine[r] = "up" /\ Launched(r)
          => log[r] = "full"]_vars

\* deadlines.py: "Previously copied evidence survives" a release at the
\* deadline.
CopiedSurvivesDeadline ==
    [][\A p \in Passes :
          LET r == at[p] IN
          /\ point[p] \in {"xMark", "xSeal"} /\ point'[p] # point[p]
          /\ evidence[r] \in Copied
          => evidence'[r] \in Copied]_vars

\* registry.py: "`copied` means hashes were verified but release is pending;
\* `verified` means settlement finished": a row every sweep is done with, and
\* that no pass is working on, is not left at `copied`.
CopiedMeansReleasePending ==
    \A r \in Runs :
        /\ evidence[r] = "copied"
        /\ \A p \in Passes : at[p] # r
        => ~Closed(r)

\* verdicts.py: "advance the cursor only after release", for every stop.
CursorAfterRelease ==
    \A r \in Runs : Closed(r) => machine[r] \in {"none", "gone"}

(***************************************************************************)
(* What the lifecycle implements.                                          *)
(***************************************************************************)
OutcomeOf == [r \in Runs |-> IF IsSettled(r) THEN verdict[r] ELSE "open"]
BillingOf ==
    [r \in Runs |-> IF machine[r] = "none" THEN "never"
                    ELSE IF machine[r] = "gone" THEN "ended" ELSE "may"]
DeliveredOf == [r \in Runs |-> declared /\ Closed(r)]

Outcome == INSTANCE RunOutcome WITH
    outcome <- OutcomeOf, billing <- BillingOf, delivered <- DeliveredOf

\* Landing, settling, stopping and reaping together keep the promise: one
\* decision per run, nothing rented after it, delivery once nothing bills.
KeepsOutcome == Outcome!Spec

(***************************************************************************)
(* Liveness.  A process that is not killed goes on; a pass may be killed   *)
(* or refused by the provider any number of times, but not every time at   *)
(* the same step, so each step of a release at the deadline is strongly    *)
(* fair.  Nothing is assumed of a reaper: its child of `serve` is switched *)
(* off, and it deletes nothing until it is told to.                        *)
(***************************************************************************)
Pass(A) == A /\ UNCHANGED <<land, stopVars, reapVars>>

TimePasses(r) == Environment(r) /\ <<term, young>>' # <<term, young>>

DeadlineKept(p) ==
    /\ \A r \in Runs : SF_vars(Pass(ExpireRead(p, r)) /\ at'[p] = r)
    /\ SF_vars(Pass(ExpireMark(p)))
    /\ SF_vars(Pass(ExpireCancel(p)) /\ point'[p] = "xClose")
    /\ SF_vars(Pass(ExpireClose(p)))
    /\ SF_vars(Pass(ExpireSeal(p)))
    /\ SF_vars(Pass(ExpireReport(p)))

Fairness ==
    /\ \A r \in Runs :
          /\ WF_vars(TimePasses(r))
          /\ WF_vars(Lander(r))
    /\ \A p \in Passes : DeadlineKept(p) /\ WF_vars(Settler(p))
    /\ \A s \in Stoppers : WF_vars(Stopper(s))

FairSpec == Spec /\ Fairness

\* A run whose handle was recorded is eventually settled and reported.
BoundRunsClose == \A r \in Runs : bound[r] ~> Closed(r)
==============================================================================
