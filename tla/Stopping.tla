------------------------------- MODULE Stopping -------------------------------
(***************************************************************************)
(* Stopping a run by hand: Verdicts.cancel, and Verdicts._conclude for a   *)
(* test session that ended while its process did not (waiting/verdicts.py) *)
(*                                                                         *)
(* Both wait for the settlement lock and hold it to the end.  A wait that  *)
(* times out, an unknown handle, a creation that is `submitting` and a run *)
(* already closed change nothing, so only the other cases are steps.       *)
(*                                                                         *)
(*   stage[s]  where stopper s stands                                      *)
(*   run[s]    the run it stops                                            *)
(*   ended[s]  the verdict it was asked to settle the run on               *)
(*   said[s]   the verdict it will report: the one recorded when it looked *)
(*             if that had settled, else ended[s]                          *)
(***************************************************************************)
EXTENDS Rental

CONSTANTS
    Stoppers,  \* the processes that stop runs
    Endings    \* the verdicts they ask for: cancelled, or a session's outcome

ASSUME StoppingAssumption == Endings \subseteq {"cancelled", "ok", "failed"}

VARIABLES stage, run, ended, said

stopVars == <<stage, run, ended, said>>

StopPoints ==
    {"idle", "unprepare", "abandon", "forsake", "disown", "capture",
     "preserve", "kill", "stop", "release", "seal", "report"}

StopTypeOK ==
    /\ stage \in [Stoppers -> StopPoints]
    /\ run \in [Stoppers -> Runs \cup {None}]
    /\ ended \in [Stoppers -> {"cancelled", "ok", "failed"}]
    /\ said \in [Stoppers -> Words \cup {Unresolved}]

StopInit ==
    /\ stage = [s \in Stoppers |-> "idle"]
    /\ run = [s \in Stoppers |-> None]
    /\ ended = [s \in Stoppers |-> "cancelled"]
    /\ said = [s \in Stoppers |-> "cancelled"]

Advance(s, from, to) == stage[s] = from /\ stage' = [stage EXCEPT ![s] = to]
KeepStop == UNCHANGED <<run, ended, said>>

\* The claim is dropped and the call returns or raises.
Quit(s) ==
    /\ stage' = [stage EXCEPT ![s] = "idle"]
    /\ run' = [run EXCEPT ![s] = None]
    /\ ended' = [ended EXCEPT ![s] = "cancelled"]
    /\ said' = [said EXCEPT ![s] = "cancelled"]
    /\ Release(s)

\* Verdicts.__unreached: which way the recorded row sends the stop.
Way(r) ==
    CASE IsPrepared(r)                 -> "unprepare"
      [] ~IsPrepared(r) /\ ~declared   -> "abandon"
      [] OTHER                         -> "capture"

\* Verdicts.__outcome: the verdict the stop settles on, keeping a recorded one.
SettlesOn(r, word) == IF IsSettled(r) THEN verdict[r] ELSE word

\* Verdicts.cancel and _conclude: the claim, then the record as it stands.
\* _conclude asks for a session's own outcome, which only a launched job has.
StopClaim(s, r, word) ==
    /\ stage[s] = "idle"
    /\ Exists(r) /\ ~IsSubmitting(r) /\ ~Closed(r)
    /\ word = "cancelled" \/ Launched(r)
    /\ Acquire(s)
    /\ stage' = [stage EXCEPT ![s] = Way(r)]
    /\ run' = [run EXCEPT ![s] = r]
    /\ ended' = [ended EXCEPT ![s] = word]
    /\ said' = [said EXCEPT ![s] = SettlesOn(r, word)]
    /\ UNCHANGED <<registry, machine, job, log, event, clockVars>>

\* Verdicts.__unprepared: a creation that changed meanwhile is refused.
Unprepare(s) ==
    /\ stage[s] = "unprepare"
    /\ \/ Prepared(run[s], "cancelled", FALSE)
       \/ ~IsPrepared(run[s]) /\ UNCHANGED registry
    /\ Quit(s)
    /\ UNCHANGED <<machine, job, log, event, clockVars>>

(***************************************************************************)
(* Verdicts._abandon: an undeclared host is asked nothing.                 *)
(***************************************************************************)
Abandon(s) ==
    /\ Advance(s, "abandon", "forsake")
    /\ Evidence(run[s], "unverified")
    /\ UNCHANGED <<machine, job, log, clockVars, lock>>
    /\ KeepStop

Forsake(s) ==
    /\ Advance(s, "forsake", "disown")
    /\ Resolve(run[s], TRUE, "cancelled")
    /\ said' = [said EXCEPT ![s] = verdict'[run[s]]]
    /\ UNCHANGED <<world, run, ended>>

Disown(s) ==
    /\ stage[s] = "disown"
    /\ Report(run[s], said[s])
    /\ Quit(s)
    /\ UNCHANGED <<machine, job, log, event, clockVars>>

(***************************************************************************)
(* Verdicts.__released: evidence, stop, verdict, release, report.          *)
(***************************************************************************)
\* Settlement.capture with required=False: an unreadable log is no reason to
\* stop, what was saved earlier is taken instead.
Capture(s) ==
    /\ Advance(s, "capture", "preserve")
    /\ ReadLog(run[s]) \/ UNCHANGED log
    /\ UNCHANGED <<registry, machine, job, event, clockVars, lock>>
    /\ KeepStop

\* Verdicts.__preserved: verified, or not; a host found quiet while its
\* results were pulled is not asked to stop the job either.
Preserve(s) ==
    /\ \/ Advance(s, "preserve", "kill") /\ Evidence(run[s], "copied")
       \/ Advance(s, "preserve", "kill") /\ Evidence(run[s], "unverified")
       \/ Advance(s, "preserve", "stop") /\ Evidence(run[s], "unverified")
    /\ UNCHANGED <<machine, job, log, clockVars, lock>>
    /\ KeepStop

\* Verdicts._killed: a refused stop raises before any verdict is recorded.
Kill(s) ==
    /\ \/ Advance(s, "kill", "stop") /\ EndMachine(run[s]) /\ UNCHANGED lock
             /\ KeepStop
       \/ stage[s] = "kill" /\ UNCHANGED machine /\ Quit(s)
    /\ UNCHANGED <<registry, job, log, event, clockVars>>

Stop(s) ==
    /\ Advance(s, "stop", "release")
    /\ Resolve(run[s], ended[s] = "cancelled", said[s])
    /\ UNCHANGED world
    /\ KeepStop

ReportUnreleased(s) ==              \* mutant: the cursor moves regardless
    /\ Advance(s, "release", "seal")
    /\ EndMachine(run[s]) \/ UNCHANGED machine
    /\ UNCHANGED <<registry, job, log, event, clockVars, lock>>
    /\ KeepStop

StopRelease(s) ==
    /\ \/ Advance(s, "release", "seal") /\ EndMachine(run[s])
             /\ UNCHANGED lock /\ KeepStop
       \/ stage[s] = "release" /\ UNCHANGED machine /\ Quit(s)
    /\ UNCHANGED <<registry, job, log, event, clockVars>>

StopSeal(s) ==
    /\ Advance(s, "seal", "report")
    /\ \/ evidence[run[s]] = "copied" /\ Evidence(run[s], "verified")
       \/ evidence[run[s]] # "copied" /\ UNCHANGED <<registry, event>>
    /\ UNCHANGED <<machine, job, log, clockVars, lock>>
    /\ KeepStop

StopReport(s) ==
    /\ stage[s] = "report"
    /\ Report(run[s], said[s])
    /\ Quit(s)
    /\ UNCHANGED <<machine, job, log, event, clockVars>>

StopCrash(s) ==
    /\ stage[s] # "idle"
    /\ Quit(s)
    /\ UNCHANGED <<registry, machine, job, log, event, clockVars>>

StopWork(s) ==
    \/ Unprepare(s) \/ Abandon(s) \/ Forsake(s) \/ Disown(s)
    \/ Capture(s) \/ Preserve(s) \/ Kill(s) \/ Stop(s) \/ StopRelease(s)
    \/ StopSeal(s) \/ StopReport(s)

StopStep(s) ==
    \/ \E r \in Runs, word \in Endings :
          StopClaim(s, r, word)
    \/ StopWork(s)
    \/ StopCrash(s)
==============================================================================
