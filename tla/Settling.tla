-------------------------------- MODULE Settling --------------------------------
(***************************************************************************)
(* One durable settling pass: Monitor.once (settling/monitor/core.py) with *)
(* Sweep, Settlement and Deadlines beside it.                              *)
(*                                                                         *)
(* A pass first releases every rental past its deadline WITHOUT the        *)
(* settlement lock, then takes the lock without waiting, lists and polls   *)
(* the tracked runs, and settles each one.  A pass may be killed anywhere  *)
(* (bounded_pass sends SIGKILL); the next one starts over from the         *)
(* registry.                                                               *)
(*                                                                         *)
(*   point[p]  where pass p stands                                         *)
(*   due[p]    the listed rentals past their deadline still to release     *)
(*   todo[p]   the listed runs still to settle                             *)
(*   told[p]   what the sweep learned of each: a verdict, or Ask           *)
(*   at[p]     the run being released or settled                           *)
(*   flag[p]   what was decided about it earlier in this pass: its         *)
(*             evidence was copied (deadline), can never be verified       *)
(*             (harvest), or was discarded by a cancel (unlaunched)        *)
(***************************************************************************)
EXTENDS Rental

CONSTANT Passes   \* the processes that run settling passes

VARIABLES point, due, todo, told, at, flag

passVars == <<point, due, todo, told, at, flag>>

Ask == "ask"

PassPoints ==
    {"idle", "expire", "xMark", "xCancel", "xClose", "xSeal", "xReport",
     "settle", "collect", "recover", "hPending", "hCopied", "hRelease",
     "hRetry", "hSeal", "hReport", "uRelease", "uMark", "uReport"}

PassTypeOK ==
    /\ point \in [Passes -> PassPoints]
    /\ due \in [Passes -> SUBSET Runs]
    /\ todo \in [Passes -> SUBSET Runs]
    /\ told \in [Passes -> [Runs -> Words \cup {Ask}]]
    /\ at \in [Passes -> Runs \cup {None}]
    /\ flag \in [Passes -> BOOLEAN]

Unasked == [r \in Runs |-> Ask]

PassInit ==
    /\ point = [p \in Passes |-> "idle"]
    /\ due = [p \in Passes |-> {}]
    /\ todo = [p \in Passes |-> {}]
    /\ told = [p \in Passes |-> Unasked]
    /\ at = [p \in Passes |-> None]
    /\ flag = [p \in Passes |-> FALSE]

Move(p, from, to) == point[p] = from /\ point' = [point EXCEPT ![p] = to]
Take(p, r, b) ==
    /\ at' = [at EXCEPT ![p] = r]
    /\ flag' = [flag EXCEPT ![p] = b]
KeepRun == UNCHANGED <<due, todo, told, at, flag>>

(***************************************************************************)
(* Deadlines: before any lock and any probe.                               *)
(***************************************************************************)
UnsettledDue(r) ==                   \* mutant: settled rows are passed over
    Exists(r) /\ ~IsSettled(r) /\ ~Uncreated(r) /\ Expired(r)

\* Deadlines.expired: what the listing selects.
IsDue(r) == Tracked(r) /\ ~Uncreated(r) /\ Expired(r)

PassStart(p) ==
    /\ Move(p, "idle", "expire")
    /\ due' = [due EXCEPT ![p] = {r \in Runs : IsDue(r)}]
    /\ UNCHANGED <<registry, world, todo, told, at, flag>>

\* Deadlines._expire: the row as it stands now, whatever the listing said; a
\* registry that cannot be read leaves the rental to the next pass.
ExpireRead(p, r) ==
    /\ r \in due[p]
    /\ \/ /\ Expired(r)
          /\ Move(p, "expire", "xMark")
          /\ Take(p, r, evidence[r] \in Copied)
          /\ UNCHANGED due
       \/ /\ point[p] = "expire"
          /\ due' = [due EXCEPT ![p] = @ \ {r}]
          /\ UNCHANGED <<point, at, flag>>
    /\ UNCHANGED <<registry, world, todo, told>>

\* Deadlines._released: the evidence as it stands, recorded if it can be.
ExpireMark(p) ==
    /\ Move(p, "xMark", "xCancel")
    /\ \/ Evidence(at[p], IF flag[p] THEN "copied" ELSE "unverified")
       \/ UNCHANGED <<registry, event>>
    /\ UNCHANGED <<machine, job, log, clockVars, lock>>
    /\ KeepRun

Expiring(p, to) ==
    /\ Move(p, point[p], to)
    /\ due' = [due EXCEPT ![p] = @ \ {at[p]}]
    /\ Take(p, None, FALSE)
    /\ UNCHANGED <<todo, told>>

ExpireCancel(p) ==
    /\ point[p] = "xCancel"
    /\ \/ EndMachine(at[p]) /\ Move(p, "xCancel", "xClose") /\ KeepRun
       \/ UNCHANGED machine /\ Expiring(p, "expire")
    /\ UNCHANGED <<registry, job, log, event, clockVars, lock>>

\* Deadlines._closed, in its three registry writes.
ExpireClose(p) ==
    /\ Move(p, "xClose", "xSeal")
    /\ Resolve(at[p], FALSE, "timeout")
    /\ UNCHANGED world
    /\ KeepRun

ExpireSeal(p) ==
    /\ Move(p, "xSeal", "xReport")
    /\ Evidence(at[p], IF flag[p] THEN "verified" ELSE "unverified")
    /\ UNCHANGED <<machine, job, log, clockVars, lock>>
    /\ KeepRun

ExpireReport(p) ==
    /\ point[p] = "xReport"
    /\ Report(at[p], verdict[at[p]])
    /\ Expiring(p, "expire")
    /\ UNCHANGED world

\* The release is confirmed but a write of _closed fails: the pass goes on to
\* the next rental and leaves this one's bookkeeping to a later pass.
ExpireStuck(p) ==
    /\ point[p] \in {"xClose", "xSeal", "xReport"}
    /\ Expiring(p, "expire")
    /\ UNCHANGED <<registry, world>>

(***************************************************************************)
(* Monitor._claimed, Monitor._once and Sweep.                              *)
(***************************************************************************)
\* Sweep._groups and Sweep._resolve: what the sweep asks about.
IsSwept(r) ==
    /\ Tracked(r) /\ ~Uncreated(r) /\ verdict[r] # "held"
    /\ declared

\* The lock is taken without waiting; a terminal verdict is read from the
\* registry, the rest is asked.
PassClaim(p) ==
    /\ due[p] = {}
    /\ Move(p, "expire", "settle")
    /\ Acquire(p)
    /\ todo' = [todo EXCEPT ![p] = {r \in Runs : IsSwept(r)}]
    /\ told' = [told EXCEPT ![p] =
          [r \in Runs |-> IF IsSwept(r) /\ IsSettled(r) THEN verdict[r] ELSE Ask]]
    /\ UNCHANGED <<registry, machine, job, log, event, clockVars, due, at, flag>>

PassBusy(p) ==
    /\ due[p] = {}
    /\ lock # None
    /\ Move(p, "expire", "idle")
    /\ UNCHANGED <<registry, world>>
    /\ KeepRun

\* Run r leaves the pass, settled or kept for the next one.
Leave(p, r) ==
    /\ point' = [point EXCEPT ![p] = "settle"]
    /\ todo' = [todo EXCEPT ![p] = @ \ {r}]
    /\ told' = [told EXCEPT ![p][r] = Ask]
    /\ Take(p, None, FALSE)
    /\ UNCHANGED due

\* ProviderRun.poll, or a target that cannot be asked in this pass.
Poll(p, r) ==
    /\ point[p] = "settle"
    /\ r \in todo[p] /\ told[p][r] = Ask
    /\ \/ /\ \E w \in Polled(r) : told' = [told EXCEPT ![p][r] = w]
          /\ UNCHANGED <<point, due, todo, at, flag>>
       \/ Leave(p, r)
    /\ UNCHANGED <<registry, world>>

\* Monitor._settle: resolve, then the way the run's evidence asks for.
Discarded(r) == stopped[r] /\ evidence[r] = "unverified"
Unlaunched(r) == evidence[r] = "not_started" \/ Discarded(r)
KnownCopied(r) == evidence[r] \in Copied \/ event[r] = "copied"

Settle(p, r) ==
    /\ point[p] = "settle"
    /\ r \in todo[p]
    /\ \A s \in todo[p] : told[p][s] # Ask
    /\ Resolve(r, stopped[r], told[p][r])
    /\ \/ /\ told[p][r] \notin Settled
          /\ Leave(p, r)
       \/ /\ told[p][r] \in Settled
          /\ \/ Unlaunched(r) /\ Move(p, "settle", "uRelease")
             \/ ~Unlaunched(r) /\ KnownCopied(r) /\ Move(p, "settle", "recover")
             \/ ~Unlaunched(r) /\ ~KnownCopied(r) /\ Move(p, "settle", "collect")
          /\ Take(p, r, Discarded(r))
          /\ UNCHANGED <<due, todo, told>>
    /\ UNCHANGED world

(***************************************************************************)
(* Monitor._harvested: collect, verify, release, record, report.           *)
(***************************************************************************)
\* Settlement.verify: verified, never verifiable, or to be asked again.
Verified(p) ==
    /\ \/ Move(p, point[p], "hPending") /\ UNCHANGED flag
       \/ \E b \in BOOLEAN :
             Move(p, point[p], "hCopied") /\ flag' = [flag EXCEPT ![p] = b]
    /\ UNCHANGED <<due, todo, told, at>>

\* Monitor._collected: a log nobody could read keeps the run pending.
ReadOrNot(p) ==                      \* mutant: an unreadable log is accepted
    /\ point[p] = "collect"
    /\ ReadLog(at[p]) \/ UNCHANGED log
    /\ Verified(p)
    /\ UNCHANGED <<registry, machine, job, event, clockVars, lock>>

Collect(p) ==
    /\ point[p] = "collect"
    /\ \/ ReadLog(at[p]) /\ Verified(p)
       \/ log[at[p]] # "unread" /\ UNCHANGED log /\ Verified(p)
       \/ log[at[p]] = "unread" /\ UNCHANGED log
             /\ Move(p, "collect", "hPending") /\ KeepRun
    /\ UNCHANGED <<registry, machine, job, event, clockVars, lock>>

\* Monitor._recovered: what an earlier pass copied, read back locally.
Recover(p) ==
    /\ point[p] = "recover"
    /\ LET lost == event[at[p]] = "none" /\ log[at[p]] = "unread" IN
       \/ lost /\ Move(p, "recover", "hPending") /\ KeepRun
       \/ ~lost /\ Verified(p)
    /\ UNCHANGED <<registry, world>>

\* Monitor._pending: the remote evidence is retained.
HarvestPending(p) ==
    /\ point[p] = "hPending"
    /\ Evidence(at[p], "pending")
    /\ Leave(p, at[p])
    /\ UNCHANGED <<machine, job, log, clockVars, lock>>

\* Monitor._concluded, in its registry and provider calls.
HarvestCopied(p) ==
    /\ Move(p, "hCopied", "hRelease")
    /\ Evidence(at[p], "copied")
    /\ UNCHANGED <<machine, job, log, clockVars, lock>>
    /\ KeepRun

ReleaseIgnored(p) ==                 \* mutant: a failed release is not noticed
    /\ Move(p, "hRelease", "hSeal")
    /\ EndMachine(at[p]) \/ UNCHANGED machine
    /\ UNCHANGED <<registry, job, log, event, clockVars, lock>>
    /\ KeepRun

HarvestRelease(p) ==
    /\ \/ Move(p, "hRelease", "hSeal") /\ EndMachine(at[p])
       \/ Move(p, "hRelease", "hRetry") /\ UNCHANGED machine
    /\ UNCHANGED <<registry, job, log, event, clockVars, lock>>
    /\ KeepRun

HarvestRetry(p) ==
    /\ point[p] = "hRetry"
    /\ Evidence(at[p], "copied")
    /\ Leave(p, at[p])
    /\ UNCHANGED <<machine, job, log, clockVars, lock>>

HarvestSeal(p) ==
    /\ Move(p, "hSeal", "hReport")
    /\ Evidence(at[p], IF flag[p] THEN "unverified" ELSE "verified")
    /\ UNCHANGED <<machine, job, log, clockVars, lock>>
    /\ KeepRun

\* The cursor moves to the verdict this pass was told, whatever the row says.
HarvestReport(p) ==
    /\ point[p] = "hReport"
    /\ Report(at[p], told[p][at[p]])
    /\ Leave(p, at[p])
    /\ UNCHANGED world

(***************************************************************************)
(* Monitor._unlaunched: nothing to collect, released before the cursor.    *)
(***************************************************************************)
UnlaunchedRelease(p) ==
    /\ point[p] = "uRelease"
    /\ \/ /\ EndMachine(at[p])
          /\ Move(p, "uRelease", IF flag[p] THEN "uReport" ELSE "uMark")
          /\ KeepRun
       \/ UNCHANGED machine /\ Leave(p, at[p])
    /\ UNCHANGED <<registry, job, log, event, clockVars, lock>>

UnlaunchedMark(p) ==
    /\ Move(p, "uMark", "uReport")
    /\ Evidence(at[p], "not_started")
    /\ UNCHANGED <<machine, job, log, clockVars, lock>>
    /\ KeepRun

UnlaunchedReport(p) ==
    /\ point[p] = "uReport"
    /\ Report(at[p], told[p][at[p]])
    /\ Leave(p, at[p])
    /\ UNCHANGED world

PassDone(p) ==
    /\ todo[p] = {}
    /\ Move(p, "settle", "idle")
    /\ Release(p)
    /\ UNCHANGED <<registry, machine, job, log, event, clockVars>>
    /\ KeepRun

PassCrash(p) ==
    /\ point[p] # "idle"
    /\ point' = [point EXCEPT ![p] = "idle"]
    /\ due' = [due EXCEPT ![p] = {}]
    /\ todo' = [todo EXCEPT ![p] = {}]
    /\ told' = [told EXCEPT ![p] = Unasked]
    /\ Take(p, None, FALSE)
    /\ Release(p)
    /\ UNCHANGED <<registry, machine, job, log, event, clockVars>>

ExpireStep(p) ==
    \/ PassStart(p) \/ (\E r \in Runs : ExpireRead(p, r))
    \/ ExpireMark(p) \/ ExpireCancel(p)
    \/ ExpireClose(p) \/ ExpireSeal(p) \/ ExpireReport(p) \/ ExpireStuck(p)

SettleStep(p) ==
    \/ PassClaim(p) \/ PassBusy(p)
    \/ (\E r \in Runs : Poll(p, r) \/ Settle(p, r))
    \/ Collect(p) \/ Recover(p) \/ HarvestPending(p) \/ HarvestCopied(p)
    \/ HarvestRelease(p) \/ HarvestRetry(p) \/ HarvestSeal(p)
    \/ HarvestReport(p)
    \/ UnlaunchedRelease(p) \/ UnlaunchedMark(p) \/ UnlaunchedReport(p)
    \/ PassDone(p)

PassStep(p) == ExpireStep(p) \/ SettleStep(p) \/ PassCrash(p)
==============================================================================
