-------------------------------- MODULE Landing --------------------------------
(***************************************************************************)
(* Renting a machine and landing a job on it: Landing.land and equip       *)
(* (dispatch/hosts/landing.py), the creation checkpoints of Allocation     *)
(* (dispatch/hosts/allocation.py) and CloudBackend.rent                    *)
(* (dispatch/backends/cloud/core.py).                                      *)
(*                                                                         *)
(* land[r] is where the process landing run r stands.  Everything between  *)
(* two registry or provider calls may be the last thing it does: Crash is  *)
(* enabled everywhere, and a lost settlement lock is the OS's to free.     *)
(***************************************************************************)
EXTENDS Rental

VARIABLE land

LandPoints ==
    {"new", "prepared", "create", "creating", "declined", "bind", "boot",
     "unreachable", "equip", "launch", "check", "mark", "start", "abort",
     "abortFail", "abortCancel", "interrupted", "interruptFail", "done"}

LandInit == land = [r \in Runs |-> "new"]

Goto(r, from, to) == land[r] = from /\ land' = [land EXCEPT ![r] = to]

(***************************************************************************)
(* Allocation: the request recorded before the machine exists.             *)
(***************************************************************************)
\* Dispatcher.allocating: the row is reserved before any provider call.
Allocate(r) ==
    /\ Goto(r, "new", "prepared")
    /\ Reserve(r, "not_started")
    /\ UNCHANGED world

\* The request is refused here: not admitted, not affordable, no offer left.
GiveUp(r) ==
    /\ Goto(r, "prepared", "interrupted")
    /\ UNCHANGED <<registry, world>>

\* Allocation.begin under a freshly priced lease; a row no longer prepared
\* raises.
Begin(r) ==
    /\ \/ /\ Goto(r, "prepared", "create")
          /\ Prepared(r, "submitting", TRUE)
          /\ term' = [term EXCEPT ![r] = "open"]
       \/ /\ Goto(r, "prepared", "interrupted")
          /\ ~IsPrepared(r)
          /\ UNCHANGED <<registry, term>>
    /\ UNCHANGED <<machine, job, log, event, young, declared, lock>>

\* api.create is sent.
Create(r) ==
    /\ Goto(r, "create", "creating")
    /\ machine' = [machine EXCEPT ![r] = "asked"]
    /\ UNCHANGED <<registry, job, log, event, clockVars, lock>>

\* api.create answers with a handle, declines (CapacityGone), or is lost.
Answered(r) ==
    /\ \/ /\ Goto(r, "creating", "bind")
          /\ machine[r] \in {"up", "gone"}
          /\ UNCHANGED machine
       \/ /\ Goto(r, "creating", "declined")
          /\ machine[r] = "asked"
          /\ machine' = [machine EXCEPT ![r] = "none"]
       \/ /\ Goto(r, "creating", "interrupted")
          /\ UNCHANGED machine
    /\ UNCHANGED <<registry, job, log, event, clockVars, lock>>

\* Allocation.refused: nothing was allocated, so the next offer is tried.
Refused(r) ==
    /\ Goto(r, "declined", "prepared")
    /\ IF IsSubmitting(r) THEN Reopen(r) ELSE UNCHANGED registry
    /\ UNCHANGED world

\* Allocation.created: a row the reaper already bound raises.
Created(r) ==
    /\ \/ Goto(r, "bind", "boot") /\ Bind(r)
       \/ Goto(r, "bind", "interrupted") /\ ~IsSubmitting(r) /\ UNCHANGED registry
    /\ UNCHANGED world

\* CloudBackend._landed: the machine answers ssh, or never does.
Boot(r) ==
    /\ \/ Goto(r, "boot", "equip") /\ machine[r] = "up"
       \/ Goto(r, "boot", "unreachable")
    /\ UNCHANGED <<registry, world>>

\* An unreachable machine is ended here; a refused end raises instead.
Unreachable(r) ==
    /\ Goto(r, "unreachable", "interrupted")
    /\ EndMachine(r) \/ UNCHANGED machine
    /\ UNCHANGED <<registry, job, log, event, clockVars, lock>>

\* Allocation.interrupted.
Interrupted(r) ==
    /\ \/ /\ Goto(r, "interrupted", "done")
          /\ Prepared(r, "failed", FALSE)
       \/ /\ Goto(r, "interrupted", "interruptFail")
          /\ ~Uncreated(r) /\ ~IsSettled(r) /\ evidence[r] = "not_started"
          /\ UNCHANGED registry
       \/ /\ Goto(r, "interrupted", "done")
          /\ \/ IsSubmitting(r)
             \/ IsSettled(r)
             \/ ~Uncreated(r) /\ evidence[r] # "not_started"
          /\ UNCHANGED registry
    /\ UNCHANGED world

InterruptFail(r) ==
    /\ Goto(r, "interruptFail", "done")
    /\ Resolve(r, FALSE, "failed")
    /\ UNCHANGED world

(***************************************************************************)
(* Landing.equip: what the machine needs, then the launch under the        *)
(* settlement lock.                                                        *)
(***************************************************************************)
Equip(r) ==
    /\ \/ Goto(r, "equip", "launch") /\ machine[r] = "up"
       \/ Goto(r, "equip", "abort")
    /\ UNCHANGED <<registry, world>>

Claim(r) ==
    /\ Goto(r, "launch", "check")
    /\ Acquire(r)
    /\ UNCHANGED <<registry, machine, job, log, event, clockVars>>

LaunchSettled(r) ==                  \* mutant: a settled row is not refused
    /\ Goto(r, "check", "mark")
    /\ UNCHANGED <<registry, world>>

\* A rental that settled during setup is refused its launch.
CheckSettled(r) ==
    /\ \/ Goto(r, "check", "abort") /\ IsSettled(r) /\ Release(r)
       \/ Goto(r, "check", "mark") /\ ~IsSettled(r) /\ UNCHANGED lock
    /\ UNCHANGED <<registry, machine, job, log, event, clockVars>>

MarkNothing(r) ==                    \* mutant: the launch is not marked first
    /\ Goto(r, "mark", "start")
    /\ UNCHANGED <<registry, world>>

\* cache.delivery before the launch, so a lost reply reads as uncertain.
Mark(r) ==
    /\ Goto(r, "mark", "start")
    /\ Delivery(r, "pending")
    /\ UNCHANGED world

\* Landing.start: handed over and confirmed, handed over with the reply
\* lost, or not handed over.  An entrypoint that gave up runs nothing.
Start(r) ==
    /\ \/ /\ Goto(r, "start", "done") \/ Goto(r, "start", "abort")
          /\ machine[r] = "up"
          /\ job' = [job EXCEPT ![r] = IF @ = "idle" THEN "running" ELSE @]
       \/ /\ Goto(r, "start", "abort")
          /\ UNCHANGED job
    /\ Release(r)
    /\ UNCHANGED <<registry, machine, log, event, clockVars>>

(***************************************************************************)
(* Landing._abort: a definite setup failure is released, an ambiguous      *)
(* launch retained.                                                        *)
(***************************************************************************)
Abort(r) ==
    /\ \/ Goto(r, "abort", "abortFail") /\ evidence[r] = "not_started"
       \/ Goto(r, "abort", "done") /\ evidence[r] # "not_started"
    /\ UNCHANGED <<registry, world>>

AbortFail(r) ==
    /\ Goto(r, "abortFail", "abortCancel")
    /\ Resolve(r, FALSE, "failed")
    /\ UNCHANGED world

AbortCancel(r) ==
    /\ Goto(r, "abortCancel", "done")
    /\ EndMachine(r) \/ UNCHANGED machine
    /\ UNCHANGED <<registry, job, log, event, clockVars, lock>>

LandCrash(r) ==
    /\ land[r] \notin {"new", "done"}
    /\ land' = [land EXCEPT ![r] = "done"]
    /\ Release(r)
    /\ UNCHANGED <<registry, machine, job, log, event, clockVars>>

LandStep(r) ==
    \/ Allocate(r) \/ GiveUp(r) \/ Begin(r) \/ Create(r) \/ Answered(r)
    \/ Refused(r) \/ Created(r) \/ Boot(r) \/ Unreachable(r)
    \/ Interrupted(r) \/ InterruptFail(r)
    \/ Equip(r) \/ Claim(r) \/ CheckSettled(r) \/ Mark(r) \/ Start(r)
    \/ Abort(r) \/ AbortFail(r) \/ AbortCancel(r) \/ LandCrash(r)
==============================================================================
