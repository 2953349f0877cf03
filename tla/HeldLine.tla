------------------------------- MODULE HeldLine -------------------------------
(***************************************************************************)
(* A held line from end to end: the center's calls, the keeper on the      *)
(* login node and the servers in the allocations, meeting only in files.   *)
(***************************************************************************)
EXTENDS HeldCenter, HeldKeeper

vars == <<spool, node, center, keeping>>

Init == NodeInit /\ CenterInit /\ KeeperInit

CenterStep ==
    /\ (\E h \in Entries : Enqueues(h)) \/ (\E c \in Callers : CallerActs(c))
    /\ UNCHANGED keeping
LineStep ==
    /\ LineActs \/ \E k \in Keepers : KeeperActs(k) \/ KeeperDies(k)
    /\ UNCHANGED center
NodeStep ==
    /\ DeadlinePasses \/ \E g \in Gens : ServerActs(g) \/ Faulted(g) \/ Forgets(g)
    /\ UNCHANGED <<center, keeping>>

Next == CenterStep \/ LineStep \/ NodeStep

Spec == Init /\ [][Next]_vars

TypeOK == NodeTypeOK /\ CenterTypeOK /\ KeeperTypeOK

(***************************************************************************)
(* Safety.                                                                 *)
(***************************************************************************)

\* However often its write is retried and however many allocations serve the
\* spool at once, an entry is started at most once, and a fenced one never.
StartedOnce ==
    \A h \in Entries :
        starts[h] <= IF claims[h] = Fenced THEN 0 ELSE 1

\* A cancel answers only for a job that does not run and never will.
CancelIsFinal ==
    [][\A h \in answered : ~Running(h) /\ starts'[h] = starts[h]]_vars

\* A release kills no job but one it could not see: where the servers keep
\* the limits of the code, a beat within _FRESH and from picking to the
\* forced beat within _ENDS, an allocation that looked idle when it was
\* given up has no job when the qdel comes, unless a line was opened over
\* the release meanwhile.
ReleaseSparesJobs ==
    stopping = "qdel" /\ stop /\ ~hasty =>
        srv[doomed] \notin {"claimed", "check", "start", "run"}

\* Once the keeper of a newer line runs, no older keeper, on whatever login
\* node, goes on to another generation.
OlderKeeperStops ==
    [][\A k, q \in Keepers :
        q > k /\ keep[q] # "off" => ~(keep[k] = "loop" /\ keep'[k] = "mkdir")]_vars

(***************************************************************************)
(* Liveness: servers, the keeper and passes go on, a qsub is granted if it *)
(* is asked for again and again, and deadlines pass.                       *)
(***************************************************************************)
Fairness ==
    /\ SF_vars(DeadlinePasses /\ UNCHANGED <<center, keeping>>)
    /\ \A g \in Gens : WF_vars(ServerActs(g) /\ UNCHANGED <<center, keeping>>)
    /\ \A k \in Keepers :
        /\ WF_vars(KeeperActs(k) /\ UNCHANGED center)
        /\ SF_vars(Granted(k) /\ UNCHANGED center)
    /\ \A c \in Passes : WF_vars(CallerActs(c) /\ UNCHANGED keeping)
    /\ \A c \in Passes : \A h \in Entries :
        SF_vars(AskStates(c) /\ on'[c] = h /\ UNCHANGED keeping)
    /\ \A h \in Entries : WF_vars(Enqueues(h) /\ UNCHANGED keeping)

FairSpec == Spec /\ Fairness

\* Its allocation ended without its exit, and PBS knows it no more: such an
\* entry is in flight for ever.
Forgot(h) ==
    /\ claims[h] \in Gens /\ exits[h] = NoExit
    /\ pbs[claims[h]] = "forgotten"

\* A queued job gets a verdict: its exit, its fence, the loss of its
\* allocation, or the end of its line; unless PBS forgot the allocation
\* before a pass asked.
QueuedIsSettled ==
    \A h \in Entries : sub[h] = "bound" ~> (said[h] # NotSaid \/ Forgot(h))

(***************************************************************************)
(* What comments of the code say, which the code does not do.              *)
(***************************************************************************)

\* held.py:7: "nothing is `vanished` on a missing record, only on PBS saying
\* the allocation that claimed it ended with no exit written".
VanishedMeansNoExit ==
    \A h \in Entries : said[h] = "vanished" => exits[h] = NoExit

\* dispatcher/core.py:351: "work queued for a node is never outside the
\* registry: a refusal closes the intent".
FailedIsNotQueued ==
    \A h \in Entries : sub[h] = "failed" => h \notin inbox /\ h \notin flying

\* holding/line.py:259: "A claimed job gets no tombstone, so it runs to its
\* own end".
ReleaseLetsJobsFinish ==
    stopping = "qdel" /\ stop => srv[doomed] # "run"

\* held.py:125: cancelled, "its line ended before any allocation took it".
CancelledIsOver ==
    [][\A h \in Entries :
        said[h] = "cancelled" => starts'[h] = starts[h]]_vars
==============================================================================
