-------------------------------- MODULE Batches --------------------------------
(***************************************************************************)
(* A batch run, held, resumed, cancelled and watched, all at once.         *)
(***************************************************************************)
EXTENDS HeldDispatch, BatchWatch

vars == <<registry, stream, queue, dispatching, watching>>

Init == RegistryInit /\ StreamInit /\ DispatchInit /\ WatchInit

Next ==
    \/ \E d \in Actors : Acts(d) /\ UNCHANGED watching
    \/ \E w \in Watches : WatchActs(w) /\ UNCHANGED dispatching
    \/ \E h \in Handles : JobEnds(h) /\ UNCHANGED <<dispatching, watching>>

Spec == Init /\ [][Next]_vars

TypeOK ==
    RegistryTypeOK /\ StreamTypeOK /\ DispatchTypeOK /\ WatchTypeOK

\* What the target has taken for job j.
TakenFor(j) == {h \in HandlesOf(j) : queue[h] # "free"}

\* Nobody is in the middle of anything about job j.
Quiet(j) == \A d \in Actors : job[d] # j

(***************************************************************************)
(* Safety.                                                                 *)
(***************************************************************************)

\* A job reaches the queue once for each time its batch was run, and a death
\* adds at most one more, however the runs, the passes that ask again and the
\* cancels interleave: resumed replaces the placeholder by the run.
DispatchedOnce ==
    \A j \in Jobs : Cardinality(TakenFor(j)) <= begun + deaths

\* A job the target took is in the registry, where a pass finds it, or its
\* dispatcher is about to write it.  One that is not was answered for as a
\* refusal, its reply or its record lost, or is owed to a death in between,
\* one job for each death.
Stray(h) ==
    /\ queue[h] # "free"
    /\ ~Exists(h)
    /\ \A d \in Actors : got[d] # h
StraysAreAccounted == Cardinality({h \in Handles : Stray(h)} \ lost) <= deaths

\* A job the stream calls held is never lost: its placeholder is in the
\* registry, whatever it says, or a run of it is, through any death of the
\* batch or of a pass between two of their writes.
HeldIsKept ==
    \A j \in Jobs :
        offered[j].topic = "held" =>
            Exists(Placeholder(j)) \/ \E h \in HandlesOf(j) : Exists(h)

\* A job.settled line tells the truth for ever: its run is in the registry,
\* settled, with that very verdict, though the watch published it from rows
\* it had read earlier and outside any lock.
SettledLineTrue ==
    \A j \in Jobs :
        ended[j].handle # NoHandle =>
            /\ Exists(ended[j].handle)
            /\ IsSettled(ended[j].handle)
            /\ verdict[ended[j].handle] = ended[j].verdict

\* A lone watch settles a run once, killed and restarted as often as one
\* likes, whatever else answers for the job meanwhile.
SettledLineOnce ==
    Cardinality(Watches) <= 1 =>
        \A j \in Jobs : \A h \in Handles : ends[j][h] <= 1

(***************************************************************************)
(* Liveness: passes are scheduled (cron, serve), a batch, a cancel or a    *)
(* watch goes on once somebody has started it, and a full queue has room   *)
(* again now and then.  Nobody need start one, or start it again.          *)
(***************************************************************************)
Pass(A) == A /\ UNCHANGED <<watching, lost>>
Following(w) == look[w] \notin {"off", "done"} /\ WatchActs(w) /\ ~WatchDies(w)

Fairness ==
    /\ \A d \in Passes :
        /\ WF_vars(Acts(d) /\ UNCHANGED watching)
        /\ SF_vars(Pass(PassClaims(d)))
        /\ SF_vars(Pass(Taken(d)))
        /\ \A h \in Handles : SF_vars(Pass(PassSettles(d, h) /\ IsSettled(h)'))
    /\ \A d \in Runners \cup Stoppers :
        WF_vars(at[d] # "idle" /\ Acts(d) /\ UNCHANGED watching)
    /\ \A w \in Watches : WF_vars(Following(w) /\ UNCHANGED dispatching)
    /\ \A h \in Handles : WF_vars(JobEnds(h) /\ UNCHANGED <<dispatching, watching>>)

FairSpec == Spec /\ Fairness

\* A hold is a delay: a held request is not held for ever.
HoldIsADelay ==
    \A p \in Placeholders : verdict[p] = "held" ~> verdict[p] # "held"

\* A watch tells what it was shown: a run it replayed as its job's answer and
\* that is over gets its job.settled, and the watch does not return without
\* it, unless another answer comes or the watch is killed.
SettlementIsTold ==
    \A w \in Watches : \A h \in Handles :
        LET j == Request[h] IN
        (view[w].offered[j] = [topic |-> "submitted", handle |-> h] /\ queue[h] = "over")
            ~> (ends[j][h] > 0 \/ offered[j].handle # h \/ look[w] = "off")

(***************************************************************************)
(* What comments of the code say, which the code does not do.              *)
(***************************************************************************)

\* watch.py:150: "A held job is still coming (the sweep asks again every
\* pass), so it counts as in flight."
HeldJobStillComing ==
    \A j \in Jobs :
        offered[j].topic = "held" /\ Quiet(j) =>
            verdict[Placeholder(j)] = "held" \/ \E h \in HandlesOf(j) : Exists(h)

\* settlement.py:266: without the SUBMITTED line "a watch reading submissions
\* out of the receipts shows the job held forever while it runs".
RunningIsNotShownHeld ==
    \A j \in Jobs :
        Quiet(j) /\ (\E h \in HandlesOf(j) : Exists(h)) /\ ~Exists(Placeholder(j))
            => offered[j].topic # "held"

\* dispatcher/core.py:406: the placeholder "is dropped once the request goes
\* through and the real handle takes its place".
PlaceholderDropped ==
    \A j \in Jobs :
        Quiet(j) /\ offered[j].topic = "submitted" => verdict[Placeholder(j)] # "held"

\* monitor/core.py:305: "This makes a hold a delay rather than a loss"; only
\* a refusal that "answers the same way forever" (settlement.py:125) fails a
\* held request.
OutageIsNoRefusal ==
    [][\A d \in Passes :
        PassFails(d) => got[d] = Rejected]_vars

\* batch/runner.py:44: a dispatch's handle is "empty when the target did not
\* take it", and so is the refused line's.
RefusedIsNotQueued ==
    \A j \in Jobs :
        offered[j].topic = "refused" => HandlesOf(j) \cap lost = {}

\* receipts.py:38: "a dying pass republishes nothing".
CostOnce ==
    \A j \in Jobs : \A h \in Handles : costs[j][h] <= 1

\* receipts.py:35 and 38: batch.closed comes when "every job settled", and "a
\* pass that never ran just publishes later".
ReturnedIsAnnounced ==
    \A w \in Watches :
        look[w] = "done" /\ (\E j \in Jobs : ended[j].verdict # Nothing) => announced
==============================================================================
