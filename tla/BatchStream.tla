------------------------------ MODULE BatchStream ------------------------------
(***************************************************************************)
(* What the processes of one batch share: the run registry, the target's   *)
(* queue, and the batch's receipts stream (batch/receipts.py).             *)
(*                                                                         *)
(* A stream is an append-only list of lines that every reader reads        *)
(* through `latest`, the newest line of some topics for each job, so the   *)
(* newest lines are the state:                                             *)
(*                                                                         *)
(*   offered[j]  the newest of job.submitted, job.refused and job.held     *)
(*   stated[j]   the newest job.state: a handle and a verdict              *)
(*   ended[j]    the newest job.settled: a handle and a verdict            *)
(*   costs, ends how many job.cost and job.settled lines each run has      *)
(*   announced   batch.closed is out and no job.settled is newer           *)
(*   queue[h]    the target's queue: the job of handle h                   *)
(*                                                                         *)
(* A line is stamped and appended in one step.  batch.opened, job.skipped  *)
(* and the estimates are read by no decision and are left out.             *)
(***************************************************************************)
EXTENDS RunRegistry, Naturals

CONSTANT Jobs   \* the jobs of the batch

Handles == Runs \ Placeholders

NoHandle == "no handle"     \* the empty handle of a job no target took

\* One placeholder per job: its handle is a digest of the request.
ASSUME StreamAssumption ==
    /\ NoHandle \notin Runs
    /\ \A r \in Runs : Request[r] \in Jobs
    /\ \A j \in Jobs : \E p \in Placeholders : Request[p] = j
    /\ \A p, q \in Placeholders : Request[p] = Request[q] => p = q

VARIABLES offered, stated, ended, costs, ends, announced, queue

stream == <<offered, stated, ended, costs, ends, announced>>

NoLine == [handle |-> NoHandle, verdict |-> Nothing]

\* How far lines are counted.
Twice == 2

Placeholder(j) == CHOOSE p \in Placeholders : Request[p] = j
HandlesOf(j) == {h \in Handles : Request[h] = j}

Answers == {"none", "submitted", "refused", "held"}
Lines == [handle : Handles \cup {NoHandle}, verdict : Words \cup {Nothing}]
Counts == [Jobs -> [Handles \cup {NoHandle} -> 0..Twice]]

StreamTypeOK ==
    /\ offered \in [Jobs -> [topic : Answers, handle : Handles \cup {NoHandle}]]
    /\ stated \in [Jobs -> Lines]
    /\ ended \in [Jobs -> Lines]
    /\ costs \in Counts
    /\ ends \in Counts
    /\ announced \in BOOLEAN
    /\ queue \in [Handles -> {"free", "live", "over"}]

StreamInit ==
    /\ offered = [j \in Jobs |-> [topic |-> "none", handle |-> NoHandle]]
    /\ stated = [j \in Jobs |-> NoLine]
    /\ ended = [j \in Jobs |-> NoLine]
    /\ costs = [j \in Jobs |-> [h \in Handles \cup {NoHandle} |-> 0]]
    /\ ends = [j \in Jobs |-> [h \in Handles \cup {NoHandle} |-> 0]]
    /\ announced = FALSE
    /\ queue = [h \in Handles |-> "free"]

Counted(count, j, h) ==
    [count EXCEPT ![j][h] = IF @ < Twice THEN @ + 1 ELSE Twice]

\* publish: a line about how the target answered an offer.
Answer(j, topic, h) ==
    /\ offered' = [offered EXCEPT ![j] = [topic |-> topic, handle |-> h]]
    /\ UNCHANGED <<stated, ended, costs, ends, announced>>

\* The target's queue runs what it took; the job ends in its own time.
JobEnds(h) ==
    /\ queue[h] = "live"
    /\ queue' = [queue EXCEPT ![h] = "over"]
    /\ UNCHANGED <<registry, stream>>
==============================================================================
