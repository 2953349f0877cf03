------------------------------- MODULE BatchWatch -------------------------------
(***************************************************************************)
(* The watch over a dispatched batch (batch/watch.py): Watch.once, repeated*)
(* by Watch.follow.  Its own settling pass is one of the passes of         *)
(* HeldDispatch; what follows here is what it does after it: replay the    *)
(* stream, read each job's row, publish what changed, announce the end.    *)
(* None of that is under a lock, and any number of watches may follow.     *)
(* A watch runs when somebody types it: it is "off" before that and when   *)
(* killed or interrupted, "idle" between two passes of follow, and "done"  *)
(* when follow has returned (verbs/work/jobs.py).                          *)
(*                                                                         *)
(*   look[w]    where watch w stands                                       *)
(*   view[w]    the stream as it replayed it                               *)
(*   rows[w]    each offered job's row                                     *)
(*   left[w]    the rows still to record                                   *)
(*   row[w]     the job it is recording                                    *)
(*   landed[w]  whether a row settled in this pass                         *)
(***************************************************************************)
EXTENDS BatchStream, FiniteSets

CONSTANTS
    Watches,    \* processes that watch the batch
    Stops       \* whether a watch may be killed

VARIABLES look, view, rows, left, row, landed

watching == <<look, view, rows, left, row, landed>>

NoJob == "no job"

ASSUME WatchAssumption ==
    /\ IsFiniteSet(Watches)
    /\ Stops \in BOOLEAN
    /\ NoJob \notin Jobs

Views == [offered : [Jobs -> [topic : Answers, handle : Handles \cup {NoHandle}]],
          stated : [Jobs -> Lines], ended : [Jobs -> Lines]]
Now == [offered |-> offered, stated |-> stated, ended |-> ended]
Blank == [offered |-> [j \in Jobs |-> [topic |-> "none", handle |-> NoHandle]],
          stated |-> [j \in Jobs |-> NoLine], ended |-> [j \in Jobs |-> NoLine]]

WatchTypeOK ==
    /\ look \in [Watches -> {"off", "idle", "read", "record", "cost", "settle", "done"}]
    /\ view \in [Watches -> Views]
    /\ rows \in [Watches -> [Jobs -> Lines]]
    /\ left \in [Watches -> SUBSET Jobs]
    /\ row \in [Watches -> Jobs \cup {NoJob}]
    /\ landed \in [Watches -> BOOLEAN]

WatchInit ==
    /\ look = [w \in Watches |-> "off"]
    /\ view = [w \in Watches |-> Blank]
    /\ rows = [w \in Watches |-> [j \in Jobs |-> NoLine]]
    /\ left = [w \in Watches |-> {}]
    /\ row = [w \in Watches |-> NoJob]
    /\ landed = [w \in Watches |-> FALSE]

Look(w, from, to) == look[w] = from /\ look' = [look EXCEPT ![w] = to]

\* Watch.answered and status: the row of a job whose newest answer is `said`.
RowOf(said) ==
    IF said.topic = "none" THEN NoLine
    ELSE [handle |-> said.handle,
          verdict |-> IF said.topic = "refused" THEN "vanished"
                      ELSE IF said.topic = "held" THEN "held"
                      ELSE IF ~Exists(said.handle) THEN "unknown"
                      ELSE IF verdict[said.handle] = Unresolved THEN "running"
                      ELSE verdict[said.handle]]

\* The jobs some target has answered for, as watch w replayed it.
OfferedTo(w) == {j \in Jobs : view[w].offered[j].topic # "none"}

\* The next pass of follow, or the first one of a watch just started.
Replay(w) ==
    /\ look[w] \in {"off", "idle", "done"}
    /\ look' = [look EXCEPT ![w] = "read"]
    /\ view' = [view EXCEPT ![w] = Now]
    /\ landed' = [landed EXCEPT ![w] = FALSE]
    /\ UNCHANGED <<rows, left, row, registry, stream, queue>>

ReadRows(w) ==
    /\ Look(w, "read", "record")
    /\ rows' = [rows EXCEPT ![w] = [j \in Jobs |-> RowOf(view[w].offered[j])]]
    /\ left' = [left EXCEPT ![w] = OfferedTo(w)]
    /\ UNCHANGED <<view, row, landed, registry, stream, queue>>

IsOver(line) == line.verdict \in Settled
EveryTime(w, j) == IsOver(rows[w][j])   \* mutant: the cursor is not read
PerJob(w, j) ==                         \* mutant: the cursor is the job
    IsOver(rows[w][j]) /\ view[w].ended[j].verdict = Nothing
\* Watch.record: a terminal row whose run the replayed stream has not settled.
Lands(w, j) ==
    /\ IsOver(rows[w][j])
    /\ \/ view[w].ended[j].verdict = Nothing
       \/ view[w].ended[j].handle # rows[w][j].handle

RecordState(w) ==
    \E j \in left[w] :
        /\ look[w] = "record" /\ row[w] = NoJob
        /\ stated' = IF view[w].stated[j] # rows[w][j]
                     THEN [stated EXCEPT ![j] = rows[w][j]]
                     ELSE stated
        /\ IF Lands(w, j)
           THEN /\ look' = [look EXCEPT ![w] = "cost"]
                /\ row' = [row EXCEPT ![w] = j]
                /\ UNCHANGED left
           ELSE /\ left' = [left EXCEPT ![w] = @ \ {j}]
                /\ UNCHANGED <<look, row>>
        /\ UNCHANGED <<view, rows, landed, registry, queue>>
        /\ UNCHANGED <<offered, ended, costs, ends, announced>>

\* Watch.observe: the job.cost line, and the ledger's observation with it.
Observe(w) ==
    /\ Look(w, "cost", "settle")
    /\ costs' = Counted(costs, row[w], rows[w][row[w]].handle)
    /\ UNCHANGED <<view, rows, left, row, landed, registry, queue>>
    /\ UNCHANGED <<offered, stated, ended, ends, announced>>

Settle(w) ==
    /\ Look(w, "settle", "record")
    /\ ended' = [ended EXCEPT ![row[w]] = rows[w][row[w]]]
    /\ ends' = Counted(ends, row[w], rows[w][row[w]].handle)
    /\ announced' = FALSE
    /\ landed' = [landed EXCEPT ![w] = TRUE]
    /\ left' = [left EXCEPT ![w] = @ \ {row[w]}]
    /\ row' = [row EXCEPT ![w] = NoJob]
    /\ UNCHANGED <<view, rows, registry, queue, offered, stated, costs>>

\* No row of this pass is still in flight.
AllOver(w) == \A j \in OfferedTo(w) : IsOver(rows[w][j])

\* Watch.close, then follow returns or sleeps.
Close(w) ==
    /\ look[w] = "record" /\ left[w] = {}
    /\ announced' = (announced \/ (AllOver(w) /\ landed[w]))
    /\ look' = [look EXCEPT ![w] = IF AllOver(w) THEN "done" ELSE "idle"]
    /\ rows' = [rows EXCEPT ![w] = [j \in Jobs |-> NoLine]]
    /\ view' = [view EXCEPT ![w] = Blank]
    /\ UNCHANGED <<left, row, landed, registry, queue>>
    /\ UNCHANGED <<offered, stated, ended, costs, ends>>

\* Killed, interrupted, or asked for one pass only.
WatchDies(w) ==
    /\ Stops
    /\ look[w] \notin {"off", "done"}
    /\ look' = [look EXCEPT ![w] = "off"]
    /\ view' = [view EXCEPT ![w] = Blank]
    /\ rows' = [rows EXCEPT ![w] = [j \in Jobs |-> NoLine]]
    /\ left' = [left EXCEPT ![w] = {}]
    /\ row' = [row EXCEPT ![w] = NoJob]
    /\ landed' = [landed EXCEPT ![w] = FALSE]
    /\ UNCHANGED <<registry, stream, queue>>

WatchActs(w) ==
    \/ Replay(w) \/ ReadRows(w) \/ RecordState(w) \/ Observe(w)
    \/ Settle(w) \/ Close(w) \/ WatchDies(w)
==============================================================================
