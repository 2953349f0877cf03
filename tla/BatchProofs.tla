------------------------------ MODULE BatchProofs ------------------------------
(***************************************************************************)
(* What a batch promises, for any jobs, handles, runners, passes, cancels  *)
(* and watches: a job reaches the queue once for each run of its batch, a  *)
(* held job is never lost, a queued job nobody recorded is accounted for,  *)
(* and what a watch says of a run's end is true for ever and said once.    *)
(***************************************************************************)
EXTENDS Batches, FiniteSetTheorems, TLAPS

(***************************************************************************)
(* Where an actor stands, and what it then has in hand.                    *)
(***************************************************************************)
Busy == {"ask", "record", "receipt", "forget", "refuse", "hold", "told", "report"}
Taking == {"record", "receipt", "forget"}

ActorInv ==
    \A d \in Actors :
        /\ at[d] \in Busy <=> job[d] # None
        /\ at[d] \in Taking => got[d] \in HandlesOf(job[d]) /\ queue[got[d]] # "free"
        /\ at[d] \in {"receipt", "forget"} => Exists(got[d])
        /\ got[d] \in Handles => at[d] \in Taking
        /\ at[d] \in {"hold", "told"} => d \in Runners
        /\ at[d] \in {"forget", "refuse"} => d \in Passes
        /\ at[d] = "report" => d \notin Runners
        /\ d \in Stoppers => at[d] \in {"idle", "report"} /\ todo[d] = {}
        /\ d \notin Runners /\ at[d] # "idle" => owner = d
        /\ job[d] \notin todo[d]
        /\ at[d] = "idle" => todo[d] = {}

\* A handle is given once, so one actor at most has it in hand.
HandInv ==
    \A c, d \in Actors : got[c] = got[d] /\ got[c] \in Handles => c = d

\* Nobody takes a held request from a pass that asks for it again.
HeldInv ==
    \A d \in Passes :
        /\ at[d] = "ask" => verdict[Placeholder(job[d])] = "held"
        /\ \A j \in todo[d] : verdict[Placeholder(j)] = "held"

(***************************************************************************)
(* What a line of the stream says stays true.                              *)
(***************************************************************************)
Kept(j) == Exists(Placeholder(j)) \/ \E h \in HandlesOf(j) : Exists(h)

\* The target gave h, and its SUBMITTED line, if it ever had one, is out.
Spent(h) == queue[h] # "free" /\ \A d \in Actors : got[d] # h

Answered(j, line) ==
    \/ line.topic # "submitted" /\ line.handle = NoHandle
    \/ /\ line.topic = "submitted" /\ line.handle \in HandlesOf(j)
       /\ Exists(line.handle) /\ Spent(line.handle)

\* The run of a line that says how it ended has ended so.
Truthful(j, line) ==
    line.handle # NoHandle /\ IsOver(line) =>
        line.handle \in HandlesOf(j) /\ Spent(line.handle) /\ verdict[line.handle] = line.verdict

Reading == {"record", "cost", "settle"}

StreamInv ==
    /\ \A d \in Actors : at[d] = "told" => Kept(job[d])
    /\ \A j \in Jobs :
        /\ offered[j].topic = "held" => Kept(j)
        /\ Answered(j, offered[j])
        /\ Truthful(j, ended[j])
        /\ ended[j] = NoLine \/ IsOver(ended[j])

ViewInv ==
    \A w \in Watches : \A j \in Jobs :
        /\ Answered(j, view[w].offered[j])
        /\ look[w] \in Reading =>
              /\ rows[w][j].handle = view[w].offered[j].handle
              /\ Truthful(j, rows[w][j])

WatchInv ==
    \A w \in Watches :
        /\ look[w] \in {"cost", "settle"} => row[w] \in left[w] /\ Lands(w, row[w])
        /\ look[w] \notin {"cost", "settle"} => row[w] = NoJob

(***************************************************************************)
(* Once: with one watch, what it replayed of a job's end is so until it    *)
(* ends the job itself, and a run it ended is behind it for ever.          *)
(***************************************************************************)
Owed(w, j) == look[w] = "read" \/ (look[w] \in Reading /\ j \in left[w])

Behind(j, h) ==
    /\ offered[j].handle # h
    /\ \A w \in Watches :
          look[w] \in {"read"} \cup Reading => view[w].offered[j].handle # h

OnceInv ==
    /\ \A w \in Watches : \A j \in Jobs : Owed(w, j) =>
          /\ view[w].ended[j] = ended[j]
          /\ \A h \in Handles :
                ended[j].handle = h /\ view[w].offered[j].handle # h => offered[j].handle # h
    /\ \A j \in Jobs : \A h \in Handles : ends[j][h] # 0 =>
          /\ ends[j][h] = 1
          /\ Spent(h)
          /\ ended[j].handle = h \/ Behind(j, h)

Lone == Cardinality(Watches) <= 1

(***************************************************************************)
(* The budget of a job: what the target has taken for it, the runs of the  *)
(* batch that may still offer it, and its placeholder, unless a pass has   *)
(* just turned that into a run.                                            *)
(***************************************************************************)
Asking(j) ==
    {d \in Runners : j \in todo[d] \/ (job[d] = j /\ at[d] \in {"ask", "hold"})}
Resuming(j) == \E d \in Passes : job[d] = j /\ at[d] \in {"record", "forget", "refuse"}
Token(j) == IF verdict[Placeholder(j)] = "held" /\ ~Resuming(j) THEN 1 ELSE 0

BudgetInv ==
    \A j \in Jobs :
        /\ IsFiniteSet(TakenFor(j)) /\ IsFiniteSet(Asking(j))
        /\ Cardinality(TakenFor(j)) + Cardinality(Asking(j)) + Token(j) <= begun + deaths

Strays == {h \in Handles : Stray(h)} \ lost
StrayInv == IsFiniteSet(Strays) /\ Cardinality(Strays) <= deaths

DispatchInv == ActorInv /\ HandInv /\ HeldInv
BatchInv ==
    /\ TypeOK
    /\ DispatchInv
    /\ StreamInv /\ ViewInv /\ WatchInv
    /\ Lone => OnceInv
    /\ BudgetInv /\ StrayInv
(***************************************************************************)
(* The steps, by who takes them.                                           *)
(***************************************************************************)
ActorStep == \E d \in Actors : Acts(d) /\ UNCHANGED watching
WatchStep == \E w \in Watches : WatchActs(w) /\ UNCHANGED dispatching
QueueStep == \E h \in Handles : JobEnds(h) /\ UNCHANGED <<dispatching, watching>>

\* A job has one placeholder of its own, and no handle is a placeholder.
LEMMA PlaceholderOf ==
    /\ \A j \in Jobs : Placeholder(j) \in Placeholders /\ Request[Placeholder(j)] = j
    /\ \A i, j \in Jobs : Placeholder(i) = Placeholder(j) => i = j
    /\ Placeholders \subseteq Runs /\ Handles \subseteq Runs
    /\ Handles \cap Placeholders = {}
    /\ NoHandle \notin Handles
    /\ \A j \in Jobs : HandlesOf(j) \subseteq Handles
    /\ \A i, j \in Jobs : i # j => HandlesOf(i) \cap HandlesOf(j) = {}
<1>1. \A j \in Jobs : Placeholder(j) \in Placeholders /\ Request[Placeholder(j)] = j
  BY StreamAssumption DEF Placeholder
<1>2. \A i, j \in Jobs : Placeholder(i) = Placeholder(j) => i = j
  BY <1>1
<1> QED  BY <1>1, <1>2, StreamAssumption, RegistryAssumption DEF Handles, HandlesOf

(***************************************************************************)
(* What an actor does when dispatching raises: refused by a queue that     *)
(* left the job, or by one that has it.                                    *)
(***************************************************************************)
Raising(d) ==
    \/ \E why \in Refusals : Refused(d, why)
    \/ TakenUnheard(d) \/ RecordFails(d)

Gives ==
    \/ UNCHANGED queue
    \/ \E h \in Handles : queue[h] = "free" /\ queue' = [queue EXCEPT ![h] = "live"]

\* It takes the refusal, from where it offered the job or was to record it.
LEMMA RaisingIs ==
    ASSUME NEW d \in Actors, Raising(d)
    PROVE  \E from \in {"ask", "record"}, why \in Refusals :
              /\ Gives /\ (from = "record" => why # Quota)
              /\ BatchRefused(d, from, why) \/ PassRefused(d, from, why)
BY DEF Raising, Refused, TakenUnheard, RecordFails, Raises, Gives, HandlesOf, Quota, Outage

\* A job lost from sight stays so.
LEMMA LostStays ==
    ASSUME Next
    PROVE  lost \subseteq lost'
BY DEF Next, Acts, TakenUnheard, RecordFails, dispatching

\* An outage sends a batch to its next job and a pass to fail the request.
LEMMA OutageDoes ==
    ASSUME NEW d, NEW from, Raises(d, from, Outage)
    PROVE  /\ UNCHANGED verdict
           /\ \/ /\ d \in Runners /\ Done(d, from)
              \/ /\ d \in Passes /\ Go(d, from, "refuse")
                 /\ got' = [got EXCEPT ![d] = Outage] /\ UNCHANGED <<todo, job>>
BY DEF Raises, BatchRefused, PassRefused, Outage, Quota, registry

\* What Cache.resolve does: the verdict moves, if it may.
ResolveEffect(r, word) ==
    /\ Exists(r)
    /\ \/ /\ Reaches(verdict[r], word)
          /\ verdict' = [verdict EXCEPT ![r] = word]
          /\ \E isStop \in BOOLEAN : stopped' = [stopped EXCEPT ![r] = isStop]
       \/ ~Reaches(verdict[r], word) /\ UNCHANGED <<verdict, stopped>>
    /\ UNCHANGED <<reported, evidence, leased, bound>>

\* A resolve moves the verdict or leaves the row alone.
LEMMA ResolveDoes ==
    ASSUME NEW r, NEW isStop \in BOOLEAN, NEW word, Resolve(r, isStop, word)
    PROVE  ResolveEffect(r, word)
<1>1. CASE Reaches(verdict[r], word)
  <2>1. /\ verdict' = [verdict EXCEPT ![r] = word]
        /\ stopped' = [stopped EXCEPT ![r] = isStop]
    BY <1>1 DEF Resolve
  <2> QED  BY <1>1, <2>1 DEF Resolve, ResolveEffect
<1>2. CASE ~Reaches(verdict[r], word)  BY <1>2 DEF Resolve, ResolveEffect
<1> QED  BY <1>1, <1>2

\* A line is counted for its own run and job alone.
LEMMA CountedDoes ==
    ASSUME NEW count \in Counts, NEW j \in Jobs, NEW h \in Handles \cup {NoHandle}
    PROVE  /\ Counted(count, j, h) \in Counts
           /\ \A i \in Jobs : \A g \in Handles \cup {NoHandle} :
                 i # j \/ g # h => Counted(count, j, h)[i][g] = count[i][g]
           /\ count[j][h] = 0 => Counted(count, j, h)[j][h] = 1
<1>1. count[j] \in [Handles \cup {NoHandle} -> 0..Twice]  BY DEF Counts
<1>2. count[j][h] \in 0..2  BY <1>1 DEF Twice
<1> DEFINE n == IF count[j][h] < Twice THEN count[j][h] + 1 ELSE Twice
<1>3. n \in 0..Twice /\ (count[j][h] = 0 => n = 1)  BY <1>2 DEF Twice
<1>4. Counted(count, j, h) = [count EXCEPT ![j] = [count[j] EXCEPT ![h] = n]]
  BY DEF Counted
<1> HIDE DEF n
<1>5. [count[j] EXCEPT ![h] = n] \in [Handles \cup {NoHandle} -> 0..Twice]
  BY <1>1, <1>3
<1> QED  BY <1>1, <1>3, <1>4, <1>5 DEF Counts

\* What a watch reads of a row, and what it has replayed, are lines.
LEMMA LinesTyped ==
    /\ NoLine \in Lines /\ Blank \in Views
    /\ StreamTypeOK => Now \in Views
    /\ RegistryTypeOK =>
          \A said \in [topic : Answers, handle : Handles \cup {NoHandle}] :
             (said.topic = "submitted" => said.handle \in Handles) => RowOf(said) \in Lines
<1>1. NoLine \in Lines  BY DEF NoLine, Lines
<1>2. Blank \in Views  BY <1>1 DEF Blank, Views, Answers
<1>3. StreamTypeOK => Now \in Views  BY DEF StreamTypeOK, Now, Views
<1>4. ASSUME NEW said \in [topic : Answers, handle : Handles \cup {NoHandle}],
             RegistryTypeOK, said.topic = "submitted" => said.handle \in Handles
      PROVE  RowOf(said) \in Lines
  <2>1. {"vanished", "held", "unknown", "running"} \subseteq Words  BY DEF Words
  <2>2. CASE said.topic = "none"  BY <1>1, <2>2 DEF RowOf
  <2>3. CASE said.topic \in {"refused", "held"}
    BY <2>1, <2>3 DEF RowOf, Lines
  <2>4. CASE said.topic = "submitted"
    <3>1. verdict[said.handle] \in Words \cup {NoRow, Unresolved}
      BY <1>4, <2>4, PlaceholderOf DEF RegistryTypeOK
    <3> QED  BY <1>4, <2>1, <2>4, <3>1 DEF RowOf, Lines, Exists
  <2> QED  BY <1>4, <2>2, <2>3, <2>4 DEF Answers
<1> QED  BY <1>1, <1>2, <1>3, <1>4

\* The actors keep the registry well formed.
LEMMA RowsTyped ==
    ASSUME BatchInv, ActorStep
    PROVE  RegistryTypeOK'
<1> DEFINE Goal == RegistryTypeOK'
<1> SUFFICES Goal  OBVIOUS
<1> DEFINE Needed ==
        /\ RegistryTypeOK /\ ActorInv /\ job \in [Actors -> Jobs \cup {None}]
<1>0. Needed  BY DEF BatchInv, TypeOK, DispatchInv, DispatchTypeOK
<1>w. {"held", "failed", "running", "cancelled", "ok"} \subseteq Words /\ "unset" \in Deliveries
  BY DEF Words, Deliveries
<1> USE <1>0, <1>w, PlaceholderOf DEF RegistryTypeOK, ActorInv, Busy, Taking, registry
<1>1. ASSUME NEW d \in Actors, RunBatch(d), UNCHANGED watching  PROVE Goal
  BY <1>1 DEF RunBatch
<1>2. ASSUME NEW d \in Actors, RunEnds(d), UNCHANGED watching  PROVE Goal
  BY <1>2 DEF RunEnds, Go, OnJob
<1>3. ASSUME NEW d \in Actors, PassClaims(d), UNCHANGED watching  PROVE Goal
  BY <1>3 DEF PassClaims, Go, OnJob
<1>4. ASSUME NEW d \in Actors, PassEnds(d), UNCHANGED watching  PROVE Goal
  BY <1>4 DEF PassEnds, Go, OnJob
<1>5. ASSUME NEW d \in Actors, Offer(d), UNCHANGED watching  PROVE Goal
  BY <1>5 DEF Offer, Go, OnJob
<1>6. ASSUME NEW d \in Actors, Taken(d), UNCHANGED watching  PROVE Goal
  BY <1>6 DEF Taken, Go, HandlesOf
<1>7. ASSUME NEW d \in Actors, Recorded(d), UNCHANGED watching  PROVE Goal
  BY <1>7 DEF Recorded, Go, OnJob, Record, Row
<1>8. ASSUME NEW d \in Actors, Receipt(d), UNCHANGED watching  PROVE Goal
  BY <1>8 DEF Receipt, Done, Go, Answer
<1>9. ASSUME NEW d \in Actors, NEW from \in {"ask", "record"}, NEW why \in Refusals,
             BatchRefused(d, from, why), from = "record" => why # Quota,
             Gives, UNCHANGED watching
      PROVE  Goal
  BY <1>9 DEF BatchRefused, Done, Go, OnJob, Answer
<1>10. ASSUME NEW d \in Actors, NEW from \in {"ask", "record"}, NEW why \in Refusals,
             PassRefused(d, from, why), Gives, UNCHANGED watching
      PROVE  Goal
  BY <1>10 DEF PassRefused, Done, Go
<1>r. ASSUME NEW d \in Actors, Raising(d), UNCHANGED watching  PROVE Goal
  <2>1. PICK from \in {"ask", "record"}, why \in Refusals :
               /\ Gives /\ (from = "record" => why # Quota)
               /\ BatchRefused(d, from, why) \/ PassRefused(d, from, why)
    BY <1>r, RaisingIs
  <2> HIDE DEF Goal
  <2> QED  BY <1>9, <1>10, <1>r, <2>1
<1>11. ASSUME NEW d \in Actors, BatchHolds(d), UNCHANGED watching  PROVE Goal
  BY <1>11 DEF BatchHolds, Go, OnJob, Hold, Row
<1>12. ASSUME NEW d \in Actors, BatchTold(d), UNCHANGED watching  PROVE Goal
  BY <1>12 DEF BatchTold, Done, Go, Answer
<1>13. ASSUME NEW d \in Actors, PassFails(d), UNCHANGED watching  PROVE Goal
  <2>1. ResolveEffect(Placeholder(job[d]), "failed")
    BY <1>13, ResolveDoes DEF PassFails
  <2> QED  BY <1>13, <2>1 DEF PassFails, ResolveEffect, Go, OnJob
<1>14. ASSUME NEW d \in Actors, PassForgets(d), UNCHANGED watching  PROVE Goal
  BY <1>14 DEF PassForgets, Go, OnJob, Forget, Row
<1>15. ASSUME NEW d \in Actors, NEW h \in Handles, PassSettles(d, h), UNCHANGED watching
      PROVE  Goal
  <2>1. CASE queue[h] = "over"
    <3>1. PICK word \in {"ok", "failed"} :
                 /\ verdict' = [verdict EXCEPT ![h] = word]
                 /\ reported' = [reported EXCEPT ![h] = word]
                 /\ UNCHANGED <<stopped, evidence, leased, bound>>
      BY <1>15, <2>1 DEF PassSettles
    <3> QED  BY <1>15, <3>1 DEF PassSettles
  <2>2. CASE queue[h] # "over"
    <3>1. ResolveEffect(h, "running")  BY <1>15, <2>2, ResolveDoes DEF PassSettles
    <3> QED  BY <1>15, <3>1 DEF PassSettles, ResolveEffect
  <2> QED  BY <2>1, <2>2
<1>16. ASSUME NEW d \in Actors, Unheld(d), UNCHANGED watching  PROVE Goal
  <2>1. PICK j \in Jobs :
               /\ verdict[Placeholder(j)] = "held"
               /\ Resolve(Placeholder(j), TRUE, "cancelled")
               /\ job' = [job EXCEPT ![d] = j]
    BY <1>16 DEF Unheld
  <2>2. ResolveEffect(Placeholder(j), "cancelled")  BY <2>1, ResolveDoes
  <2> QED  BY <1>16, <2>1, <2>2 DEF Unheld, Go, ResolveEffect
<1>17. ASSUME NEW d \in Actors, Reports(d), UNCHANGED watching  PROVE Goal
  BY <1>17 DEF Reports, Done, Go, Report
<1>18. ASSUME NEW d \in Actors, Dies(d), UNCHANGED watching  PROVE Goal
  BY <1>18 DEF Dies
<1> HIDE DEF Goal
<1> QED
  BY <1>1, <1>2, <1>3, <1>4, <1>5, <1>6, <1>7, <1>8, <1>9, <1>10, <1>11,
     <1>r, <1>12, <1>13, <1>14, <1>15, <1>16, <1>17, <1>18
  DEF ActorStep, Acts, Works, Raising

\* Every step keeps the stream and the queue well formed.
LEMMA StreamTyped ==
    ASSUME BatchInv, Next
    PROVE  StreamTypeOK'
<1> DEFINE Goal == StreamTypeOK'
<1> SUFFICES Goal  OBVIOUS
<1> DEFINE Needed ==
        /\ StreamTypeOK /\ ActorInv /\ job \in [Actors -> Jobs \cup {None}]
        /\ rows \in [Watches -> [Jobs -> Lines]]
        /\ \A w \in Watches : look[w] \in {"cost", "settle"} => row[w] \in Jobs
        /\ left \in [Watches -> SUBSET Jobs]
<1>0. Needed  BY DEF BatchInv, TypeOK, DispatchInv, DispatchTypeOK, WatchTypeOK, WatchInv
<1> USE <1>0, PlaceholderOf DEF StreamTypeOK, ActorInv, Busy, Taking, Answers, stream
<1>1. ASSUME NEW d \in Actors, RunBatch(d), UNCHANGED watching  PROVE Goal
  BY <1>1 DEF RunBatch
<1>2. ASSUME NEW d \in Actors, RunEnds(d), UNCHANGED watching  PROVE Goal
  BY <1>2 DEF RunEnds, Go, OnJob
<1>3. ASSUME NEW d \in Actors, PassClaims(d), UNCHANGED watching  PROVE Goal
  BY <1>3 DEF PassClaims, Go, OnJob
<1>4. ASSUME NEW d \in Actors, PassEnds(d), UNCHANGED watching  PROVE Goal
  BY <1>4 DEF PassEnds, Go, OnJob
<1>5. ASSUME NEW d \in Actors, Offer(d), UNCHANGED watching  PROVE Goal
  BY <1>5 DEF Offer, Go, OnJob
<1>6. ASSUME NEW d \in Actors, Taken(d), UNCHANGED watching  PROVE Goal
  BY <1>6 DEF Taken, Go, HandlesOf
<1>7. ASSUME NEW d \in Actors, Recorded(d), UNCHANGED watching  PROVE Goal
  BY <1>7 DEF Recorded, Go, OnJob, Record, Row
<1>8. ASSUME NEW d \in Actors, Receipt(d), UNCHANGED watching  PROVE Goal
  BY <1>8 DEF Receipt, Done, Go, Answer
<1>9. ASSUME NEW d \in Actors, NEW from \in {"ask", "record"}, NEW why \in Refusals,
             BatchRefused(d, from, why), from = "record" => why # Quota,
             Gives, UNCHANGED watching
      PROVE  Goal
  <2>1. queue' \in [Handles -> {"free", "live", "over"}]  BY <1>9 DEF Gives
  <2>2. CASE why = Quota  BY <1>9, <2>1, <2>2 DEF BatchRefused
  <2>3. CASE why # Quota
    <3>1. Answer(job[d], "refused", NoHandle) /\ at[d] = from
      BY <1>9, <2>3 DEF BatchRefused, Done, Go
    <3>2. job[d] \in Jobs  BY <1>9, <3>1
    <3> QED  BY <2>1, <3>1, <3>2 DEF Answer
  <2> QED  BY <2>2, <2>3
<1>10. ASSUME NEW d \in Actors, NEW from \in {"ask", "record"}, NEW why \in Refusals,
             PassRefused(d, from, why), Gives, UNCHANGED watching
      PROVE  Goal
  <2>1. queue' \in [Handles -> {"free", "live", "over"}]  BY <1>10 DEF Gives
  <2>2. UNCHANGED stream  BY <1>10 DEF PassRefused
  <2> QED  BY <2>1, <2>2
<1>r. ASSUME NEW d \in Actors, Raising(d), UNCHANGED watching  PROVE Goal
  <2>1. PICK from \in {"ask", "record"}, why \in Refusals :
               /\ Gives /\ (from = "record" => why # Quota)
               /\ BatchRefused(d, from, why) \/ PassRefused(d, from, why)
    BY <1>r, RaisingIs
  <2> HIDE DEF Goal
  <2> QED  BY <1>9, <1>10, <1>r, <2>1
<1>11. ASSUME NEW d \in Actors, BatchHolds(d), UNCHANGED watching  PROVE Goal
  BY <1>11 DEF BatchHolds, Go, OnJob, Hold, Row
<1>12. ASSUME NEW d \in Actors, BatchTold(d), UNCHANGED watching  PROVE Goal
  BY <1>12 DEF BatchTold, Done, Go, Answer
<1>13. ASSUME NEW d \in Actors, PassFails(d), UNCHANGED watching  PROVE Goal
  BY <1>13 DEF PassFails, Go, OnJob, Resolve
<1>14. ASSUME NEW d \in Actors, PassForgets(d), UNCHANGED watching  PROVE Goal
  BY <1>14 DEF PassForgets, Go, OnJob, Forget, Row
<1>15. ASSUME NEW d \in Actors, NEW h \in Handles, PassSettles(d, h), UNCHANGED watching
      PROVE  Goal
  BY <1>15 DEF PassSettles, Resolve
<1>16. ASSUME NEW d \in Actors, Unheld(d), UNCHANGED watching  PROVE Goal
  BY <1>16 DEF Unheld, Go, Resolve
<1>17. ASSUME NEW d \in Actors, Reports(d), UNCHANGED watching  PROVE Goal
  BY <1>17 DEF Reports, Done, Go, Report
<1>18. ASSUME NEW d \in Actors, Dies(d), UNCHANGED watching  PROVE Goal
  BY <1>18 DEF Dies
<1>19. ASSUME NEW w \in Watches, Replay(w), UNCHANGED dispatching  PROVE Goal
  BY <1>19 DEF Replay
<1>20. ASSUME NEW w \in Watches, ReadRows(w), UNCHANGED dispatching  PROVE Goal
  BY <1>20 DEF ReadRows, Look
<1>21. ASSUME NEW w \in Watches, RecordState(w), UNCHANGED dispatching  PROVE Goal
  BY <1>21 DEF RecordState
<1>22. ASSUME NEW w \in Watches, Observe(w), UNCHANGED dispatching  PROVE Goal
  <2>1. rows[w][row[w]].handle \in Handles \cup {NoHandle}
    BY <1>22 DEF Observe, Look, Lines
  <2>2. Counted(costs, row[w], rows[w][row[w]].handle) \in Counts
    BY <1>22, <2>1, CountedDoes DEF Observe, Look
  <2> QED  BY <1>22, <2>2 DEF Observe
<1>23. ASSUME NEW w \in Watches, Settle(w), UNCHANGED dispatching  PROVE Goal
  <2>1. rows[w][row[w]] \in Lines /\ rows[w][row[w]].handle \in Handles \cup {NoHandle}
    BY <1>23 DEF Settle, Look, Lines
  <2>2. Counted(ends, row[w], rows[w][row[w]].handle) \in Counts
    BY <1>23, <2>1, CountedDoes DEF Settle, Look
  <2> QED  BY <1>23, <2>1, <2>2 DEF Settle
<1>24. ASSUME NEW w \in Watches, Close(w), UNCHANGED dispatching  PROVE Goal
  BY <1>24 DEF Close
<1>25. ASSUME NEW w \in Watches, WatchDies(w), UNCHANGED dispatching  PROVE Goal
  BY <1>25 DEF WatchDies
<1>26. ASSUME NEW h \in Handles, JobEnds(h), UNCHANGED <<dispatching, watching>>
      PROVE  Goal
  BY <1>26 DEF JobEnds
<1> HIDE DEF Goal
<1> QED
  BY <1>1, <1>2, <1>3, <1>4, <1>5, <1>6, <1>7, <1>8, <1>9, <1>10, <1>11,
     <1>r, <1>12, <1>13, <1>14, <1>15, <1>16, <1>17, <1>18, <1>19, <1>20, <1>21,
     <1>22, <1>23, <1>24, <1>25, <1>26
  DEF Next, Acts, Works, Raising, WatchActs

\* The actors keep their own state well formed.
LEMMA DispatchTyped ==
    ASSUME BatchInv, ActorStep
    PROVE  DispatchTypeOK'
<1>l. lost' \subseteq Handles
  <2>1. lost \subseteq Handles  BY DEF BatchInv, TypeOK, DispatchTypeOK
  <2>2. \A d \in Actors : at[d] = "record" => got[d] \in Handles
    BY DEF BatchInv, DispatchInv, ActorInv, Taking, HandlesOf
  <2> QED
    BY <2>1, <2>2 DEF ActorStep, Acts, TakenUnheard, RecordFails, Raises, BatchRefused,
                      PassRefused, Done, Go, HandlesOf
<1> DEFINE Goal == DispatchTypeOK'
<1> SUFFICES Goal  OBVIOUS
<1> DEFINE Needed == DispatchTypeOK /\ lost' \subseteq Handles
<1>0. Needed  BY <1>l DEF BatchInv, TypeOK
<1> USE <1>0, PlaceholderOf, DispatchAssumption DEF DispatchTypeOK, Actors, dispatching
<1>1. ASSUME NEW d \in Actors, RunBatch(d), UNCHANGED watching  PROVE Goal
  BY <1>1 DEF RunBatch
<1>2. ASSUME NEW d \in Actors, RunEnds(d), UNCHANGED watching  PROVE Goal
  BY <1>2 DEF RunEnds, Go, OnJob
<1>3. ASSUME NEW d \in Actors, PassClaims(d), UNCHANGED watching  PROVE Goal
  BY <1>3 DEF PassClaims, Go, OnJob
<1>4. ASSUME NEW d \in Actors, PassEnds(d), UNCHANGED watching  PROVE Goal
  BY <1>4 DEF PassEnds, Go, OnJob
<1>5. ASSUME NEW d \in Actors, Offer(d), UNCHANGED watching  PROVE Goal
  BY <1>5 DEF Offer, Go, OnJob
<1>6. ASSUME NEW d \in Actors, Taken(d), UNCHANGED watching  PROVE Goal
  BY <1>6 DEF Taken, Go, HandlesOf
<1>7. ASSUME NEW d \in Actors, Recorded(d), UNCHANGED watching  PROVE Goal
  BY <1>7 DEF Recorded, Go, OnJob, Record, Row
<1>8. ASSUME NEW d \in Actors, Receipt(d), UNCHANGED watching  PROVE Goal
  BY <1>8 DEF Receipt, Done, Go, Answer
<1>9. ASSUME NEW d \in Actors, NEW from \in {"ask", "record"}, NEW why \in Refusals,
             BatchRefused(d, from, why), from = "record" => why # Quota,
             Gives, UNCHANGED watching
      PROVE  Goal
  BY <1>9 DEF BatchRefused, Done, Go, OnJob, Answer
<1>10. ASSUME NEW d \in Actors, NEW from \in {"ask", "record"}, NEW why \in Refusals,
             PassRefused(d, from, why), Gives, UNCHANGED watching
      PROVE  Goal
  BY <1>10 DEF PassRefused, Done, Go
<1>r. ASSUME NEW d \in Actors, Raising(d), UNCHANGED watching  PROVE Goal
  <2>1. PICK from \in {"ask", "record"}, why \in Refusals :
               /\ Gives /\ (from = "record" => why # Quota)
               /\ BatchRefused(d, from, why) \/ PassRefused(d, from, why)
    BY <1>r, RaisingIs
  <2> HIDE DEF Goal
  <2> QED  BY <1>9, <1>10, <1>r, <2>1
<1>11. ASSUME NEW d \in Actors, BatchHolds(d), UNCHANGED watching  PROVE Goal
  BY <1>11 DEF BatchHolds, Go, OnJob, Hold, Row
<1>12. ASSUME NEW d \in Actors, BatchTold(d), UNCHANGED watching  PROVE Goal
  BY <1>12 DEF BatchTold, Done, Go, Answer
<1>13. ASSUME NEW d \in Actors, PassFails(d), UNCHANGED watching  PROVE Goal
  BY <1>13 DEF PassFails, Go, OnJob, Resolve
<1>14. ASSUME NEW d \in Actors, PassForgets(d), UNCHANGED watching  PROVE Goal
  BY <1>14 DEF PassForgets, Go, OnJob, Forget, Row
<1>15. ASSUME NEW d \in Actors, NEW h \in Handles, PassSettles(d, h), UNCHANGED watching
      PROVE  Goal
  BY <1>15 DEF PassSettles, Resolve
<1>16. ASSUME NEW d \in Actors, Unheld(d), UNCHANGED watching  PROVE Goal
  BY <1>16 DEF Unheld, Go, Resolve
<1>17. ASSUME NEW d \in Actors, Reports(d), UNCHANGED watching  PROVE Goal
  BY <1>17 DEF Reports, Done, Go, Report
<1>18. ASSUME NEW d \in Actors, Dies(d), UNCHANGED watching  PROVE Goal
  BY <1>18 DEF Dies
<1> HIDE DEF Goal
<1> QED
  BY <1>1, <1>2, <1>3, <1>4, <1>5, <1>6, <1>7, <1>8, <1>9, <1>10, <1>11,
     <1>r, <1>12, <1>13, <1>14, <1>15, <1>16, <1>17, <1>18
  DEF ActorStep, Acts, Works, Raising

\* The watches keep their own state well formed.
LEMMA WatchTyped ==
    ASSUME BatchInv, WatchStep
    PROVE  WatchTypeOK'
<1> DEFINE Goal == WatchTypeOK'
<1> SUFFICES Goal  OBVIOUS
<1> DEFINE Needed ==
        /\ WatchTypeOK /\ StreamTypeOK /\ RegistryTypeOK
        /\ \A w \in Watches : \A j \in Jobs :
              view[w].offered[j].topic = "submitted" => view[w].offered[j].handle \in Handles
<1>0. Needed  BY PlaceholderOf DEF BatchInv, TypeOK, ViewInv, Answered
<1> USE <1>0, LinesTyped DEF WatchTypeOK
<1>1. ASSUME NEW w \in Watches, Replay(w), UNCHANGED dispatching  PROVE Goal
  BY <1>1 DEF Replay
<1>2. ASSUME NEW w \in Watches, ReadRows(w), UNCHANGED dispatching  PROVE Goal
  <2>1. \A j \in Jobs : RowOf(view[w].offered[j]) \in Lines
    <3>1. ASSUME NEW j \in Jobs  PROVE RowOf(view[w].offered[j]) \in Lines
      <4>1. view[w].offered[j] \in [topic : Answers, handle : Handles \cup {NoHandle}]
        BY DEF Views
      <4>2. view[w].offered[j].topic = "submitted" => view[w].offered[j].handle \in Handles
        OBVIOUS
      <4> QED  BY <4>1, <4>2, LinesTyped
    <3> QED  BY <3>1
  <2> QED  BY <1>2, <2>1 DEF ReadRows, Look, OfferedTo
<1>3. ASSUME NEW w \in Watches, RecordState(w), UNCHANGED dispatching  PROVE Goal
  <2>1. PICK j \in left[w] :
               /\ IF Lands(w, j)
                  THEN /\ look' = [look EXCEPT ![w] = "cost"]
                       /\ row' = [row EXCEPT ![w] = j]
                       /\ UNCHANGED left
                  ELSE /\ left' = [left EXCEPT ![w] = @ \ {j}]
                       /\ UNCHANGED <<look, row>>
               /\ look[w] = "record" /\ row[w] = NoJob
               /\ UNCHANGED <<view, rows, landed>>
    BY <1>3 DEF RecordState
  <2>2. UNCHANGED <<registry, queue, offered, ended, costs, ends, announced>>
    BY <1>3 DEF RecordState
  <2>3. CASE Lands(w, j)
    <3>1. look' = [look EXCEPT ![w] = "cost"] /\ row' = [row EXCEPT ![w] = j] /\ UNCHANGED left
      BY <2>1, <2>3
    <3> QED  BY <1>3, <2>1, <2>2, <2>3, <3>1
  <2>4. CASE ~Lands(w, j)
    <3>1. left' = [left EXCEPT ![w] = @ \ {j}] /\ UNCHANGED <<look, row>>
      BY <2>1, <2>4
    <3> QED  BY <1>3, <2>1, <2>2, <2>4, <3>1
  <2> QED  BY <2>3, <2>4
<1>4. ASSUME NEW w \in Watches, Observe(w), UNCHANGED dispatching  PROVE Goal
  BY <1>4 DEF Observe, Look, Counted
<1>5. ASSUME NEW w \in Watches, Settle(w), UNCHANGED dispatching  PROVE Goal
  BY <1>5 DEF Settle, Look, Counted
<1>6. ASSUME NEW w \in Watches, Close(w), UNCHANGED dispatching  PROVE Goal
  BY <1>6 DEF Close
<1>7. ASSUME NEW w \in Watches, WatchDies(w), UNCHANGED dispatching  PROVE Goal
  BY <1>7 DEF WatchDies
<1> HIDE DEF Goal
<1> QED
  BY <1>1, <1>2, <1>3, <1>4, <1>5, <1>6, <1>7
  DEF WatchStep, WatchActs

\* A run's row is never dropped, its end never rewritten, its handle never
\* given twice; a held job stays in the registry, as itself or as a run.
RunsLast ==
    /\ \A h \in Handles :
          /\ Exists(h) => Exists(h)'
          /\ IsSettled(h) => verdict'[h] = verdict[h]
          /\ queue[h] # "free" => queue'[h] # "free"
          /\ Spent(h) => Spent(h)'
    /\ \A j \in Jobs : Kept(j) => Kept(j)'

\* No step takes back what the registry, the queue and a batch rely on.
LEMMA RowsLast ==
    ASSUME BatchInv, Next
    PROVE  RunsLast
<1> DEFINE Goal == RunsLast
<1> SUFFICES Goal  OBVIOUS
<1> DEFINE Needed ==
        /\ RegistryTypeOK /\ ActorInv /\ DispatchTypeOK /\ StreamTypeOK
<1>0. Needed  BY DEF BatchInv, TypeOK, DispatchInv
<1>w. {"held", "failed", "running", "cancelled", "ok"} \subseteq Words /\ NoRow \notin Words
  BY DEF Words, NoRow
<1>s. Settled \subseteq Words /\ NoRow \notin Settled /\ Unresolved # NoRow
  BY <1>w DEF Settled, NoRow, Unresolved
<1> USE <1>0, <1>w, <1>s, PlaceholderOf, DispatchAssumption
        DEF RegistryTypeOK, ActorInv, DispatchTypeOK, StreamTypeOK, Busy, Taking, registry,
            dispatching, RunsLast, Exists, IsSettled, Spent, Kept
<1>1. ASSUME NEW d \in Actors, RunBatch(d), UNCHANGED watching  PROVE Goal
  BY <1>1 DEF RunBatch
<1>2. ASSUME NEW d \in Actors, RunEnds(d), UNCHANGED watching  PROVE Goal
  BY <1>2 DEF RunEnds, Go, OnJob
<1>3. ASSUME NEW d \in Actors, PassClaims(d), UNCHANGED watching  PROVE Goal
  BY <1>3 DEF PassClaims, Go, OnJob
<1>4. ASSUME NEW d \in Actors, PassEnds(d), UNCHANGED watching  PROVE Goal
  BY <1>4 DEF PassEnds, Go, OnJob
<1>5. ASSUME NEW d \in Actors, Offer(d), UNCHANGED watching  PROVE Goal
  BY <1>5 DEF Offer, Go, OnJob
<1>6. ASSUME NEW d \in Actors, Taken(d), UNCHANGED watching  PROVE Goal
  BY <1>6 DEF Taken, Go, HandlesOf
<1>7. ASSUME NEW d \in Actors, Recorded(d), UNCHANGED watching  PROVE Goal
  BY <1>7 DEF Recorded, Go, OnJob, Record, Row
<1>8. ASSUME NEW d \in Actors, Receipt(d), UNCHANGED watching  PROVE Goal
  BY <1>8 DEF Receipt, Done, Go, Answer
<1>9. ASSUME NEW d \in Actors, NEW from \in {"ask", "record"}, NEW why \in Refusals,
             BatchRefused(d, from, why), from = "record" => why # Quota,
             Gives, UNCHANGED watching
      PROVE  Goal
  BY <1>9 DEF BatchRefused, Gives, Done, Go, OnJob, Answer
<1>10. ASSUME NEW d \in Actors, NEW from \in {"ask", "record"}, NEW why \in Refusals,
             PassRefused(d, from, why), Gives, UNCHANGED watching
      PROVE  Goal
  BY <1>10 DEF PassRefused, Gives, Done, Go
<1>r. ASSUME NEW d \in Actors, Raising(d), UNCHANGED watching  PROVE Goal
  <2>1. PICK from \in {"ask", "record"}, why \in Refusals :
               /\ Gives /\ (from = "record" => why # Quota)
               /\ BatchRefused(d, from, why) \/ PassRefused(d, from, why)
    BY <1>r, RaisingIs
  <2> HIDE DEF Goal
  <2> QED  BY <1>9, <1>10, <1>r, <2>1
<1>11. ASSUME NEW d \in Actors, BatchHolds(d), UNCHANGED watching  PROVE Goal
  BY <1>11 DEF BatchHolds, Go, OnJob, Hold, Row
<1>12. ASSUME NEW d \in Actors, BatchTold(d), UNCHANGED watching  PROVE Goal
  BY <1>12 DEF BatchTold, Done, Go, Answer
<1>13. ASSUME NEW d \in Actors, PassFails(d), UNCHANGED watching  PROVE Goal
  <2>1. ResolveEffect(Placeholder(job[d]), "failed")
    BY <1>13, ResolveDoes DEF PassFails
  <2> QED  BY <1>13, <2>1 DEF PassFails, ResolveEffect, Go, OnJob
<1>14. ASSUME NEW d \in Actors, PassForgets(d), UNCHANGED watching  PROVE Goal
  BY <1>14 DEF PassForgets, Go, OnJob, Forget, Row
<1>15. ASSUME NEW d \in Actors, NEW h \in Handles, PassSettles(d, h), UNCHANGED watching
      PROVE  Goal
  <2>1. CASE queue[h] = "over"
    <3>1. PICK word \in {"ok", "failed"} :
                 /\ verdict' = [verdict EXCEPT ![h] = word]
                 /\ reported' = [reported EXCEPT ![h] = word]
                 /\ UNCHANGED <<stopped, evidence, leased, bound>>
      BY <1>15, <2>1 DEF PassSettles
    <3> QED  BY <1>15, <3>1 DEF PassSettles
  <2>2. CASE queue[h] # "over"
    <3>1. ResolveEffect(h, "running")  BY <1>15, <2>2, ResolveDoes DEF PassSettles
    <3> QED  BY <1>15, <3>1 DEF PassSettles, ResolveEffect
  <2> QED  BY <2>1, <2>2
<1>16. ASSUME NEW d \in Actors, Unheld(d), UNCHANGED watching  PROVE Goal
  <2>1. PICK j \in Jobs :
               /\ verdict[Placeholder(j)] = "held"
               /\ Resolve(Placeholder(j), TRUE, "cancelled")
               /\ job' = [job EXCEPT ![d] = j]
    BY <1>16 DEF Unheld
  <2>2. ResolveEffect(Placeholder(j), "cancelled")  BY <2>1, ResolveDoes
  <2> QED  BY <1>16, <2>1, <2>2 DEF Unheld, Go, ResolveEffect
<1>17. ASSUME NEW d \in Actors, Reports(d), UNCHANGED watching  PROVE Goal
  BY <1>17 DEF Reports, Done, Go, Report
<1>18. ASSUME NEW d \in Actors, Dies(d), UNCHANGED watching  PROVE Goal
  BY <1>18 DEF Dies
<1>19. ASSUME NEW w \in Watches, Replay(w), UNCHANGED dispatching  PROVE Goal
  BY <1>19 DEF Replay
<1>20. ASSUME NEW w \in Watches, ReadRows(w), UNCHANGED dispatching  PROVE Goal
  BY <1>20 DEF ReadRows, Look
<1>21. ASSUME NEW w \in Watches, RecordState(w), UNCHANGED dispatching  PROVE Goal
  <2>1. PICK j \in left[w] :
               /\ IF Lands(w, j)
                  THEN /\ look' = [look EXCEPT ![w] = "cost"]
                       /\ row' = [row EXCEPT ![w] = j]
                       /\ UNCHANGED left
                  ELSE /\ left' = [left EXCEPT ![w] = @ \ {j}]
                       /\ UNCHANGED <<look, row>>
               /\ look[w] = "record" /\ row[w] = NoJob
               /\ UNCHANGED <<view, rows, landed>>
    BY <1>21 DEF RecordState
  <2>2. UNCHANGED <<registry, queue, offered, ended, costs, ends, announced>>
    BY <1>21 DEF RecordState
  <2>3. CASE Lands(w, j)
    <3>1. look' = [look EXCEPT ![w] = "cost"] /\ row' = [row EXCEPT ![w] = j] /\ UNCHANGED left
      BY <2>1, <2>3
    <3> QED  BY <1>21, <2>1, <2>2, <2>3, <3>1
  <2>4. CASE ~Lands(w, j)
    <3>1. left' = [left EXCEPT ![w] = @ \ {j}] /\ UNCHANGED <<look, row>>
      BY <2>1, <2>4
    <3> QED  BY <1>21, <2>1, <2>2, <2>4, <3>1
  <2> QED  BY <2>3, <2>4
<1>22. ASSUME NEW w \in Watches, Observe(w), UNCHANGED dispatching  PROVE Goal
  BY <1>22 DEF Observe, Look, Counted
<1>23. ASSUME NEW w \in Watches, Settle(w), UNCHANGED dispatching  PROVE Goal
  BY <1>23 DEF Settle, Look, Counted
<1>24. ASSUME NEW w \in Watches, Close(w), UNCHANGED dispatching  PROVE Goal
  BY <1>24 DEF Close
<1>25. ASSUME NEW w \in Watches, WatchDies(w), UNCHANGED dispatching  PROVE Goal
  BY <1>25 DEF WatchDies
<1>26. ASSUME NEW h \in Handles, JobEnds(h), UNCHANGED <<dispatching, watching>>
      PROVE  Goal
  BY <1>26 DEF JobEnds
<1> HIDE DEF Goal
<1> QED
  BY <1>1, <1>2, <1>3, <1>4, <1>5, <1>6, <1>7, <1>8, <1>9, <1>10, <1>11,
     <1>r, <1>12, <1>13, <1>14, <1>15, <1>16, <1>17, <1>18, <1>19, <1>20, <1>21,
     <1>22, <1>23, <1>24, <1>25, <1>26
  DEF Next, Acts, Works, Raising, WatchActs

\* An actor keeps in hand what it was about, and the lock while it works.
LEMMA ActorStepInv ==
    ASSUME BatchInv, ActorStep
    PROVE  ActorInv'
<1> DEFINE Goal == ActorInv'
<1> SUFFICES Goal  OBVIOUS
<1> DEFINE Needed ==
        /\ RegistryTypeOK /\ ActorInv /\ DispatchTypeOK /\ StreamTypeOK
<1>0. Needed  BY DEF BatchInv, TypeOK, DispatchInv
<1>w. NoRow \notin Words /\ Unresolved # NoRow
  BY DEF Words, NoRow, Unresolved
<1> USE <1>0, <1>w, PlaceholderOf, DispatchAssumption
        DEF RegistryTypeOK, ActorInv, DispatchTypeOK, StreamTypeOK, Busy, Taking, registry,
            dispatching, Actors, Exists
<1>1. ASSUME NEW d \in Actors, RunBatch(d), UNCHANGED watching  PROVE Goal
  BY <1>1 DEF RunBatch
<1>2. ASSUME NEW d \in Actors, RunEnds(d), UNCHANGED watching  PROVE Goal
  BY <1>2 DEF RunEnds, Go, OnJob
<1>3. ASSUME NEW d \in Actors, PassClaims(d), UNCHANGED watching  PROVE Goal
  BY <1>3 DEF PassClaims, Go, OnJob
<1>4. ASSUME NEW d \in Actors, PassEnds(d), UNCHANGED watching  PROVE Goal
  BY <1>4 DEF PassEnds, Go, OnJob
<1>5. ASSUME NEW d \in Actors, Offer(d), UNCHANGED watching  PROVE Goal
  BY <1>5 DEF Offer, Go, OnJob
<1>6. ASSUME NEW d \in Actors, Taken(d), UNCHANGED watching  PROVE Goal
  BY <1>6 DEF Taken, Go, HandlesOf
<1>7. ASSUME NEW d \in Actors, Recorded(d), UNCHANGED watching  PROVE Goal
  BY <1>7 DEF Recorded, Go, OnJob, Record, Row
<1>8. ASSUME NEW d \in Actors, Receipt(d), UNCHANGED watching  PROVE Goal
  BY <1>8 DEF Receipt, Done, Go, Answer
<1>9. ASSUME NEW d \in Actors, NEW from \in {"ask", "record"}, NEW why \in Refusals,
             BatchRefused(d, from, why), from = "record" => why # Quota,
             Gives, UNCHANGED watching
      PROVE  Goal
  <2>1. \A h \in Handles : queue[h] # "free" => queue'[h] # "free"  BY <1>9 DEF Gives
  <2>2. UNCHANGED verdict /\ d \in Runners  BY <1>9 DEF BatchRefused
  <2>3. CASE why = Quota
    <3>1. /\ at[d] = "ask" /\ at' = [at EXCEPT ![d] = "hold"]
          /\ UNCHANGED <<todo, job, got, owner>>
      BY <1>9, <2>3 DEF BatchRefused, Go, OnJob
    <3> QED  BY <2>1, <2>2, <3>1 DEF HandlesOf
  <2>4. CASE why # Quota
    <3>1. Done(d, from)  BY <1>9, <2>4 DEF BatchRefused
    <3> QED  BY <2>1, <2>2, <3>1 DEF Done, Go, HandlesOf
  <2> QED  BY <2>3, <2>4
<1>10. ASSUME NEW d \in Actors, NEW from \in {"ask", "record"}, NEW why \in Refusals,
             PassRefused(d, from, why), Gives, UNCHANGED watching
      PROVE  Goal
  BY <1>10 DEF PassRefused, Gives, Done, Go
<1>r. ASSUME NEW d \in Actors, Raising(d), UNCHANGED watching  PROVE Goal
  <2>1. PICK from \in {"ask", "record"}, why \in Refusals :
               /\ Gives /\ (from = "record" => why # Quota)
               /\ BatchRefused(d, from, why) \/ PassRefused(d, from, why)
    BY <1>r, RaisingIs
  <2> HIDE DEF Goal
  <2> QED  BY <1>9, <1>10, <1>r, <2>1
<1>11. ASSUME NEW d \in Actors, BatchHolds(d), UNCHANGED watching  PROVE Goal
  BY <1>11 DEF BatchHolds, Go, OnJob, Hold, Row
<1>12. ASSUME NEW d \in Actors, BatchTold(d), UNCHANGED watching  PROVE Goal
  BY <1>12 DEF BatchTold, Done, Go, Answer
<1>13. ASSUME NEW d \in Actors, PassFails(d), UNCHANGED watching  PROVE Goal
  <2>1. ResolveEffect(Placeholder(job[d]), "failed")
    BY <1>13, ResolveDoes DEF PassFails
  <2> QED  BY <1>13, <2>1 DEF PassFails, ResolveEffect, Go, OnJob
<1>14. ASSUME NEW d \in Actors, PassForgets(d), UNCHANGED watching  PROVE Goal
  BY <1>14 DEF PassForgets, Go, OnJob, Forget, Row
<1>15. ASSUME NEW d \in Actors, NEW h \in Handles, PassSettles(d, h), UNCHANGED watching
      PROVE  Goal
  <2>1. \A g \in Handles : Exists(g) => Exists(g)'
    BY RowsLast DEF RunsLast, Next, ActorStep
  <2>2. UNCHANGED <<dispatching, queue>>  BY <1>15 DEF PassSettles
  <2> HIDE DEF Exists
  <2> QED  BY <2>1, <2>2
<1>16. ASSUME NEW d \in Actors, Unheld(d), UNCHANGED watching  PROVE Goal
  <2>1. PICK j \in Jobs :
               /\ verdict[Placeholder(j)] = "held"
               /\ Resolve(Placeholder(j), TRUE, "cancelled")
               /\ job' = [job EXCEPT ![d] = j]
    BY <1>16 DEF Unheld
  <2>2. ResolveEffect(Placeholder(j), "cancelled")  BY <2>1, ResolveDoes
  <2> QED  BY <1>16, <2>1, <2>2 DEF Unheld, Go, ResolveEffect
<1>17. ASSUME NEW d \in Actors, Reports(d), UNCHANGED watching  PROVE Goal
  <2>1. CASE d \in Passes  BY <1>17, <2>1 DEF Reports, Done, Go, Report
  <2>2. CASE d \notin Passes
    <3>1. /\ Go(d, "report", "idle") /\ job' = [job EXCEPT ![d] = None]
          /\ owner' = None /\ UNCHANGED <<todo, got>>
      BY <1>17, <2>2 DEF Reports
    <3>2. UNCHANGED <<queue, verdict>>  BY <1>17 DEF Reports, Report
    <3>3. /\ at[d] = "report" /\ owner = d /\ d \in Stoppers
          /\ at' = [at EXCEPT ![d] = "idle"]
      BY <1>17, <2>2, <3>1 DEF Go
    <3>4. \A c \in Actors : c # d =>
              /\ at'[c] = at[c] /\ job'[c] = job[c] /\ got'[c] = got[c]
              /\ todo'[c] = todo[c] /\ (c \notin Runners => at[c] = "idle")
      BY <3>1, <3>3
    <3>5. /\ at'[d] = "idle" /\ job'[d] = None /\ got'[d] = got[d]
          /\ todo'[d] = {} /\ got[d] \notin Handles
      BY <3>1, <3>3
    <3> QED  BY <3>2, <3>3, <3>4, <3>5
  <2> QED  BY <2>1, <2>2
<1>18. ASSUME NEW d \in Actors, Dies(d), UNCHANGED watching  PROVE Goal
  BY <1>18 DEF Dies
<1> HIDE DEF Goal
<1> QED
  BY <1>1, <1>2, <1>3, <1>4, <1>5, <1>6, <1>7, <1>8, <1>9, <1>10, <1>11,
     <1>r, <1>12, <1>13, <1>14, <1>15, <1>16, <1>17, <1>18
  DEF ActorStep, Acts, Works, Raising

\* A handle is given to one actor, from a place nobody had in hand.
LEMMA HandStep ==
    ASSUME BatchInv, ActorStep
    PROVE  HandInv'
<1> DEFINE Goal == HandInv'
<1> SUFFICES Goal  OBVIOUS
<1> DEFINE Needed ==
        /\ ActorInv /\ HandInv /\ DispatchTypeOK
<1>0. Needed  BY DEF BatchInv, TypeOK, DispatchInv
<1> USE <1>0, PlaceholderOf, DispatchAssumption
        DEF ActorInv, HandInv, DispatchTypeOK, Taking, dispatching
<1>1. ASSUME NEW d \in Actors, RunBatch(d), UNCHANGED watching  PROVE Goal
  BY <1>1 DEF RunBatch
<1>2. ASSUME NEW d \in Actors, RunEnds(d), UNCHANGED watching  PROVE Goal
  BY <1>2 DEF RunEnds, Go, OnJob
<1>3. ASSUME NEW d \in Actors, PassClaims(d), UNCHANGED watching  PROVE Goal
  BY <1>3 DEF PassClaims, Go, OnJob
<1>4. ASSUME NEW d \in Actors, PassEnds(d), UNCHANGED watching  PROVE Goal
  BY <1>4 DEF PassEnds, Go, OnJob
<1>5. ASSUME NEW d \in Actors, Offer(d), UNCHANGED watching  PROVE Goal
  BY <1>5 DEF Offer, Go, OnJob
<1>6. ASSUME NEW d \in Actors, Taken(d), UNCHANGED watching  PROVE Goal
  BY <1>6 DEF Taken, Go, HandlesOf
<1>7. ASSUME NEW d \in Actors, Recorded(d), UNCHANGED watching  PROVE Goal
  BY <1>7 DEF Recorded, Go, OnJob, Record, Row
<1>8. ASSUME NEW d \in Actors, Receipt(d), UNCHANGED watching  PROVE Goal
  BY <1>8 DEF Receipt, Done, Go, Answer
<1>9. ASSUME NEW d \in Actors, NEW from \in {"ask", "record"}, NEW why \in Refusals,
             BatchRefused(d, from, why), from = "record" => why # Quota,
             Gives, UNCHANGED watching
      PROVE  Goal
  BY <1>9 DEF BatchRefused, Done, Go, OnJob, Answer
<1>10. ASSUME NEW d \in Actors, NEW from \in {"ask", "record"}, NEW why \in Refusals,
             PassRefused(d, from, why), Gives, UNCHANGED watching
      PROVE  Goal
  BY <1>10 DEF PassRefused, Done, Go
<1>r. ASSUME NEW d \in Actors, Raising(d), UNCHANGED watching  PROVE Goal
  <2>1. PICK from \in {"ask", "record"}, why \in Refusals :
               /\ Gives /\ (from = "record" => why # Quota)
               /\ BatchRefused(d, from, why) \/ PassRefused(d, from, why)
    BY <1>r, RaisingIs
  <2> HIDE DEF Goal
  <2> QED  BY <1>9, <1>10, <1>r, <2>1
<1>11. ASSUME NEW d \in Actors, BatchHolds(d), UNCHANGED watching  PROVE Goal
  BY <1>11 DEF BatchHolds, Go, OnJob, Hold, Row
<1>12. ASSUME NEW d \in Actors, BatchTold(d), UNCHANGED watching  PROVE Goal
  BY <1>12 DEF BatchTold, Done, Go, Answer
<1>13. ASSUME NEW d \in Actors, PassFails(d), UNCHANGED watching  PROVE Goal
  BY <1>13 DEF PassFails, Go, OnJob, Resolve
<1>14. ASSUME NEW d \in Actors, PassForgets(d), UNCHANGED watching  PROVE Goal
  BY <1>14 DEF PassForgets, Go, OnJob, Forget, Row
<1>15. ASSUME NEW d \in Actors, NEW h \in Handles, PassSettles(d, h), UNCHANGED watching
      PROVE  Goal
  BY <1>15 DEF PassSettles, Resolve
<1>16. ASSUME NEW d \in Actors, Unheld(d), UNCHANGED watching  PROVE Goal
  BY <1>16 DEF Unheld, Go, Resolve
<1>17. ASSUME NEW d \in Actors, Reports(d), UNCHANGED watching  PROVE Goal
  BY <1>17 DEF Reports, Done, Go, Report
<1>18. ASSUME NEW d \in Actors, Dies(d), UNCHANGED watching  PROVE Goal
  BY <1>18 DEF Dies
<1> HIDE DEF Goal
<1> QED
  BY <1>1, <1>2, <1>3, <1>4, <1>5, <1>6, <1>7, <1>8, <1>9, <1>10, <1>11,
     <1>r, <1>12, <1>13, <1>14, <1>15, <1>16, <1>17, <1>18
  DEF ActorStep, Acts, Works, Raising

\* Only the pass that holds the lock gives up a request it asks for again.
LEMMA HeldStep ==
    ASSUME BatchInv, ActorStep
    PROVE  HeldInv'
<1> DEFINE Goal == HeldInv'
<1> SUFFICES Goal  OBVIOUS
<1> DEFINE Needed ==
        /\ RegistryTypeOK /\ ActorInv /\ HeldInv /\ DispatchTypeOK
<1>0. Needed  BY DEF BatchInv, TypeOK, DispatchInv
<1> USE <1>0, PlaceholderOf, DispatchAssumption
        DEF RegistryTypeOK, ActorInv, HeldInv, DispatchTypeOK, Busy, Taking, registry,
            dispatching, Actors, Exists
<1>1. ASSUME NEW d \in Actors, RunBatch(d), UNCHANGED watching  PROVE Goal
  BY <1>1 DEF RunBatch
<1>2. ASSUME NEW d \in Actors, RunEnds(d), UNCHANGED watching  PROVE Goal
  BY <1>2 DEF RunEnds, Go, OnJob
<1>3. ASSUME NEW d \in Actors, PassClaims(d), UNCHANGED watching  PROVE Goal
  BY <1>3 DEF PassClaims, Go, OnJob
<1>4. ASSUME NEW d \in Actors, PassEnds(d), UNCHANGED watching  PROVE Goal
  BY <1>4 DEF PassEnds, Go, OnJob
<1>5. ASSUME NEW d \in Actors, Offer(d), UNCHANGED watching  PROVE Goal
  BY <1>5 DEF Offer, Go, OnJob
<1>6. ASSUME NEW d \in Actors, Taken(d), UNCHANGED watching  PROVE Goal
  BY <1>6 DEF Taken, Go, HandlesOf
<1>7. ASSUME NEW d \in Actors, Recorded(d), UNCHANGED watching  PROVE Goal
  BY <1>7 DEF Recorded, Go, OnJob, Record, Row
<1>8. ASSUME NEW d \in Actors, Receipt(d), UNCHANGED watching  PROVE Goal
  BY <1>8 DEF Receipt, Done, Go, Answer
<1>9. ASSUME NEW d \in Actors, NEW from \in {"ask", "record"}, NEW why \in Refusals,
             BatchRefused(d, from, why), from = "record" => why # Quota,
             Gives, UNCHANGED watching
      PROVE  Goal
  BY <1>9 DEF BatchRefused, Done, Go, OnJob, Answer
<1>10. ASSUME NEW d \in Actors, NEW from \in {"ask", "record"}, NEW why \in Refusals,
             PassRefused(d, from, why), Gives, UNCHANGED watching
      PROVE  Goal
  BY <1>10 DEF PassRefused, Done, Go
<1>r. ASSUME NEW d \in Actors, Raising(d), UNCHANGED watching  PROVE Goal
  <2>1. PICK from \in {"ask", "record"}, why \in Refusals :
               /\ Gives /\ (from = "record" => why # Quota)
               /\ BatchRefused(d, from, why) \/ PassRefused(d, from, why)
    BY <1>r, RaisingIs
  <2> HIDE DEF Goal
  <2> QED  BY <1>9, <1>10, <1>r, <2>1
<1>11. ASSUME NEW d \in Actors, BatchHolds(d), UNCHANGED watching  PROVE Goal
  BY <1>11 DEF BatchHolds, Go, OnJob, Hold, Row
<1>12. ASSUME NEW d \in Actors, BatchTold(d), UNCHANGED watching  PROVE Goal
  BY <1>12 DEF BatchTold, Done, Go, Answer
<1>13. ASSUME NEW d \in Actors, PassFails(d), UNCHANGED watching  PROVE Goal
  <2>1. ResolveEffect(Placeholder(job[d]), "failed")
    BY <1>13, ResolveDoes DEF PassFails
  <2> QED  BY <1>13, <2>1 DEF PassFails, ResolveEffect, Go, OnJob
<1>14. ASSUME NEW d \in Actors, PassForgets(d), UNCHANGED watching  PROVE Goal
  BY <1>14 DEF PassForgets, Go, OnJob, Forget, Row
<1>15. ASSUME NEW d \in Actors, NEW h \in Handles, PassSettles(d, h), UNCHANGED watching
      PROVE  Goal
  <2>1. CASE queue[h] = "over"
    <3>1. PICK word \in {"ok", "failed"} :
                 /\ verdict' = [verdict EXCEPT ![h] = word]
                 /\ reported' = [reported EXCEPT ![h] = word]
                 /\ UNCHANGED <<stopped, evidence, leased, bound>>
      BY <1>15, <2>1 DEF PassSettles
    <3>2. \A j \in Jobs : verdict'[Placeholder(j)] = verdict[Placeholder(j)]  BY <3>1
    <3> QED  BY <1>15, <3>2 DEF PassSettles
  <2>2. CASE queue[h] # "over"
    <3>1. ResolveEffect(h, "running")  BY <1>15, <2>2, ResolveDoes DEF PassSettles
    <3>2. \A j \in Jobs : verdict'[Placeholder(j)] = verdict[Placeholder(j)]
      BY <3>1 DEF ResolveEffect
    <3> QED  BY <1>15, <3>2 DEF PassSettles
  <2> QED  BY <2>1, <2>2
<1>16. ASSUME NEW d \in Actors, Unheld(d), UNCHANGED watching  PROVE Goal
  <2>1. PICK j \in Jobs :
               /\ verdict[Placeholder(j)] = "held"
               /\ Resolve(Placeholder(j), TRUE, "cancelled")
               /\ job' = [job EXCEPT ![d] = j]
    BY <1>16 DEF Unheld
  <2>2. ResolveEffect(Placeholder(j), "cancelled")  BY <2>1, ResolveDoes
  <2> QED  BY <1>16, <2>1, <2>2 DEF Unheld, Go, ResolveEffect
<1>17. ASSUME NEW d \in Actors, Reports(d), UNCHANGED watching  PROVE Goal
  <2>1. CASE d \in Passes  BY <1>17, <2>1 DEF Reports, Done, Go, Report
  <2>2. CASE d \notin Passes
    <3>1. /\ Go(d, "report", "idle") /\ job' = [job EXCEPT ![d] = None]
          /\ owner' = None /\ UNCHANGED <<todo, got>>
      BY <1>17, <2>2 DEF Reports
    <3>2. UNCHANGED <<queue, verdict>>  BY <1>17 DEF Reports, Report
    <3>3. at' = [at EXCEPT ![d] = "idle"]  BY <3>1 DEF Go
    <3> QED  BY <2>2, <3>1, <3>2, <3>3
  <2> QED  BY <2>1, <2>2
<1>18. ASSUME NEW d \in Actors, Dies(d), UNCHANGED watching  PROVE Goal
  BY <1>18 DEF Dies
<1> HIDE DEF Goal
<1> QED
  BY <1>1, <1>2, <1>3, <1>4, <1>5, <1>6, <1>7, <1>8, <1>9, <1>10, <1>11,
     <1>r, <1>12, <1>13, <1>14, <1>15, <1>16, <1>17, <1>18
  DEF ActorStep, Acts, Works, Raising

\* What a line said of a run is so after any step.
LEMMA LinesLast ==
    ASSUME BatchInv, Next
    PROVE  /\ \A j \in Jobs : \A line \in Lines : Truthful(j, line) => Truthful(j, line)'
           /\ \A j \in Jobs : \A line \in [topic : Answers, handle : Handles \cup {NoHandle}] :
                 Answered(j, line) => Answered(j, line)'
           /\ \A j \in Jobs : Kept(j) => Kept(j)'
<1>1. /\ \A h \in Handles :
            /\ Exists(h) => Exists(h)'
            /\ verdict[h] \in Settled => verdict'[h] = verdict[h]
            /\ Spent(h) => Spent(h)'
      /\ \A j \in Jobs : Kept(j) => Kept(j)'
  BY RowsLast DEF RunsLast, IsSettled
<1>2. ASSUME NEW j \in Jobs, NEW line \in Lines, Truthful(j, line)
      PROVE  Truthful(j, line)'
  BY <1>1, <1>2 DEF Truthful, IsOver, HandlesOf
<1>3. ASSUME NEW j \in Jobs, NEW line \in [topic : Answers, handle : Handles \cup {NoHandle}],
             Answered(j, line)
      PROVE  Answered(j, line)'
  BY <1>1, <1>3 DEF Answered, HandlesOf
<1> QED  BY <1>1, <1>2, <1>3

\* A line is written once what it says is so, and what it says lasts.
LEMMA StreamStep ==
    ASSUME BatchInv, Next
    PROVE  StreamInv'
<1> DEFINE Goal == StreamInv'
<1> SUFFICES Goal  OBVIOUS
<1> DEFINE Needed ==
        /\ RegistryTypeOK /\ StreamTypeOK /\ DispatchTypeOK /\ WatchTypeOK
        /\ ActorInv /\ HandInv /\ StreamInv /\ ViewInv /\ WatchInv
<1>0. Needed  BY DEF BatchInv, TypeOK, DispatchInv
<1>k. /\ \A j \in Jobs : \A line \in Lines : Truthful(j, line) => Truthful(j, line)'
      /\ \A j \in Jobs : \A line \in [topic : Answers, handle : Handles \cup {NoHandle}] :
            Answered(j, line) => Answered(j, line)'
      /\ \A j \in Jobs : Kept(j) => Kept(j)'
  BY LinesLast
<1>j. \A c \in Actors : at[c] = "told" => job[c] \in Jobs
  BY <1>0 DEF ActorInv, DispatchTypeOK, Busy
<1> USE <1>0, <1>j, <1>k
        DEF StreamInv, StreamTypeOK, DispatchTypeOK
<1>1. ASSUME NEW d \in Actors, RunBatch(d), UNCHANGED watching  PROVE Goal
  <2>1. /\ \A c \in Actors : at'[c] = "told" => at[c] = "told" /\ job'[c] = job[c]
        /\ UNCHANGED <<offered, ended>>
    BY <1>1 DEF RunBatch, stream
  <2> QED  BY <2>1
<1>2. ASSUME NEW d \in Actors, RunEnds(d), UNCHANGED watching  PROVE Goal
  <2>1. /\ \A c \in Actors : at'[c] = "told" => at[c] = "told" /\ job'[c] = job[c]
        /\ UNCHANGED <<offered, ended>>
    BY <1>2 DEF RunEnds, Go, OnJob, stream
  <2> QED  BY <2>1
<1>3. ASSUME NEW d \in Actors, PassClaims(d), UNCHANGED watching  PROVE Goal
  <2>1. /\ \A c \in Actors : at'[c] = "told" => at[c] = "told" /\ job'[c] = job[c]
        /\ UNCHANGED <<offered, ended>>
    BY <1>3 DEF PassClaims, Go, stream
  <2> QED  BY <2>1
<1>4. ASSUME NEW d \in Actors, PassEnds(d), UNCHANGED watching  PROVE Goal
  <2>1. /\ \A c \in Actors : at'[c] = "told" => at[c] = "told" /\ job'[c] = job[c]
        /\ UNCHANGED <<offered, ended>>
    BY <1>4 DEF PassEnds, Go, stream
  <2> QED  BY <2>1
<1>5. ASSUME NEW d \in Actors, Offer(d), UNCHANGED watching  PROVE Goal
  <2>1. /\ \A c \in Actors : at'[c] = "told" => at[c] = "told" /\ job'[c] = job[c]
        /\ UNCHANGED <<offered, ended>>
    BY <1>5 DEF Offer, Go, stream
  <2> QED  BY <2>1
<1>6. ASSUME NEW d \in Actors, Taken(d), UNCHANGED watching  PROVE Goal
  <2>1. /\ \A c \in Actors : at'[c] = "told" => at[c] = "told" /\ job'[c] = job[c]
        /\ UNCHANGED <<offered, ended>>
    BY <1>6 DEF Taken, Go, stream
  <2> QED  BY <2>1
<1>7. ASSUME NEW d \in Actors, Recorded(d), UNCHANGED watching  PROVE Goal
  <2>1. /\ \A c \in Actors : at'[c] = "told" => at[c] = "told" /\ job'[c] = job[c]
        /\ UNCHANGED <<offered, ended>>
    BY <1>7 DEF Recorded, Go, OnJob, stream
  <2> QED  BY <2>1
<1>8. ASSUME NEW d \in Actors, Receipt(d), UNCHANGED watching  PROVE Goal
  <2>1. /\ at[d] = "receipt" /\ at' = [at EXCEPT ![d] = "next"]
        /\ job' = [job EXCEPT ![d] = None] /\ got' = [got EXCEPT ![d] = None]
        /\ offered' = [offered EXCEPT ![job[d]] = [topic |-> "submitted", handle |-> got[d]]]
        /\ UNCHANGED <<ended, verdict, queue>>
    BY <1>8 DEF Receipt, Done, Go, Answer, registry
  <2>2. PICK j \in Jobs, h \in Handles : j = job[d] /\ h = got[d] /\ h \in HandlesOf(j)
    BY <2>1 DEF ActorInv, Taking, Busy, HandlesOf
  <2>3. h \in Handles  OBVIOUS
  <2>4. Spent(h)'
    BY <2>1, <2>2, <2>3, PlaceholderOf, DispatchAssumption DEF Spent, HandInv, ActorInv, Taking
  <2>5. Exists(h)'  BY <2>1, <2>2 DEF Exists, ActorInv
  <2>6. Answered(j, offered[j])'  BY <2>1, <2>2, <2>3, <2>4, <2>5 DEF Answered
  <2>7. \A i \in Jobs : i # j => offered'[i] = offered[i]  BY <2>1, <2>2
  <2>8. offered'[j].topic # "held"  BY <2>1, <2>2
  <2>9. \A c \in Actors : at'[c] = "told" => at[c] = "told" /\ job'[c] = job[c]  BY <2>1
  <2> QED  BY <2>1, <2>6, <2>7, <2>8, <2>9
<1>9. ASSUME NEW d \in Actors, NEW from \in {"ask", "record"}, NEW why \in Refusals,
             BatchRefused(d, from, why), from = "record" => why # Quota,
             Gives, UNCHANGED watching
      PROVE  Goal
  <2>1. CASE why = Quota
    <3>1. at' = [at EXCEPT ![d] = "hold"] /\ UNCHANGED <<job, offered, ended>>
      BY <1>9, <2>1 DEF BatchRefused, Go, OnJob, stream
    <3> QED  BY <3>1
  <2>2. CASE why # Quota
    <3>1. /\ at[d] = from /\ at' = [at EXCEPT ![d] = "next"] /\ job' = [job EXCEPT ![d] = None]
          /\ offered' = [offered EXCEPT ![job[d]] = [topic |-> "refused", handle |-> NoHandle]]
          /\ UNCHANGED ended
      BY <1>9, <2>2 DEF BatchRefused, Done, Go, Answer
    <3>2. PICK j \in Jobs : j = job[d]  BY <3>1 DEF ActorInv, Busy
    <3>3. offered'[j] = [topic |-> "refused", handle |-> NoHandle]  BY <3>1, <3>2
    <3>4. Answered(j, offered[j])'  BY <3>3 DEF Answered
    <3>5. \A i \in Jobs : i # j => offered'[i] = offered[i]  BY <3>1, <3>2
    <3>6. \A c \in Actors : at'[c] = "told" => at[c] = "told" /\ job'[c] = job[c]  BY <3>1
    <3> QED  BY <3>1, <3>3, <3>4, <3>5, <3>6
  <2> QED  BY <2>1, <2>2
<1>10. ASSUME NEW d \in Actors, NEW from \in {"ask", "record"}, NEW why \in Refusals,
             PassRefused(d, from, why), Gives, UNCHANGED watching
      PROVE  Goal
  <2>1. /\ \A c \in Actors : at'[c] = "told" => at[c] = "told" /\ job'[c] = job[c]
        /\ UNCHANGED <<offered, ended>>
    BY <1>10 DEF PassRefused, Done, Go, stream
  <2> QED  BY <2>1
<1>r. ASSUME NEW d \in Actors, Raising(d), UNCHANGED watching  PROVE Goal
  <2>1. PICK from \in {"ask", "record"}, why \in Refusals :
               /\ Gives /\ (from = "record" => why # Quota)
               /\ BatchRefused(d, from, why) \/ PassRefused(d, from, why)
    BY <1>r, RaisingIs
  <2> HIDE DEF Goal
  <2> QED  BY <1>9, <1>10, <1>r, <2>1
<1>11. ASSUME NEW d \in Actors, BatchHolds(d), UNCHANGED watching  PROVE Goal
  <2>1. /\ at[d] = "hold" /\ at' = [at EXCEPT ![d] = "told"] /\ UNCHANGED <<job, offered, ended>>
        /\ verdict' = [verdict EXCEPT ![Placeholder(job[d])] = "held"]
    BY <1>11 DEF BatchHolds, Go, OnJob, Hold, Row, stream
  <2>2. job[d] \in Jobs  BY <2>1 DEF ActorInv, Busy
  <2>3. Exists(Placeholder(job[d]))'
    BY <2>1, <2>2, PlaceholderOf DEF Exists, RegistryTypeOK, NoRow
  <2>4. Kept(job[d])'  BY <2>3, <2>1 DEF Kept
  <2> QED  BY <2>1, <2>2, <2>4
<1>12. ASSUME NEW d \in Actors, BatchTold(d), UNCHANGED watching  PROVE Goal
  <2>1. /\ at[d] = "told" /\ at' = [at EXCEPT ![d] = "next"] /\ job' = [job EXCEPT ![d] = None]
        /\ offered' = [offered EXCEPT ![job[d]] = [topic |-> "held", handle |-> NoHandle]]
        /\ UNCHANGED ended
    BY <1>12 DEF BatchTold, Done, Go, Answer
  <2>2. PICK j \in Jobs : j = job[d]  BY <2>1 DEF ActorInv, Busy
  <2>3. offered'[j] = [topic |-> "held", handle |-> NoHandle]  BY <2>1, <2>2
  <2>4. Answered(j, offered[j])'  BY <2>3 DEF Answered
  <2>5. Kept(j)'  BY <2>1, <2>2
  <2>6. \A i \in Jobs : i # j => offered'[i] = offered[i]  BY <2>1, <2>2
  <2>7. \A c \in Actors : at'[c] = "told" => at[c] = "told" /\ job'[c] = job[c]  BY <2>1
  <2> QED  BY <2>1, <2>4, <2>5, <2>6, <2>7
<1>13. ASSUME NEW d \in Actors, PassFails(d), UNCHANGED watching  PROVE Goal
  <2>1. /\ \A c \in Actors : at'[c] = "told" => at[c] = "told" /\ job'[c] = job[c]
        /\ UNCHANGED <<offered, ended>>
    BY <1>13 DEF PassFails, Go, OnJob, stream
  <2> QED  BY <2>1
<1>14. ASSUME NEW d \in Actors, PassForgets(d), UNCHANGED watching  PROVE Goal
  <2>1. /\ \A c \in Actors : at'[c] = "told" => at[c] = "told" /\ job'[c] = job[c]
        /\ UNCHANGED <<offered, ended>>
    BY <1>14 DEF PassForgets, Go, OnJob, stream
  <2> QED  BY <2>1
<1>15. ASSUME NEW d \in Actors, NEW h \in Handles, PassSettles(d, h), UNCHANGED watching
      PROVE  Goal
  <2>1. /\ \A c \in Actors : at'[c] = "told" => at[c] = "told" /\ job'[c] = job[c]
        /\ UNCHANGED <<offered, ended>>
    BY <1>15 DEF PassSettles, dispatching, stream
  <2> QED  BY <2>1
<1>16. ASSUME NEW d \in Actors, Unheld(d), UNCHANGED watching  PROVE Goal
  <2>1. /\ \A c \in Actors : at'[c] = "told" => at[c] = "told" /\ job'[c] = job[c]
        /\ UNCHANGED <<offered, ended>>
    BY <1>16 DEF Unheld, Go, stream
  <2> QED  BY <2>1
<1>17. ASSUME NEW d \in Actors, Reports(d), UNCHANGED watching  PROVE Goal
  <2>1. /\ \A c \in Actors : at'[c] = "told" => at[c] = "told" /\ job'[c] = job[c]
        /\ UNCHANGED <<offered, ended>>
    BY <1>17 DEF Reports, Done, Go, stream
  <2> QED  BY <2>1
<1>18. ASSUME NEW d \in Actors, Dies(d), UNCHANGED watching  PROVE Goal
  <2>1. /\ \A c \in Actors : at'[c] = "told" => at[c] = "told" /\ job'[c] = job[c]
        /\ UNCHANGED <<offered, ended>>
    BY <1>18 DEF Dies, stream
  <2> QED  BY <2>1
<1>19. ASSUME NEW w \in Watches, Replay(w), UNCHANGED dispatching  PROVE Goal
  <2>1. UNCHANGED <<offered, ended, at, job>>
    BY <1>19 DEF Replay, stream, dispatching
  <2> QED  BY <2>1
<1>20. ASSUME NEW w \in Watches, ReadRows(w), UNCHANGED dispatching  PROVE Goal
  <2>1. UNCHANGED <<offered, ended, at, job>>
    BY <1>20 DEF ReadRows, stream, dispatching
  <2> QED  BY <2>1
<1>21. ASSUME NEW w \in Watches, RecordState(w), UNCHANGED dispatching  PROVE Goal
  <2>1. UNCHANGED <<offered, ended, at, job>>
    BY <1>21 DEF RecordState, stream, dispatching
  <2> QED  BY <2>1
<1>22. ASSUME NEW w \in Watches, Observe(w), UNCHANGED dispatching  PROVE Goal
  <2>1. UNCHANGED <<offered, ended, at, job>>
    BY <1>22 DEF Observe, stream, dispatching
  <2> QED  BY <2>1
<1>23. ASSUME NEW w \in Watches, Settle(w), UNCHANGED dispatching  PROVE Goal
  <2>1. /\ look[w] = "settle" /\ ended' = [ended EXCEPT ![row[w]] = rows[w][row[w]]]
        /\ UNCHANGED <<offered, at, job>>
    BY <1>23 DEF Settle, Look, dispatching
  <2>2. PICK j \in Jobs, line \in Lines : j = row[w] /\ line = rows[w][j]
    BY <2>1 DEF WatchInv, WatchTypeOK
  <2>3. IsOver(line) /\ Truthful(j, line)
    BY <2>1, <2>2 DEF WatchInv, ViewInv, Lands, Reading
  <2>4. Truthful(j, line)'  BY <2>3
  <2>5. ended'[j] = line /\ \A i \in Jobs : i # j => ended'[i] = ended[i]
    BY <2>1, <2>2
  <2> QED  BY <2>1, <2>3, <2>4, <2>5
<1>24. ASSUME NEW w \in Watches, Close(w), UNCHANGED dispatching  PROVE Goal
  <2>1. UNCHANGED <<offered, ended, at, job>>
    BY <1>24 DEF Close, stream, dispatching
  <2> QED  BY <2>1
<1>25. ASSUME NEW w \in Watches, WatchDies(w), UNCHANGED dispatching  PROVE Goal
  <2>1. UNCHANGED <<offered, ended, at, job>>
    BY <1>25 DEF WatchDies, stream, dispatching
  <2> QED  BY <2>1
<1>26. ASSUME NEW h \in Handles, JobEnds(h), UNCHANGED <<dispatching, watching>>
      PROVE  Goal
  <2>1. UNCHANGED <<offered, ended, at, job>>
    BY <1>26 DEF JobEnds, stream, dispatching
  <2> QED  BY <2>1
<1> HIDE DEF Goal
<1> QED
  BY <1>1, <1>2, <1>3, <1>4, <1>5, <1>6, <1>7, <1>8, <1>9, <1>10, <1>11,
     <1>r, <1>12, <1>13, <1>14, <1>15, <1>16, <1>17, <1>18, <1>19, <1>20, <1>21,
     <1>22, <1>23, <1>24, <1>25, <1>26
  DEF Next, Acts, Works, Raising, WatchActs

\* A row that tells how a run ended tells what the registry says of it.
LEMMA RowTells ==
    ASSUME RegistryTypeOK, NEW j \in Jobs,
           NEW said \in [topic : Answers, handle : Handles \cup {NoHandle}], Answered(j, said)
    PROVE  /\ RowOf(said).handle = said.handle
           /\ Truthful(j, RowOf(said))
<1>1. NoHandle \notin Handles  BY StreamAssumption DEF Handles
<1>2. RowOf(said).handle = said.handle
  <2>1. CASE said.topic = "none"
    <3>1. said.handle = NoHandle  BY <2>1 DEF Answered
    <3> QED  BY <2>1, <3>1 DEF RowOf, NoLine
  <2>2. CASE said.topic # "none"  BY <2>2 DEF RowOf
  <2> QED  BY <2>1, <2>2
<1>3. CASE said.handle = NoHandle  BY <1>2, <1>3 DEF Truthful
<1>4. CASE said.handle # NoHandle
  <2>1. /\ said.topic = "submitted" /\ said.handle \in HandlesOf(j)
        /\ Exists(said.handle) /\ Spent(said.handle)
    BY <1>4 DEF Answered
  <2>2. RowOf(said).verdict = IF verdict[said.handle] = Unresolved THEN "running"
                              ELSE verdict[said.handle]
    BY <2>1 DEF RowOf
  <2>3. "running" \notin Settled  BY DEF Settled, Moves, Words
  <2>4. RowOf(said).verdict \in Settled => RowOf(said).verdict = verdict[said.handle]
    BY <2>2, <2>3
  <2> QED  BY <1>2, <2>1, <2>4 DEF Truthful, IsOver
<1> QED  BY <1>2, <1>3, <1>4

\* Nobody but a watch touches what it replayed and read.
LEMMA WatchFrame ==
    ASSUME BatchInv, Next, UNCHANGED watching
    PROVE  ViewInv' /\ WatchInv'
<1>1. ViewInv /\ WatchInv /\ WatchTypeOK  BY DEF BatchInv, TypeOK
<1>2. UNCHANGED <<look, view, rows, left, row, landed>>  BY DEF watching
<1>3. WatchInv'  BY <1>1, <1>2 DEF WatchInv, Lands, IsOver
<1>4. /\ \A w \in Watches : \A j \in Jobs :
            /\ view[w].offered[j] \in [topic : Answers, handle : Handles \cup {NoHandle}]
            /\ rows[w][j] \in Lines
  BY <1>1 DEF WatchTypeOK, Views
<1>5. ViewInv'  BY <1>1, <1>2, <1>4, LinesLast DEF ViewInv
<1> QED  BY <1>3, <1>5

\* A watch replays lines that are true, and reads rows that are.
LEMMA ViewStep ==
    ASSUME BatchInv, WatchStep
    PROVE  ViewInv'
<1> DEFINE Goal == ViewInv'
<1> SUFFICES Goal  OBVIOUS
<1> DEFINE Needed ==
        /\ RegistryTypeOK /\ StreamTypeOK /\ WatchTypeOK /\ StreamInv /\ ViewInv
<1>0. Needed  BY DEF BatchInv, TypeOK
<1>t. \A w \in Watches : \A j \in Jobs :
          /\ view[w].offered[j] \in [topic : Answers, handle : Handles \cup {NoHandle}]
          /\ rows[w][j] \in Lines
  BY <1>0 DEF WatchTypeOK, Views
<1>k. /\ \A j \in Jobs : \A line \in Lines : Truthful(j, line) => Truthful(j, line)'
      /\ \A j \in Jobs : \A line \in [topic : Answers, handle : Handles \cup {NoHandle}] :
            Answered(j, line) => Answered(j, line)'
  BY LinesLast DEF Next, WatchStep
<1> USE <1>0, <1>t, <1>k DEF ViewInv, WatchTypeOK
<1>1. ASSUME NEW w \in Watches, Replay(w), UNCHANGED dispatching  PROVE Goal
  <2>1. /\ look' = [look EXCEPT ![w] = "read"] /\ view' = [view EXCEPT ![w] = Now]
        /\ UNCHANGED rows
    BY <1>1 DEF Replay
  <2>2. look'[w] \notin Reading  BY <2>1 DEF Reading
  <2>3. \A j \in Jobs : view'[w].offered[j] = offered[j]  BY <2>1 DEF Now
  <2>4. \A j \in Jobs : Answered(j, view[w].offered[j])'
    BY <2>3 DEF StreamInv, StreamTypeOK
  <2>5. \A v \in Watches : v # w => look'[v] = look[v] /\ view'[v] = view[v]
    BY <2>1
  <2> QED  BY <2>1, <2>2, <2>4, <2>5
<1>2. ASSUME NEW w \in Watches, ReadRows(w), UNCHANGED dispatching  PROVE Goal
  <2>1. /\ look' = [look EXCEPT ![w] = "record"] /\ UNCHANGED view
        /\ rows' = [rows EXCEPT ![w] = [j \in Jobs |-> RowOf(view[w].offered[j])]]
    BY <1>2 DEF ReadRows, Look
  <2>2. ASSUME NEW j \in Jobs
        PROVE  rows'[w][j].handle = view'[w].offered[j].handle /\ Truthful(j, rows[w][j])'
    <3> DEFINE S == [topic : Answers, handle : Handles \cup {NoHandle}]
    <3>a. PICK said \in S : said = view[w].offered[j]  OBVIOUS
    <3>b. RowOf(said) \in Lines
      <4>1. Answered(j, said)  BY <3>a
      <4>2. said.topic = "submitted" => said.handle \in Handles
        BY <4>1 DEF Answered, HandlesOf
      <4> QED  BY <4>2, LinesTyped
    <3>1. PICK line \in Lines : said = view[w].offered[j] /\ line = RowOf(said)
      BY <3>a, <3>b
    <3>2. Answered(j, said)  BY <3>1
    <3>3. line.handle = said.handle /\ Truthful(j, line)  BY <3>1, <3>2, RowTells
    <3>4. Truthful(j, line)'  BY <3>3
    <3>5. rows'[w][j] = line /\ view'[w].offered[j] = said  BY <2>1, <3>1
    <3> QED  BY <3>3, <3>4, <3>5
  <2>3. \A v \in Watches : v # w => look'[v] = look[v] /\ rows'[v] = rows[v]
    BY <2>1
  <2> QED  BY <2>1, <2>2, <2>3
<1>3. ASSUME NEW w \in Watches, RecordState(w), UNCHANGED dispatching  PROVE Goal
  <2>1. /\ UNCHANGED <<view, rows>>
        /\ \A v \in Watches : look'[v] \in Reading => look[v] \in Reading
    BY <1>3 DEF RecordState, Look, Reading
  <2> QED  BY <2>1
<1>4. ASSUME NEW w \in Watches, Observe(w), UNCHANGED dispatching  PROVE Goal
  <2>1. /\ UNCHANGED <<view, rows>>
        /\ \A v \in Watches : look'[v] \in Reading => look[v] \in Reading
    BY <1>4 DEF Observe, Look, Reading
  <2> QED  BY <2>1
<1>5. ASSUME NEW w \in Watches, Settle(w), UNCHANGED dispatching  PROVE Goal
  <2>1. /\ UNCHANGED <<view, rows>>
        /\ \A v \in Watches : look'[v] \in Reading => look[v] \in Reading
    BY <1>5 DEF Settle, Look, Reading
  <2> QED  BY <2>1
<1>6. ASSUME NEW w \in Watches, Close(w), UNCHANGED dispatching  PROVE Goal
  <2>1. /\ look' = [look EXCEPT ![w] = IF AllOver(w) THEN "done" ELSE "idle"]
        /\ view' = [view EXCEPT ![w] = Blank]
        /\ rows' = [rows EXCEPT ![w] = [j \in Jobs |-> NoLine]]
    BY <1>6 DEF Close
  <2>2. look'[w] \notin Reading  BY <2>1 DEF Reading
  <2>3. \A j \in Jobs : Answered(j, view[w].offered[j])'
    <3>1. ASSUME NEW j \in Jobs
          PROVE  view'[w].offered[j] = [topic |-> "none", handle |-> NoHandle]
      BY <2>1 DEF Blank
    <3> QED  BY <3>1 DEF Answered
  <2>4. \A v \in Watches : v # w =>
            look'[v] = look[v] /\ view'[v] = view[v] /\ rows'[v] = rows[v]
    BY <2>1
  <2>5. ASSUME NEW v \in Watches, NEW j \in Jobs, v # w
        PROVE  /\ Answered(j, view[v].offered[j])'
               /\ look'[v] \in Reading =>
                     /\ rows'[v][j].handle = view'[v].offered[j].handle
                     /\ Truthful(j, rows[v][j])'
    BY <2>4, <2>5
  <2> QED  BY <2>2, <2>3, <2>5
<1>7. ASSUME NEW w \in Watches, WatchDies(w), UNCHANGED dispatching  PROVE Goal
  <2>1. /\ look' = [look EXCEPT ![w] = "off"] /\ view' = [view EXCEPT ![w] = Blank]
        /\ rows' = [rows EXCEPT ![w] = [j \in Jobs |-> NoLine]]
    BY <1>7 DEF WatchDies
  <2>2. look'[w] \notin Reading  BY <2>1 DEF Reading
  <2>3. \A j \in Jobs : Answered(j, view[w].offered[j])'
    <3>1. ASSUME NEW j \in Jobs
          PROVE  view'[w].offered[j] = [topic |-> "none", handle |-> NoHandle]
      BY <2>1 DEF Blank
    <3> QED  BY <3>1 DEF Answered
  <2>4. \A v \in Watches : v # w =>
            look'[v] = look[v] /\ view'[v] = view[v] /\ rows'[v] = rows[v]
    BY <2>1
  <2>5. ASSUME NEW v \in Watches, NEW j \in Jobs, v # w
        PROVE  /\ Answered(j, view[v].offered[j])'
               /\ look'[v] \in Reading =>
                     /\ rows'[v][j].handle = view'[v].offered[j].handle
                     /\ Truthful(j, rows[v][j])'
    BY <2>4, <2>5
  <2> QED  BY <2>2, <2>3, <2>5
<1> HIDE DEF Goal
<1> QED
  BY <1>1, <1>2, <1>3, <1>4, <1>5, <1>6, <1>7
  DEF WatchStep, WatchActs

\* A watch costs and settles the row it found over.
LEMMA WatchKeeps ==
    ASSUME BatchInv, WatchStep
    PROVE  WatchInv'
<1> DEFINE Goal == WatchInv'
<1> SUFFICES Goal  OBVIOUS
<1>0. WatchTypeOK /\ WatchInv  BY DEF BatchInv, TypeOK
<1> USE <1>0, WatchAssumption DEF WatchInv, WatchTypeOK, Lands
<1>1. ASSUME NEW w \in Watches, Replay(w), UNCHANGED dispatching  PROVE Goal
  BY <1>1 DEF Replay
<1>2. ASSUME NEW w \in Watches, ReadRows(w), UNCHANGED dispatching  PROVE Goal
  BY <1>2 DEF ReadRows, Look
<1>3. ASSUME NEW w \in Watches, RecordState(w), UNCHANGED dispatching  PROVE Goal
  <2>1. PICK j \in left[w] :
               /\ IF Lands(w, j)
                  THEN /\ look' = [look EXCEPT ![w] = "cost"]
                       /\ row' = [row EXCEPT ![w] = j]
                       /\ UNCHANGED left
                  ELSE /\ left' = [left EXCEPT ![w] = @ \ {j}]
                       /\ UNCHANGED <<look, row>>
               /\ look[w] = "record" /\ row[w] = NoJob
               /\ UNCHANGED <<view, rows, landed>>
    BY <1>3 DEF RecordState
  <2>2. UNCHANGED <<registry, queue, offered, ended, costs, ends, announced>>
    BY <1>3 DEF RecordState
  <2>3. CASE Lands(w, j)
    <3>1. look' = [look EXCEPT ![w] = "cost"] /\ row' = [row EXCEPT ![w] = j] /\ UNCHANGED left
      BY <2>1, <2>3
    <3> QED  BY <1>3, <2>1, <2>2, <2>3, <3>1
  <2>4. CASE ~Lands(w, j)
    <3>1. left' = [left EXCEPT ![w] = @ \ {j}] /\ UNCHANGED <<look, row>>
      BY <2>1, <2>4
    <3> QED  BY <1>3, <2>1, <2>2, <2>4, <3>1
  <2> QED  BY <2>3, <2>4
<1>4. ASSUME NEW w \in Watches, Observe(w), UNCHANGED dispatching  PROVE Goal
  BY <1>4 DEF Observe, Look, Counted
<1>5. ASSUME NEW w \in Watches, Settle(w), UNCHANGED dispatching  PROVE Goal
  BY <1>5 DEF Settle, Look, Counted
<1>6. ASSUME NEW w \in Watches, Close(w), UNCHANGED dispatching  PROVE Goal
  <2>1. /\ look[w] = "record" /\ UNCHANGED <<left, row>>
        /\ look' = [look EXCEPT ![w] = IF AllOver(w) THEN "done" ELSE "idle"]
        /\ view' = [view EXCEPT ![w] = Blank]
        /\ rows' = [rows EXCEPT ![w] = [j \in Jobs |-> NoLine]]
    BY <1>6 DEF Close
  <2>2. look'[w] \notin {"cost", "settle"} /\ row'[w] = NoJob  BY <2>1
  <2>3. \A v \in Watches : v # w =>
            /\ look'[v] = look[v] /\ row'[v] = row[v] /\ left'[v] = left[v]
            /\ view'[v] = view[v] /\ rows'[v] = rows[v]
    BY <2>1
  <2> QED  BY <2>2, <2>3
<1>7. ASSUME NEW w \in Watches, WatchDies(w), UNCHANGED dispatching  PROVE Goal
  BY <1>7 DEF WatchDies
<1> HIDE DEF Goal
<1> QED
  BY <1>1, <1>2, <1>3, <1>4, <1>5, <1>6, <1>7
  DEF WatchStep, WatchActs

(***************************************************************************)
(* What one step does to a job's budget.                                   *)
(***************************************************************************)
\* Part of a finite set.
LEMMA Shrinks ==
    ASSUME NEW S, NEW T, IsFiniteSet(S), T \subseteq S
    PROVE  IsFiniteSet(T) /\ Cardinality(T) \in Nat /\ Cardinality(S) \in Nat
           /\ Cardinality(T) <= Cardinality(S)
BY FS_Subset, FS_CardinalityType

\* A set that gains at most one element.
LEMMA GrowsByOne ==
    ASSUME NEW S, NEW T, NEW x, IsFiniteSet(S), T \subseteq S \cup {x}
    PROVE  IsFiniteSet(T) /\ Cardinality(T) \in Nat /\ Cardinality(S) \in Nat
           /\ Cardinality(T) <= Cardinality(S) + 1
<1>1. IsFiniteSet(S \cup {x}) /\ Cardinality(S) \in Nat
      /\ (Cardinality(S \cup {x}) = Cardinality(S) \/ Cardinality(S \cup {x}) = Cardinality(S) + 1)
  BY FS_AddElement, FS_CardinalityType
<1>2. IsFiniteSet(T) /\ Cardinality(T) \in Nat /\ Cardinality(T) <= Cardinality(S \cup {x})
  BY <1>1, Shrinks
<1> QED  BY <1>1, <1>2

\* A set that loses an element.
LEMMA LosesOne ==
    ASSUME NEW S, NEW T, NEW x \in S, IsFiniteSet(S), T \subseteq S \ {x}
    PROVE  IsFiniteSet(T) /\ Cardinality(T) \in Nat /\ Cardinality(S) \in Nat
           /\ Cardinality(T) + 1 <= Cardinality(S)
<1>1. IsFiniteSet(S \ {x}) /\ Cardinality(S) \in Nat /\ Cardinality(S \ {x}) = Cardinality(S) - 1
  BY FS_RemoveElement, FS_CardinalityType
<1>2. IsFiniteSet(T) /\ Cardinality(T) \in Nat /\ Cardinality(T) <= Cardinality(S \ {x})
  BY <1>1, Shrinks
<1> QED  BY <1>1, <1>2

\* A step that gives a job nothing: nobody new asks for it or holds it.
Wants(d, j) == j \in todo[d] \/ (job[d] = j /\ at[d] \in {"ask", "hold"})
Resumes(d, j) == job[d] = j /\ at[d] \in {"record", "forget", "refuse"}
Calm ==
    /\ \A h \in Handles : queue'[h] # "free" => queue[h] # "free"
    /\ \A j \in Jobs : \A d \in Runners : Wants(d, j)' => Wants(d, j)
    /\ \A j \in Jobs : verdict'[Placeholder(j)] = "held" =>
          /\ verdict[Placeholder(j)] = "held"
          /\ \A d \in Passes : Resumes(d, j) => Resumes(d, j)'
    /\ UNCHANGED <<begun, deaths>>

Flow(j) ==
    \/ /\ TakenFor(j)' \subseteq TakenFor(j) /\ Asking(j)' \subseteq Asking(j)
       /\ Token(j)' <= Token(j) /\ UNCHANGED <<begun, deaths>>
    \/ \E d \in Runners :
          /\ TakenFor(j)' \subseteq TakenFor(j) /\ Asking(j)' \subseteq Asking(j) \cup {d}
          /\ Token(j)' <= Token(j) /\ begun' = begun + 1 /\ UNCHANGED deaths
    \/ \E d \in Asking(j), h \in Handles :
          /\ TakenFor(j)' \subseteq TakenFor(j) \cup {h} /\ Asking(j)' \subseteq Asking(j) \ {d}
          /\ Token(j)' <= Token(j) /\ UNCHANGED <<begun, deaths>>
    \/ \E h \in Handles :
          /\ TakenFor(j)' \subseteq TakenFor(j) \cup {h} /\ Asking(j)' \subseteq Asking(j)
          /\ Token(j) = 1 /\ Token(j)' = 0 /\ UNCHANGED <<begun, deaths>>
    \/ \E d \in Asking(j) :
          /\ TakenFor(j)' \subseteq TakenFor(j) /\ Asking(j)' \subseteq Asking(j) \ {d}
          /\ UNCHANGED <<begun, deaths>>
    \/ /\ TakenFor(j)' \subseteq TakenFor(j) /\ Asking(j)' \subseteq Asking(j)
       /\ deaths' = deaths + 1 /\ UNCHANGED begun

\* The placeholder of a job counts for one or for nothing.
LEMMA TokenIs ==
    ASSUME NEW j \in Jobs
    PROVE  /\ Token(j) \in {0, 1} /\ Token(j)' \in {0, 1}
           /\ Token(j) = 1 <=>
                verdict[Placeholder(j)] = "held" /\ \A d \in Passes : ~Resumes(d, j)
           /\ Token(j)' = 1 <=>
                verdict'[Placeholder(j)] = "held" /\ \A d \in Passes : ~Resumes(d, j)'
BY DEF Token, Resuming, Resumes

\* The runs of a batch that may still offer a job.
LEMMA AskingIs ==
    ASSUME NEW j \in Jobs
    PROVE  /\ Asking(j) = {d \in Runners : Wants(d, j)}
           /\ Asking(j)' = {d \in Runners : Wants(d, j)'}
BY DEF Asking, Wants

\* Such a step leaves the budget as it was, or larger.
LEMMA CalmFlows ==
    ASSUME Calm, NEW j \in Jobs
    PROVE  Flow(j)
<1>1. TakenFor(j)' \subseteq TakenFor(j)  BY DEF Calm, TakenFor, HandlesOf
<1>2. Asking(j)' \subseteq Asking(j)  BY AskingIs DEF Calm
<1>3. Token(j)' <= Token(j)
  <2>1. Token(j)' = 1 => Token(j) = 1  BY TokenIs DEF Calm
  <2> QED  BY <2>1, TokenIs
<1> QED  BY <1>1, <1>2, <1>3 DEF Flow, Calm

\* The numbers: no step spends more of a job's budget than it adds to it.
LEMMA FlowBalances ==
    ASSUME BatchInv, NEW j \in Jobs, Flow(j), begun' \in Nat, deaths' \in Nat
    PROVE  /\ IsFiniteSet(TakenFor(j)') /\ IsFiniteSet(Asking(j)')
           /\ Cardinality(TakenFor(j)') + Cardinality(Asking(j)') + Token(j)' <= begun' + deaths'
<1> DEFINE T == TakenFor(j)
           A == Asking(j)
           K == Token(j)
<1>1. /\ IsFiniteSet(T) /\ IsFiniteSet(A)
      /\ Cardinality(T) + Cardinality(A) + K <= begun + deaths
      /\ begun \in Nat /\ deaths \in Nat
  BY DispatchAssumption DEF BatchInv, BudgetInv, TypeOK, DispatchTypeOK
<1>2. K \in {0, 1} /\ K' \in {0, 1}  BY TokenIs
<1> DEFINE Even == /\ IsFiniteSet(T') /\ IsFiniteSet(A')
                   /\ Cardinality(T') + Cardinality(A') + K' <= begun' + deaths'
<1> HIDE DEF T, A, K
<1>3. ASSUME T' \subseteq T, A' \subseteq A, K' <= K, UNCHANGED <<begun, deaths>>
      PROVE  Even
  <2>1. /\ IsFiniteSet(T') /\ Cardinality(T') \in Nat /\ Cardinality(T) \in Nat
        /\ Cardinality(T') <= Cardinality(T)
    BY <1>1, <1>3, Shrinks
  <2>2. /\ IsFiniteSet(A') /\ Cardinality(A') \in Nat /\ Cardinality(A) \in Nat
        /\ Cardinality(A') <= Cardinality(A)
    BY <1>1, <1>3, Shrinks
  <2> QED  BY <1>1, <1>2, <1>3, <2>1, <2>2
<1>4. ASSUME NEW d \in Runners,
             T' \subseteq T, A' \subseteq A \cup {d}, K' <= K, begun' = begun + 1, UNCHANGED deaths
      PROVE  Even
  <2>1. /\ IsFiniteSet(T') /\ Cardinality(T') \in Nat /\ Cardinality(T) \in Nat
        /\ Cardinality(T') <= Cardinality(T)
    BY <1>1, <1>4, Shrinks
  <2>2. /\ IsFiniteSet(A') /\ Cardinality(A') \in Nat /\ Cardinality(A) \in Nat
        /\ Cardinality(A') <= Cardinality(A) + 1
    BY <1>1, <1>4, GrowsByOne
  <2> QED  BY <1>1, <1>2, <1>4, <2>1, <2>2
<1>5. ASSUME NEW d \in A, NEW h \in Handles,
             T' \subseteq T \cup {h}, A' \subseteq A \ {d}, K' <= K, UNCHANGED <<begun, deaths>>
      PROVE  Even
  <2>1. /\ IsFiniteSet(T') /\ Cardinality(T') \in Nat /\ Cardinality(T) \in Nat
        /\ Cardinality(T') <= Cardinality(T) + 1
    BY <1>1, <1>5, GrowsByOne
  <2>2. /\ IsFiniteSet(A') /\ Cardinality(A') \in Nat /\ Cardinality(A) \in Nat
        /\ Cardinality(A') + 1 <= Cardinality(A)
    BY <1>1, <1>5, LosesOne
  <2> QED  BY <1>1, <1>2, <1>5, <2>1, <2>2
<1>6. ASSUME NEW h \in Handles,
             T' \subseteq T \cup {h}, A' \subseteq A, K = 1, K' = 0, UNCHANGED <<begun, deaths>>
      PROVE  Even
  <2>1. /\ IsFiniteSet(T') /\ Cardinality(T') \in Nat /\ Cardinality(T) \in Nat
        /\ Cardinality(T') <= Cardinality(T) + 1
    BY <1>1, <1>6, GrowsByOne
  <2>2. /\ IsFiniteSet(A') /\ Cardinality(A') \in Nat /\ Cardinality(A) \in Nat
        /\ Cardinality(A') <= Cardinality(A)
    BY <1>1, <1>6, Shrinks
  <2> QED  BY <1>1, <1>2, <1>6, <2>1, <2>2
<1>7. ASSUME NEW d \in A,
             T' \subseteq T, A' \subseteq A \ {d}, UNCHANGED <<begun, deaths>>
      PROVE  Even
  <2>1. /\ IsFiniteSet(T') /\ Cardinality(T') \in Nat /\ Cardinality(T) \in Nat
        /\ Cardinality(T') <= Cardinality(T)
    BY <1>1, <1>7, Shrinks
  <2>2. /\ IsFiniteSet(A') /\ Cardinality(A') \in Nat /\ Cardinality(A) \in Nat
        /\ Cardinality(A') + 1 <= Cardinality(A)
    BY <1>1, <1>7, LosesOne
  <2> QED  BY <1>1, <1>2, <1>7, <2>1, <2>2
<1>8. ASSUME T' \subseteq T, A' \subseteq A, deaths' = deaths + 1, UNCHANGED begun
      PROVE  Even
  <2>1. /\ IsFiniteSet(T') /\ Cardinality(T') \in Nat /\ Cardinality(T) \in Nat
        /\ Cardinality(T') <= Cardinality(T)
    BY <1>1, <1>8, Shrinks
  <2>2. /\ IsFiniteSet(A') /\ Cardinality(A') \in Nat /\ Cardinality(A) \in Nat
        /\ Cardinality(A') <= Cardinality(A)
    BY <1>1, <1>8, Shrinks
  <2> QED  BY <1>1, <1>2, <1>8, <2>1, <2>2
<1> QED  BY <1>3, <1>4, <1>5, <1>6, <1>7, <1>8 DEF Flow, T, A, K

\* What each step does to the budget of each job.
LEMMA BudgetFlow ==
    ASSUME BatchInv, Next
    PROVE  \A j \in Jobs : Flow(j)
<1> DEFINE Goal == \A j \in Jobs : Flow(j)
<1> SUFFICES Goal  OBVIOUS
<1> DEFINE Needed ==
        /\ RegistryTypeOK /\ StreamTypeOK /\ DispatchTypeOK /\ ActorInv /\ HeldInv
<1>0. Needed  BY DEF BatchInv, TypeOK, DispatchInv
<1> USE <1>0, PlaceholderOf, DispatchAssumption
        DEF RegistryTypeOK, StreamTypeOK, DispatchTypeOK, ActorInv, Busy, Taking, Actors
<1>1. ASSUME NEW d \in Actors, RunBatch(d), UNCHANGED watching  PROVE Goal
  <2>1. ASSUME NEW j \in Jobs  PROVE Flow(j)
    <3>1. /\ begun' = begun + 1 /\ d \in Runners
          /\ UNCHANGED <<deaths, job, queue, verdict>>
          /\ at[d] = "idle" /\ at' = [at EXCEPT ![d] = "next"]
      BY <1>1 DEF RunBatch, registry
    <3>2. PICK chosen \in SUBSET Jobs : todo' = [todo EXCEPT ![d] = chosen]
      BY <1>1 DEF RunBatch
    <3>3. TakenFor(j)' \subseteq TakenFor(j)  BY <3>1 DEF TakenFor, HandlesOf
    <3>4. Asking(j)' \subseteq Asking(j) \cup {d}  BY <3>1, <3>2, AskingIs DEF Wants
    <3>5. Token(j)' = 1 => Token(j) = 1  BY <3>1, TokenIs DEF Resumes
    <3>6. Token(j)' <= Token(j)  BY <3>5, TokenIs
    <3> QED  BY <3>1, <3>3, <3>4, <3>6 DEF Flow
  <2> QED  BY <2>1
<1>2. ASSUME NEW d \in Actors, RunEnds(d), UNCHANGED watching  PROVE Goal
  <2>1. Calm  BY <1>2 DEF RunEnds, Go, OnJob, Calm, Wants, Resumes,
                            registry, dispatching
  <2> QED  BY <2>1, CalmFlows
<1>3. ASSUME NEW d \in Actors, PassClaims(d), UNCHANGED watching  PROVE Goal
  <2>1. Calm  BY <1>3 DEF PassClaims, Go, Calm, Wants, Resumes,
                            registry, dispatching
  <2> QED  BY <2>1, CalmFlows
<1>4. ASSUME NEW d \in Actors, PassEnds(d), UNCHANGED watching  PROVE Goal
  <2>1. Calm  BY <1>4 DEF PassEnds, Go, Calm, Wants, Resumes,
                            registry, dispatching
  <2> QED  BY <2>1, CalmFlows
<1>5. ASSUME NEW d \in Actors, Offer(d), UNCHANGED watching  PROVE Goal
  <2>1. Calm  BY <1>5 DEF Offer, Go, Calm, Wants, Resumes,
                            registry, dispatching
  <2> QED  BY <2>1, CalmFlows
<1>6. ASSUME NEW d \in Actors, Taken(d), UNCHANGED watching  PROVE Goal
  <2>1. PICK h \in HandlesOf(job[d]) :
               /\ queue[h] = "free" /\ queue' = [queue EXCEPT ![h] = "live"]
               /\ at[d] = "ask" /\ at' = [at EXCEPT ![d] = "record"]
               /\ UNCHANGED <<begun, deaths, todo, job, verdict>>
    BY <1>6 DEF Taken, Go, registry
  <2>2. h \in Handles /\ Request[h] = job[d] /\ job[d] \in Jobs  BY <2>1 DEF HandlesOf
  <2>3. ASSUME NEW j \in Jobs  PROVE Flow(j)
    <3>1. /\ TakenFor(j)' \subseteq TakenFor(j) \cup {h}
          /\ job[d] # j => TakenFor(j)' \subseteq TakenFor(j)
      BY <2>1, <2>2 DEF TakenFor, HandlesOf
    <3>2. Asking(j)' \subseteq Asking(j)  BY <2>1, AskingIs DEF Wants
    <3>3. Token(j)' = 1 => Token(j) = 1  BY <2>1, TokenIs DEF Resumes
    <3>4. Token(j)' <= Token(j)  BY <3>3, TokenIs
    <3>5. CASE job[d] # j  BY <2>1, <3>1, <3>2, <3>4, <3>5 DEF Flow
    <3>6. CASE job[d] = j /\ d \in Runners
      <4>1. d \in Asking(j) /\ Asking(j)' \subseteq Asking(j) \ {d}
        BY <2>1, <3>6, AskingIs DEF Wants
      <4> QED  BY <2>1, <2>2, <3>1, <3>4, <4>1 DEF Flow
    <3>7. CASE job[d] = j /\ d \in Passes
      <4>1. verdict[Placeholder(j)] = "held"  BY <2>1, <3>7 DEF HeldInv
      <4>2. \A c \in Passes : ~Resumes(c, j)  BY <2>1, <3>7 DEF Resumes
      <4>3. Resumes(d, j)'  BY <2>1, <3>7 DEF Resumes
      <4>4. Token(j) = 1 /\ Token(j)' = 0  BY <4>1, <4>2, <4>3, <3>7, TokenIs
      <4> QED  BY <2>1, <2>2, <3>1, <3>2, <4>4 DEF Flow
    <3>8. d \notin Stoppers  BY <2>1
    <3> QED  BY <3>5, <3>6, <3>7, <3>8
  <2> QED  BY <2>3
<1>7. ASSUME NEW d \in Actors, Recorded(d), UNCHANGED watching  PROVE Goal
  <2>1. Calm  BY <1>7 DEF Recorded, Go, OnJob, Record, Row, Calm, Wants, Resumes,
                            registry, dispatching
  <2> QED  BY <2>1, CalmFlows
<1>8. ASSUME NEW d \in Actors, Receipt(d), UNCHANGED watching  PROVE Goal
  <2>1. Calm  BY <1>8 DEF Receipt, Done, Go, Calm, Wants, Resumes,
                            registry, dispatching
  <2> QED  BY <2>1, CalmFlows
<1>9. ASSUME NEW d \in Actors, NEW why \in Refusals, BatchRefused(d, "ask", why),
             UNCHANGED <<queue, watching>>
      PROVE  Goal
  <2>1. CASE why = Quota
    <3>1. Go(d, "ask", "hold") /\ OnJob  BY <1>9, <2>1 DEF BatchRefused
    <3>2. Calm  BY <1>9, <3>1 DEF BatchRefused, Go, OnJob, Calm, Wants, Resumes, registry
    <3> QED  BY <3>2, CalmFlows
  <2>2. CASE why # Quota
    <3>1. Done(d, "ask")  BY <1>9, <2>2 DEF BatchRefused
    <3>2. Calm  BY <1>9, <3>1 DEF BatchRefused, Done, Go, Calm, Wants, Resumes, registry
    <3> QED  BY <3>2, CalmFlows
  <2> QED  BY <2>1, <2>2
<1>10. ASSUME NEW d \in Actors, NEW why \in Refusals, PassRefused(d, "ask", why),
             UNCHANGED <<queue, watching>>
      PROVE  Goal
  <2>1. CASE why = Quota
    <3>1. Done(d, "ask") /\ UNCHANGED verdict  BY <1>10, <2>1 DEF PassRefused, registry
    <3>2. Calm  BY <1>10, <3>1 DEF PassRefused, Done, Go, Calm, Wants, Resumes
    <3> QED  BY <3>2, CalmFlows
  <2>2. CASE why # Quota
    <3>1. Go(d, "ask", "refuse") /\ UNCHANGED <<todo, job, verdict>>
      BY <1>10, <2>2 DEF PassRefused, registry
    <3>2. Calm  BY <1>10, <3>1 DEF PassRefused, Go, Calm, Wants, Resumes
    <3> QED  BY <3>2, CalmFlows
  <2> QED  BY <2>1, <2>2
<1>u. ASSUME NEW d \in Actors, TakenUnheard(d), UNCHANGED watching  PROVE Goal
  <2>1. PICK h \in HandlesOf(job[d]) :
               /\ queue[h] = "free" /\ queue' = [queue EXCEPT ![h] = "live"]
               /\ Raises(d, "ask", Outage)
    BY <1>u DEF TakenUnheard
  <2>2. /\ at[d] = "ask" /\ UNCHANGED <<begun, deaths, verdict, todo>>
        /\ \/ d \in Runners /\ at' = [at EXCEPT ![d] = "next"] /\ job' = [job EXCEPT ![d] = None]
           \/ d \in Passes /\ at' = [at EXCEPT ![d] = "refuse"] /\ UNCHANGED job
    BY <2>1, OutageDoes DEF Done, Go
  <2>3. h \in Handles /\ Request[h] = job[d] /\ job[d] \in Jobs  BY <2>1, <2>2 DEF HandlesOf
  <2>4. ASSUME NEW j \in Jobs  PROVE Flow(j)
    <3>1. /\ TakenFor(j)' \subseteq TakenFor(j) \cup {h}
          /\ job[d] # j => TakenFor(j)' \subseteq TakenFor(j)
      BY <2>1, <2>3 DEF TakenFor, HandlesOf
    <3>2. Asking(j)' \subseteq Asking(j)  BY <2>2, AskingIs DEF Wants
    <3>3. Token(j)' = 1 => Token(j) = 1  BY <2>2, TokenIs DEF Resumes
    <3>4. Token(j)' <= Token(j)  BY <3>3, TokenIs
    <3>5. CASE job[d] # j  BY <2>2, <3>1, <3>2, <3>4, <3>5 DEF Flow
    <3>6. CASE job[d] = j /\ d \in Runners
      <4>1. d \in Asking(j) /\ Asking(j)' \subseteq Asking(j) \ {d}
        BY <2>2, <3>6, AskingIs DEF Wants
      <4> QED  BY <2>2, <2>3, <3>1, <3>4, <4>1 DEF Flow
    <3>7. CASE job[d] = j /\ d \in Passes
      <4>1. verdict[Placeholder(j)] = "held"  BY <2>2, <3>7 DEF HeldInv
      <4>2. \A c \in Passes : ~Resumes(c, j)  BY <2>2, <3>7 DEF Resumes
      <4>3. Resumes(d, j)'  BY <2>2, <3>7 DEF Resumes
      <4>4. Token(j) = 1 /\ Token(j)' = 0  BY <4>1, <4>2, <4>3, <3>7, TokenIs
      <4> QED  BY <2>2, <2>3, <3>1, <3>2, <4>4 DEF Flow
    <3> QED  BY <2>2, <3>5, <3>6, <3>7
  <2> QED  BY <2>4
<1>f. ASSUME NEW d \in Actors, RecordFails(d), UNCHANGED watching  PROVE Goal
  <2>1. /\ at[d] = "record" /\ UNCHANGED <<begun, deaths, verdict, todo, queue>>
        /\ \/ d \in Runners /\ at' = [at EXCEPT ![d] = "next"] /\ job' = [job EXCEPT ![d] = None]
           \/ d \in Passes /\ at' = [at EXCEPT ![d] = "refuse"] /\ UNCHANGED job
    BY <1>f, OutageDoes DEF RecordFails, Done, Go
  <2>2. Calm  BY <2>1 DEF Calm, Wants, Resumes
  <2> QED  BY <2>2, CalmFlows
<1>11. ASSUME NEW d \in Actors, BatchHolds(d), UNCHANGED watching  PROVE Goal
  <2>1. ASSUME NEW j \in Jobs  PROVE Flow(j)
    <3>1. /\ d \in Runners /\ at[d] = "hold" /\ at' = [at EXCEPT ![d] = "told"]
          /\ UNCHANGED <<begun, deaths, todo, job, queue>>
          /\ verdict' = [verdict EXCEPT ![Placeholder(job[d])] = "held"]
      BY <1>11 DEF BatchHolds, Go, OnJob, Hold, Row
    <3>2. TakenFor(j)' \subseteq TakenFor(j)  BY <3>1 DEF TakenFor, HandlesOf
    <3>3. CASE job[d] = j
      <4>1. d \in Asking(j) /\ Asking(j)' \subseteq Asking(j) \ {d}
        BY <3>1, <3>3, AskingIs DEF Wants
      <4> QED  BY <3>1, <3>2, <4>1 DEF Flow
    <3>4. CASE job[d] # j
      <4>1. job[d] \in Jobs  BY <3>1
      <4>2. verdict'[Placeholder(j)] = verdict[Placeholder(j)]  BY <3>1, <3>4, <4>1
      <4>3. Asking(j)' \subseteq Asking(j)  BY <3>1, AskingIs DEF Wants
      <4>4. Token(j)' = 1 => Token(j) = 1  BY <3>1, <4>2, TokenIs DEF Resumes
      <4>5. Token(j)' <= Token(j)  BY <4>4, TokenIs
      <4> QED  BY <3>1, <3>2, <4>3, <4>5 DEF Flow
    <3> QED  BY <3>3, <3>4
  <2> QED  BY <2>1
<1>12. ASSUME NEW d \in Actors, BatchTold(d), UNCHANGED watching  PROVE Goal
  <2>1. Calm  BY <1>12 DEF BatchTold, Done, Go, Calm, Wants, Resumes,
                            registry, dispatching
  <2> QED  BY <2>1, CalmFlows
<1>13. ASSUME NEW d \in Actors, PassFails(d), UNCHANGED watching  PROVE Goal
  <2>1. ResolveEffect(Placeholder(job[d]), "failed")
    BY <1>13, ResolveDoes DEF PassFails
  <2>2. job[d] \in Jobs  BY <1>13 DEF PassFails, Go
  <2>3. verdict'[Placeholder(job[d])] # "held"
    <3>1. Reaches("held", "failed")  BY DEF Reaches, Moves, Words
    <3> QED  BY <2>1, <2>2, <3>1 DEF ResolveEffect
  <2>4. \A j \in Jobs : verdict'[Placeholder(j)] = "held" =>
            verdict[Placeholder(j)] = "held" /\ j # job[d]
    BY <2>1, <2>3 DEF ResolveEffect
  <2>5. Calm  BY <1>13, <2>4 DEF PassFails, Go, OnJob, Calm, Wants, Resumes
  <2> QED  BY <2>5, CalmFlows
<1>14. ASSUME NEW d \in Actors, PassForgets(d), UNCHANGED watching  PROVE Goal
  <2>1. /\ at[d] = "forget" /\ at' = [at EXCEPT ![d] = "receipt"]
        /\ UNCHANGED <<begun, deaths, todo, job, queue>>
        /\ verdict' = [verdict EXCEPT ![Placeholder(job[d])] = NoRow]
    BY <1>14 DEF PassForgets, Go, OnJob, Forget, Row
  <2>2. ASSUME NEW j \in Jobs, verdict'[Placeholder(j)] = "held"
        PROVE  verdict[Placeholder(j)] = "held" /\ job[d] # j
    <3>1. Placeholder(j) \in Runs /\ verdict'[Placeholder(j)] # NoRow  BY <2>2 DEF NoRow
    <3> QED  BY <2>1, <2>2, <3>1
  <2>3. Calm  BY <2>1, <2>2 DEF Calm, Wants, Resumes
  <2> QED  BY <2>3, CalmFlows
<1>15. ASSUME NEW d \in Actors, NEW h \in Handles, PassSettles(d, h), UNCHANGED watching
      PROVE  Goal
  <2>1. \A j \in Jobs : verdict'[Placeholder(j)] = verdict[Placeholder(j)]
    <3>1. CASE queue[h] = "over"
      <4>1. PICK word \in {"ok", "failed"} : verdict' = [verdict EXCEPT ![h] = word]
        BY <1>15, <3>1 DEF PassSettles
      <4> QED  BY <4>1
    <3>2. CASE queue[h] # "over"
      <4>1. ResolveEffect(h, "running")  BY <1>15, <3>2, ResolveDoes DEF PassSettles
      <4> QED  BY <4>1 DEF ResolveEffect
    <3> QED  BY <3>1, <3>2
  <2>2. Calm  BY <1>15, <2>1 DEF PassSettles, dispatching, Calm, Wants, Resumes
  <2> QED  BY <2>2, CalmFlows
<1>16. ASSUME NEW d \in Actors, Unheld(d), UNCHANGED watching  PROVE Goal
  <2>1. PICK i \in Jobs :
               /\ Resolve(Placeholder(i), TRUE, "cancelled")
               /\ job' = [job EXCEPT ![d] = i]
    BY <1>16 DEF Unheld
  <2>2. ResolveEffect(Placeholder(i), "cancelled")  BY <2>1, ResolveDoes
  <2>3. \A j \in Jobs : verdict'[Placeholder(j)] = "held" => verdict[Placeholder(j)] = "held"
    BY <2>2 DEF ResolveEffect
  <2>4. Calm  BY <1>16, <2>1, <2>3 DEF Unheld, Go, Calm, Wants, Resumes
  <2> QED  BY <2>4, CalmFlows
<1>17. ASSUME NEW d \in Actors, Reports(d), UNCHANGED watching  PROVE Goal
  <2>1. Calm  BY <1>17 DEF Reports, Done, Go, Report, Calm, Wants, Resumes,
                            registry, dispatching
  <2> QED  BY <2>1, CalmFlows
<1>18. ASSUME NEW d \in Actors, Dies(d), UNCHANGED watching  PROVE Goal
  <2>1. ASSUME NEW j \in Jobs  PROVE Flow(j)
    <3>1. TakenFor(j)' \subseteq TakenFor(j)  BY <1>18 DEF Dies, TakenFor, HandlesOf
    <3>2. Asking(j)' \subseteq Asking(j)  BY <1>18, AskingIs DEF Dies, Wants
    <3> QED  BY <1>18, <3>1, <3>2 DEF Dies, Flow
  <2> QED  BY <2>1
<1>19. ASSUME NEW w \in Watches, Replay(w), UNCHANGED dispatching  PROVE Goal
  <2>1. Calm  BY <1>19 DEF Replay, Calm, Wants, Resumes,
                            registry, dispatching
  <2> QED  BY <2>1, CalmFlows
<1>20. ASSUME NEW w \in Watches, ReadRows(w), UNCHANGED dispatching  PROVE Goal
  <2>1. Calm  BY <1>20 DEF ReadRows, Calm, Wants, Resumes,
                            registry, dispatching
  <2> QED  BY <2>1, CalmFlows
<1>21. ASSUME NEW w \in Watches, RecordState(w), UNCHANGED dispatching  PROVE Goal
  <2>1. Calm  BY <1>21 DEF RecordState, Calm, Wants, Resumes,
                            registry, dispatching
  <2> QED  BY <2>1, CalmFlows
<1>22. ASSUME NEW w \in Watches, Observe(w), UNCHANGED dispatching  PROVE Goal
  <2>1. Calm  BY <1>22 DEF Observe, Calm, Wants, Resumes,
                            registry, dispatching
  <2> QED  BY <2>1, CalmFlows
<1>23. ASSUME NEW w \in Watches, Settle(w), UNCHANGED dispatching  PROVE Goal
  <2>1. Calm  BY <1>23 DEF Settle, Calm, Wants, Resumes,
                            registry, dispatching
  <2> QED  BY <2>1, CalmFlows
<1>24. ASSUME NEW w \in Watches, Close(w), UNCHANGED dispatching  PROVE Goal
  <2>1. Calm  BY <1>24 DEF Close, Calm, Wants, Resumes,
                            registry, dispatching
  <2> QED  BY <2>1, CalmFlows
<1>25. ASSUME NEW w \in Watches, WatchDies(w), UNCHANGED dispatching  PROVE Goal
  <2>1. Calm  BY <1>25 DEF WatchDies, Calm, Wants, Resumes,
                            registry, dispatching
  <2> QED  BY <2>1, CalmFlows
<1>26. ASSUME NEW h \in Handles, JobEnds(h), UNCHANGED <<dispatching, watching>>
      PROVE  Goal
  <2>1. Calm  BY <1>26 DEF JobEnds, Calm, Wants, Resumes,
                            registry, dispatching
  <2> QED  BY <2>1, CalmFlows
<1> HIDE DEF Goal
<1> QED
  BY <1>1, <1>2, <1>3, <1>4, <1>5, <1>6, <1>7, <1>8, <1>9, <1>10, <1>11,
     <1>u, <1>f, <1>12, <1>13, <1>14, <1>15, <1>16, <1>17, <1>18, <1>19, <1>20, <1>21,
     <1>22, <1>23, <1>24, <1>25, <1>26
  DEF Next, Acts, Works, Refused, Raises, WatchActs

\* A step keeps every job within its budget.
LEMMA BudgetStep ==
    ASSUME BatchInv, Next, DispatchTypeOK'
    PROVE  BudgetInv'
<1>1. begun' \in Nat /\ deaths' \in Nat  BY DispatchAssumption DEF DispatchTypeOK
<1>2. ASSUME NEW j \in Jobs
      PROVE  /\ IsFiniteSet(TakenFor(j)') /\ IsFiniteSet(Asking(j)')
             /\ Cardinality(TakenFor(j)') + Cardinality(Asking(j)') + Token(j)'
                    <= begun' + deaths'
  BY <1>1, BudgetFlow, FlowBalances
<1> QED  BY <1>2 DEF BudgetInv

(***************************************************************************)
(* Strays.                                                                 *)
(***************************************************************************)

\* A step after which whoever had a handle in hand has it, or has recorded it.
InHand ==
    /\ UNCHANGED deaths
    /\ \A h \in Handles :
          /\ queue'[h] # "free" => queue[h] # "free" \/ \E c \in Actors : got'[c] = h
          /\ \A c \in Actors : got[c] = h => got'[c] = h \/ Exists(h)

\* Such a step leaves no stray behind.
LEMMA InHandNoStray ==
    ASSUME BatchInv, Next, InHand
    PROVE  Strays' \subseteq Strays /\ deaths' = deaths
<1>1. \A h \in Handles : Exists(h) => Exists(h)'  BY RowsLast DEF RunsLast
<1>2. ASSUME NEW h \in Handles, Stray(h)'  PROVE Stray(h)
  BY <1>1, <1>2 DEF Stray, InHand
<1> QED  BY <1>2, LostStays DEF InHand, Strays

\* Only a death leaves a handle in nobody's hand and nobody's record, and one.
LEMMA StrayFlow ==
    ASSUME BatchInv, Next
    PROVE  \/ Strays' \subseteq Strays /\ deaths' = deaths
           \/ \E g : Strays' \subseteq Strays \cup {g} /\ deaths' = deaths + 1
<1> DEFINE Goal == \/ Strays' \subseteq Strays /\ deaths' = deaths
                   \/ \E g : Strays' \subseteq Strays \cup {g} /\ deaths' = deaths + 1
<1> SUFFICES Goal  OBVIOUS
<1> DEFINE Needed == StreamTypeOK /\ DispatchTypeOK /\ ActorInv
<1>0. Needed  BY DEF BatchInv, TypeOK, DispatchInv
<1> USE <1>0, DispatchAssumption
        DEF StreamTypeOK, DispatchTypeOK, ActorInv, Busy, Taking, Actors
<1>1. ASSUME NEW d \in Actors, RunBatch(d), UNCHANGED watching  PROVE Goal
  <2>1. InHand  BY <1>1 DEF RunBatch, InHand, dispatching
  <2> QED  BY <2>1, InHandNoStray
<1>2. ASSUME NEW d \in Actors, RunEnds(d), UNCHANGED watching  PROVE Goal
  <2>1. InHand  BY <1>2 DEF RunEnds, Go, OnJob, InHand, dispatching
  <2> QED  BY <2>1, InHandNoStray
<1>3. ASSUME NEW d \in Actors, PassClaims(d), UNCHANGED watching  PROVE Goal
  <2>1. InHand  BY <1>3 DEF PassClaims, Go, InHand, dispatching
  <2> QED  BY <2>1, InHandNoStray
<1>4. ASSUME NEW d \in Actors, PassEnds(d), UNCHANGED watching  PROVE Goal
  <2>1. InHand  BY <1>4 DEF PassEnds, Go, InHand, dispatching
  <2> QED  BY <2>1, InHandNoStray
<1>5. ASSUME NEW d \in Actors, Offer(d), UNCHANGED watching  PROVE Goal
  <2>1. InHand  BY <1>5 DEF Offer, Go, InHand, dispatching
  <2> QED  BY <2>1, InHandNoStray
<1>6. ASSUME NEW d \in Actors, Taken(d), UNCHANGED watching  PROVE Goal
  <2>1. InHand  BY <1>6 DEF Taken, Go, HandlesOf, InHand, dispatching
  <2> QED  BY <2>1, InHandNoStray
<1>7. ASSUME NEW d \in Actors, Recorded(d), UNCHANGED watching  PROVE Goal
  <2>1. InHand  BY <1>7 DEF Recorded, Go, OnJob, InHand, dispatching
  <2> QED  BY <2>1, InHandNoStray
<1>8. ASSUME NEW d \in Actors, Receipt(d), UNCHANGED watching  PROVE Goal
  <2>1. InHand  BY <1>8 DEF Receipt, Done, Go, InHand, dispatching
  <2> QED  BY <2>1, InHandNoStray
<1>9. ASSUME NEW d \in Actors, NEW why \in Refusals, BatchRefused(d, "ask", why),
             UNCHANGED <<queue, watching>>
      PROVE  Goal
  <2>1. InHand  BY <1>9 DEF BatchRefused, Done, Go, OnJob, InHand, dispatching
  <2> QED  BY <2>1, InHandNoStray
<1>10. ASSUME NEW d \in Actors, NEW why \in Refusals, PassRefused(d, "ask", why),
             UNCHANGED <<queue, watching>>
      PROVE  Goal
  <2>1. InHand  BY <1>10 DEF PassRefused, Done, Go, InHand, dispatching
  <2> QED  BY <2>1, InHandNoStray
<1>u. ASSUME NEW d \in Actors, TakenUnheard(d), UNCHANGED watching  PROVE Goal
  <2>1. PICK h \in HandlesOf(job[d]) :
               /\ queue' = [queue EXCEPT ![h] = "live"] /\ lost' = lost \cup {h}
               /\ Raises(d, "ask", Outage)
    BY <1>u DEF TakenUnheard
  <2>2. /\ at[d] = "ask" /\ UNCHANGED <<deaths, verdict>>
        /\ \A c \in Actors : got[c] \in Handles => got'[c] = got[c]
    BY <2>1, OutageDoes DEF Done, Go
  <2>3. ASSUME NEW g \in Handles, g \notin lost', Stray(g)'  PROVE Stray(g)
    BY <2>1, <2>2, <2>3 DEF Stray, Exists
  <2>4. Strays' \subseteq Strays  BY <2>1, <2>3 DEF Strays
  <2> QED  BY <2>2, <2>4
<1>f. ASSUME NEW d \in Actors, RecordFails(d), UNCHANGED watching  PROVE Goal
  <2>1. lost' = lost \cup {got[d]} /\ UNCHANGED queue /\ Raises(d, "record", Outage)
    BY <1>f DEF RecordFails
  <2>2. /\ UNCHANGED <<deaths, verdict>>
        /\ \A c \in Actors : c # d => got'[c] = got[c]
    BY <2>1, OutageDoes DEF Done, Go
  <2>3. ASSUME NEW g \in Handles, g \notin lost', Stray(g)'  PROVE Stray(g)
    BY <2>1, <2>2, <2>3 DEF Stray, Exists
  <2>4. Strays' \subseteq Strays  BY <2>1, <2>3 DEF Strays
  <2> QED  BY <2>2, <2>4
<1>11. ASSUME NEW d \in Actors, BatchHolds(d), UNCHANGED watching  PROVE Goal
  <2>1. InHand  BY <1>11 DEF BatchHolds, Go, OnJob, InHand, dispatching
  <2> QED  BY <2>1, InHandNoStray
<1>12. ASSUME NEW d \in Actors, BatchTold(d), UNCHANGED watching  PROVE Goal
  <2>1. InHand  BY <1>12 DEF BatchTold, Done, Go, InHand, dispatching
  <2> QED  BY <2>1, InHandNoStray
<1>13. ASSUME NEW d \in Actors, PassFails(d), UNCHANGED watching  PROVE Goal
  <2>1. InHand  BY <1>13 DEF PassFails, Go, OnJob, InHand, dispatching
  <2> QED  BY <2>1, InHandNoStray
<1>14. ASSUME NEW d \in Actors, PassForgets(d), UNCHANGED watching  PROVE Goal
  <2>1. InHand  BY <1>14 DEF PassForgets, Go, OnJob, InHand, dispatching
  <2> QED  BY <2>1, InHandNoStray
<1>15. ASSUME NEW d \in Actors, NEW h \in Handles, PassSettles(d, h), UNCHANGED watching
      PROVE  Goal
  <2>1. InHand  BY <1>15 DEF PassSettles, InHand, dispatching
  <2> QED  BY <2>1, InHandNoStray
<1>16. ASSUME NEW d \in Actors, Unheld(d), UNCHANGED watching  PROVE Goal
  <2>1. InHand  BY <1>16 DEF Unheld, Go, InHand, dispatching
  <2> QED  BY <2>1, InHandNoStray
<1>17. ASSUME NEW d \in Actors, Reports(d), UNCHANGED watching  PROVE Goal
  <2>1. InHand  BY <1>17 DEF Reports, Done, Go, InHand, dispatching
  <2> QED  BY <2>1, InHandNoStray
<1>18. ASSUME NEW d \in Actors, Dies(d), UNCHANGED watching  PROVE Goal
  <2>1. /\ deaths' = deaths + 1 /\ UNCHANGED <<queue, verdict>>
        /\ got' = [got EXCEPT ![d] = None]
    BY <1>18 DEF Dies, registry
  <2>2. PICK g : g = got[d]  OBVIOUS
  <2>3. ASSUME NEW h \in Handles, Stray(h)', h # g  PROVE Stray(h)
    BY <2>1, <2>2, <2>3 DEF Stray, Exists
  <2>4. Strays' \subseteq Strays \cup {g}  BY <2>3, LostStays DEF Strays
  <2> QED  BY <2>1, <2>4
<1>19. ASSUME NEW w \in Watches, Replay(w), UNCHANGED dispatching  PROVE Goal
  <2>1. InHand  BY <1>19 DEF Replay, InHand, dispatching
  <2> QED  BY <2>1, InHandNoStray
<1>20. ASSUME NEW w \in Watches, ReadRows(w), UNCHANGED dispatching  PROVE Goal
  <2>1. InHand  BY <1>20 DEF ReadRows, InHand, dispatching
  <2> QED  BY <2>1, InHandNoStray
<1>21. ASSUME NEW w \in Watches, RecordState(w), UNCHANGED dispatching  PROVE Goal
  <2>1. InHand  BY <1>21 DEF RecordState, InHand, dispatching
  <2> QED  BY <2>1, InHandNoStray
<1>22. ASSUME NEW w \in Watches, Observe(w), UNCHANGED dispatching  PROVE Goal
  <2>1. InHand  BY <1>22 DEF Observe, InHand, dispatching
  <2> QED  BY <2>1, InHandNoStray
<1>23. ASSUME NEW w \in Watches, Settle(w), UNCHANGED dispatching  PROVE Goal
  <2>1. InHand  BY <1>23 DEF Settle, InHand, dispatching
  <2> QED  BY <2>1, InHandNoStray
<1>24. ASSUME NEW w \in Watches, Close(w), UNCHANGED dispatching  PROVE Goal
  <2>1. InHand  BY <1>24 DEF Close, InHand, dispatching
  <2> QED  BY <2>1, InHandNoStray
<1>25. ASSUME NEW w \in Watches, WatchDies(w), UNCHANGED dispatching  PROVE Goal
  <2>1. InHand  BY <1>25 DEF WatchDies, InHand, dispatching
  <2> QED  BY <2>1, InHandNoStray
<1>26. ASSUME NEW h \in Handles, JobEnds(h), UNCHANGED <<dispatching, watching>>
      PROVE  Goal
  <2>1. InHand  BY <1>26 DEF JobEnds, InHand, dispatching
  <2> QED  BY <2>1, InHandNoStray
<1> HIDE DEF Goal
<1> QED
  BY <1>1, <1>2, <1>3, <1>4, <1>5, <1>6, <1>7, <1>8, <1>9, <1>10, <1>11,
     <1>u, <1>f, <1>12, <1>13, <1>14, <1>15, <1>16, <1>17, <1>18, <1>19, <1>20, <1>21,
     <1>22, <1>23, <1>24, <1>25, <1>26
  DEF Next, Acts, Works, Refused, Raises, WatchActs

\* There are no more strays than deaths after any step.
LEMMA StrayStep ==
    ASSUME BatchInv, Next
    PROVE  StrayInv'
<1>1. IsFiniteSet(Strays) /\ Cardinality(Strays) <= deaths /\ deaths \in Nat
  BY DispatchAssumption DEF BatchInv, StrayInv, TypeOK, DispatchTypeOK
<1>2. CASE Strays' \subseteq Strays /\ deaths' = deaths
  <2>1. IsFiniteSet(Strays') /\ Cardinality(Strays') <= Cardinality(Strays)
        /\ Cardinality(Strays') \in Nat /\ Cardinality(Strays) \in Nat
    BY <1>1, <1>2, Shrinks
  <2> QED  BY <1>1, <1>2, <2>1 DEF StrayInv
<1>3. ASSUME NEW g, Strays' \subseteq Strays \cup {g}, deaths' = deaths + 1
      PROVE  StrayInv'
  <2>1. IsFiniteSet(Strays') /\ Cardinality(Strays') <= Cardinality(Strays) + 1
        /\ Cardinality(Strays') \in Nat /\ Cardinality(Strays) \in Nat
    BY <1>1, <1>3, GrowsByOne
  <2> QED  BY <1>1, <1>3, <2>1 DEF StrayInv
<1> QED  BY <1>2, <1>3, StrayFlow

(***************************************************************************)
(* A lone watch settles a run once.                                        *)
(***************************************************************************)
\* At most one watch is one watch.
LEMMA OneWatch ==
    ASSUME Lone, NEW v \in Watches, NEW w \in Watches
    PROVE  v = w
<1>1. SUFFICES ASSUME v # w  PROVE FALSE  OBVIOUS
<1>2. IsFiniteSet({w}) /\ Cardinality({w}) = 1  BY FS_Singleton
<1>3. Cardinality({w} \cup {v}) = 2  BY <1>1, <1>2, FS_AddElement
<1>4. Cardinality({w} \cup {v}) <= Cardinality(Watches) /\ Cardinality(Watches) \in Nat
  BY WatchAssumption, FS_Subset, FS_CardinalityType
<1> QED  BY <1>3, <1>4 DEF Lone

\* A new answer about a job names no run that is spent.
Fresh ==
    /\ UNCHANGED <<ended, ends>>
    /\ \A j \in Jobs : \A h \in Handles :
          offered'[j].handle = h => offered[j].handle = h \/ ~Spent(h)

\* The target gives a handle once, so no answer names a run ended before.
LEMMA AnswersFresh ==
    ASSUME BatchInv, ActorStep
    PROVE  Fresh
<1> DEFINE Goal == Fresh
<1> SUFFICES Goal  OBVIOUS
<1>0. StreamTypeOK  BY DEF BatchInv, TypeOK
<1>h. NoHandle \notin Handles  BY StreamAssumption DEF Handles
<1> USE <1>0, <1>h DEF StreamTypeOK, Fresh
<1>1. ASSUME NEW d \in Actors, RunBatch(d), UNCHANGED watching  PROVE Goal
  <2>1. UNCHANGED <<offered, ended, ends>>  BY <1>1 DEF RunBatch, stream
  <2> QED  BY <2>1
<1>2. ASSUME NEW d \in Actors, RunEnds(d), UNCHANGED watching  PROVE Goal
  <2>1. UNCHANGED <<offered, ended, ends>>  BY <1>2 DEF RunEnds, stream
  <2> QED  BY <2>1
<1>3. ASSUME NEW d \in Actors, PassClaims(d), UNCHANGED watching  PROVE Goal
  <2>1. UNCHANGED <<offered, ended, ends>>  BY <1>3 DEF PassClaims, stream
  <2> QED  BY <2>1
<1>4. ASSUME NEW d \in Actors, PassEnds(d), UNCHANGED watching  PROVE Goal
  <2>1. UNCHANGED <<offered, ended, ends>>  BY <1>4 DEF PassEnds, stream
  <2> QED  BY <2>1
<1>5. ASSUME NEW d \in Actors, Offer(d), UNCHANGED watching  PROVE Goal
  <2>1. UNCHANGED <<offered, ended, ends>>  BY <1>5 DEF Offer, stream
  <2> QED  BY <2>1
<1>6. ASSUME NEW d \in Actors, Taken(d), UNCHANGED watching  PROVE Goal
  <2>1. UNCHANGED <<offered, ended, ends>>  BY <1>6 DEF Taken, stream
  <2> QED  BY <2>1
<1>7. ASSUME NEW d \in Actors, Recorded(d), UNCHANGED watching  PROVE Goal
  <2>1. UNCHANGED <<offered, ended, ends>>  BY <1>7 DEF Recorded, stream
  <2> QED  BY <2>1
<1>8. ASSUME NEW d \in Actors, Receipt(d), UNCHANGED watching  PROVE Goal
  <2>1. /\ offered' = [offered EXCEPT ![job[d]] = [topic |-> "submitted", handle |-> got[d]]]
        /\ UNCHANGED <<ended, ends>>
    BY <1>8 DEF Receipt, Answer
  <2>2. ~Spent(got[d])  BY DEF Spent
  <2> QED  BY <2>1, <2>2
<1>9. ASSUME NEW d \in Actors, NEW from \in {"ask", "record"}, NEW why \in Refusals,
             BatchRefused(d, from, why), from = "record" => why # Quota,
             Gives, UNCHANGED watching
      PROVE  Goal
  <2>1. CASE why = Quota
    <3>1. UNCHANGED <<offered, ended, ends>>  BY <1>9, <2>1 DEF BatchRefused, stream
    <3> QED  BY <3>1
  <2>2. CASE why # Quota
    <3>1. /\ offered' = [offered EXCEPT ![job[d]] = [topic |-> "refused", handle |-> NoHandle]]
          /\ UNCHANGED <<ended, ends>>
      BY <1>9, <2>2 DEF BatchRefused, Answer
    <3> QED  BY <3>1
  <2> QED  BY <2>1, <2>2
<1>10. ASSUME NEW d \in Actors, NEW from \in {"ask", "record"}, NEW why \in Refusals,
             PassRefused(d, from, why), Gives, UNCHANGED watching
      PROVE  Goal
  <2>1. UNCHANGED <<offered, ended, ends>>  BY <1>10 DEF PassRefused, stream
  <2> QED  BY <2>1
<1>r. ASSUME NEW d \in Actors, Raising(d), UNCHANGED watching  PROVE Goal
  <2>1. PICK from \in {"ask", "record"}, why \in Refusals :
               /\ Gives /\ (from = "record" => why # Quota)
               /\ BatchRefused(d, from, why) \/ PassRefused(d, from, why)
    BY <1>r, RaisingIs
  <2> HIDE DEF Goal
  <2> QED  BY <1>9, <1>10, <1>r, <2>1
<1>11. ASSUME NEW d \in Actors, BatchHolds(d), UNCHANGED watching  PROVE Goal
  <2>1. UNCHANGED <<offered, ended, ends>>  BY <1>11 DEF BatchHolds, stream
  <2> QED  BY <2>1
<1>12. ASSUME NEW d \in Actors, BatchTold(d), UNCHANGED watching  PROVE Goal
  <2>1. /\ offered' = [offered EXCEPT ![job[d]] = [topic |-> "held", handle |-> NoHandle]]
        /\ UNCHANGED <<ended, ends>>
    BY <1>12 DEF BatchTold, Answer
  <2> QED  BY <2>1
<1>13. ASSUME NEW d \in Actors, PassFails(d), UNCHANGED watching  PROVE Goal
  <2>1. UNCHANGED <<offered, ended, ends>>  BY <1>13 DEF PassFails, stream
  <2> QED  BY <2>1
<1>14. ASSUME NEW d \in Actors, PassForgets(d), UNCHANGED watching  PROVE Goal
  <2>1. UNCHANGED <<offered, ended, ends>>  BY <1>14 DEF PassForgets, stream
  <2> QED  BY <2>1
<1>15. ASSUME NEW d \in Actors, NEW h \in Handles, PassSettles(d, h), UNCHANGED watching
      PROVE  Goal
  <2>1. UNCHANGED <<offered, ended, ends>>  BY <1>15 DEF PassSettles, stream
  <2> QED  BY <2>1
<1>16. ASSUME NEW d \in Actors, Unheld(d), UNCHANGED watching  PROVE Goal
  <2>1. UNCHANGED <<offered, ended, ends>>  BY <1>16 DEF Unheld, stream
  <2> QED  BY <2>1
<1>17. ASSUME NEW d \in Actors, Reports(d), UNCHANGED watching  PROVE Goal
  <2>1. UNCHANGED <<offered, ended, ends>>  BY <1>17 DEF Reports, stream
  <2> QED  BY <2>1
<1>18. ASSUME NEW d \in Actors, Dies(d), UNCHANGED watching  PROVE Goal
  <2>1. UNCHANGED <<offered, ended, ends>>  BY <1>18 DEF Dies, stream
  <2> QED  BY <2>1
<1> HIDE DEF Goal
<1> QED
  BY <1>1, <1>2, <1>3, <1>4, <1>5, <1>6, <1>7, <1>8, <1>9, <1>10, <1>11,
     <1>r, <1>12, <1>13, <1>14, <1>15, <1>16, <1>17, <1>18
  DEF ActorStep, Acts, Works, Raising

\* What a watch owes, and what it has behind it, survive the other processes.
LEMMA OnceFrame ==
    ASSUME BatchInv, Lone, Next, Fresh, UNCHANGED watching
    PROVE  OnceInv'
<1>1. UNCHANGED <<look, view, left, ended, ends>>  BY DEF watching, Fresh
<1>2. /\ StreamTypeOK /\ StreamInv /\ OnceInv  BY DEF BatchInv, TypeOK
<1>3. \A h \in Handles : Spent(h) => Spent(h)'  BY RowsLast DEF RunsLast
<1>4. NoHandle \notin Handles  BY StreamAssumption DEF Handles
<1>5. ASSUME NEW j \in Jobs, NEW h \in Handles, ended[j].handle = h  PROVE Spent(h)
  <2>1. IsOver(ended[j])  BY <1>2, <1>4, <1>5 DEF StreamInv, NoLine
  <2> QED  BY <1>2, <1>4, <1>5, <2>1 DEF StreamInv, Truthful
<1>6. ASSUME NEW w \in Watches, NEW j \in Jobs, Owed(w, j)'
      PROVE  /\ view'[w].ended[j] = ended'[j]
             /\ \A h \in Handles : ended'[j].handle = h /\ view'[w].offered[j].handle # h
                                      => offered'[j].handle # h
  <2>1. Owed(w, j)  BY <1>1, <1>6 DEF Owed
  <2> QED  BY <1>1, <1>2, <1>5, <2>1 DEF OnceInv, Fresh
<1>7. ASSUME NEW j \in Jobs, NEW h \in Handles, ends'[j][h] # 0
      PROVE  /\ ends'[j][h] = 1 /\ Spent(h)'
             /\ ended'[j].handle = h \/ Behind(j, h)'
  <2>1. ends[j][h] = 1 /\ Spent(h) /\ (ended[j].handle = h \/ Behind(j, h))
    BY <1>1, <1>2, <1>7 DEF OnceInv
  <2>2. Behind(j, h) => Behind(j, h)'  BY <1>1, <2>1 DEF Behind, Fresh
  <2> QED  BY <1>1, <1>3, <2>1, <2>2
<1> QED  BY <1>6, <1>7 DEF OnceInv

\* A step of a watch that ends nothing: it goes on with its view, or replays.
Active == {"read"} \cup Reading
Paces ==
    /\ UNCHANGED <<offered, ended, ends>>
    /\ \A w \in Watches : look'[w] \in Active =>
          \/ /\ look[w] \in Active /\ view'[w] = view[w]
             /\ \A j \in Jobs : Owed(w, j)' => Owed(w, j)
          \/ view'[w] = Now

\* Such a step keeps what is owed and what is behind.
LEMMA PacesOnce ==
    ASSUME BatchInv, Lone, Next, Paces
    PROVE  OnceInv'
<1>1. UNCHANGED <<offered, ended, ends>> /\ OnceInv  BY DEF Paces, BatchInv
<1>2. \A h \in Handles : Spent(h) => Spent(h)'  BY RowsLast DEF RunsLast
<1>3. ASSUME NEW w \in Watches, NEW j \in Jobs, Owed(w, j)'
      PROVE  /\ view'[w].ended[j] = ended'[j]
             /\ \A h \in Handles : ended'[j].handle = h /\ view'[w].offered[j].handle # h
                                      => offered'[j].handle # h
  <2>1. look'[w] \in Active  BY <1>3 DEF Owed, Active
  <2>2. CASE view'[w] = view[w] /\ Owed(w, j)
    BY <1>1, <2>2 DEF OnceInv
  <2>3. CASE view'[w] = Now
    <3>1. view'[w].ended = ended /\ view'[w].offered = offered  BY <2>3 DEF Now
    <3> QED  BY <1>1, <3>1
  <2> QED  BY <1>3, <2>1, <2>2, <2>3 DEF Paces
<1>4. ASSUME NEW j \in Jobs, NEW h \in Handles, ends'[j][h] # 0
      PROVE  /\ ends'[j][h] = 1 /\ Spent(h)'
             /\ ended'[j].handle = h \/ Behind(j, h)'
  <2>1. ends[j][h] = 1 /\ Spent(h) /\ (ended[j].handle = h \/ Behind(j, h))
    BY <1>1, <1>4 DEF OnceInv
  <2>2. ASSUME Behind(j, h)  PROVE Behind(j, h)'
    <3>1. offered'[j].handle # h  BY <1>1, <2>2 DEF Behind
    <3>2. ASSUME NEW w \in Watches, look'[w] \in Active
          PROVE  view'[w].offered[j].handle # h
      <4>1. CASE look[w] \in Active /\ view'[w] = view[w]
        BY <2>2, <4>1 DEF Behind, Active
      <4>2. CASE view'[w] = Now
        <5>1. view'[w].offered = offered  BY <4>2 DEF Now
        <5> QED  BY <5>1, <2>2 DEF Behind
      <4> QED  BY <3>2, <4>1, <4>2 DEF Paces
    <3> QED  BY <3>1, <3>2 DEF Behind, Active
  <2> QED  BY <1>1, <1>2, <2>1, <2>2
<1> QED  BY <1>3, <1>4 DEF OnceInv

\* A lone watch ends a run that nobody ended before, and no step of it
\* brings one back.
LEMMA OnceWatch ==
    ASSUME BatchInv, Lone, WatchStep
    PROVE  OnceInv'
<1> DEFINE Goal == OnceInv'
<1> SUFFICES Goal  OBVIOUS
<1> DEFINE Needed ==
        /\ StreamTypeOK /\ WatchTypeOK
        /\ StreamInv /\ ViewInv /\ WatchInv /\ OnceInv
<1>0. Needed  BY DEF BatchInv, TypeOK
<1>n. Next  BY DEF Next, WatchStep
<1>h. NoHandle \notin Handles /\ Nothing \notin Settled
  BY StreamAssumption DEF Handles, Settled, Words, Nothing
<1> USE <1>0, <1>n, <1>h DEF StreamTypeOK, WatchTypeOK
<1>1. ASSUME NEW w \in Watches, Replay(w), UNCHANGED dispatching  PROVE Goal
  <2>1. Paces  BY <1>1 DEF Replay, stream, Paces, Active, Reading, Owed
  <2> QED  BY <2>1, PacesOnce
<1>2. ASSUME NEW w \in Watches, ReadRows(w), UNCHANGED dispatching  PROVE Goal
  <2>1. Paces  BY <1>2 DEF ReadRows, Look, stream, Paces, Active, Reading, Owed
  <2> QED  BY <2>1, PacesOnce
<1>3. ASSUME NEW w \in Watches, RecordState(w), UNCHANGED dispatching  PROVE Goal
  <2>1. PICK j \in left[w] :
               /\ IF Lands(w, j)
                  THEN look' = [look EXCEPT ![w] = "cost"] /\ UNCHANGED left
                  ELSE left' = [left EXCEPT ![w] = @ \ {j}] /\ UNCHANGED look
               /\ look[w] = "record"
               /\ UNCHANGED <<view, offered, ended, ends>>
    BY <1>3 DEF RecordState
  <2>2. CASE Lands(w, j)
    <3>1. look' = [look EXCEPT ![w] = "cost"] /\ UNCHANGED left  BY <2>1, <2>2
    <3>2. Paces  BY <2>1, <3>1 DEF Paces, Active, Reading, Owed
    <3> QED  BY <3>2, PacesOnce
  <2>3. CASE ~Lands(w, j)
    <3>1. left' = [left EXCEPT ![w] = @ \ {j}] /\ UNCHANGED look  BY <2>1, <2>3
    <3>2. Paces  BY <2>1, <3>1 DEF Paces, Active, Reading, Owed
    <3> QED  BY <3>2, PacesOnce
  <2> QED  BY <2>2, <2>3
<1>4. ASSUME NEW w \in Watches, Observe(w), UNCHANGED dispatching  PROVE Goal
  <2>1. Paces  BY <1>4 DEF Observe, Look, Paces, Active, Reading, Owed
  <2> QED  BY <2>1, PacesOnce
<1>5. ASSUME NEW w \in Watches, Settle(w), UNCHANGED dispatching  PROVE Goal
  <2>1. /\ look[w] = "settle" /\ look' = [look EXCEPT ![w] = "record"]
        /\ left' = [left EXCEPT ![w] = @ \ {row[w]}]
        /\ ended' = [ended EXCEPT ![row[w]] = rows[w][row[w]]]
        /\ ends' = Counted(ends, row[w], rows[w][row[w]].handle)
        /\ UNCHANGED <<view, rows, offered>>
    BY <1>5 DEF Settle, Look
  <2>2. PICK j \in Jobs, line \in Lines : j = row[w] /\ line = rows[w][j]
    BY <2>1 DEF WatchInv
  <2>3. /\ j \in left[w] /\ IsOver(line) /\ Truthful(j, line)
        /\ line.handle = view[w].offered[j].handle
        /\ view[w].ended[j].verdict = Nothing \/ view[w].ended[j].handle # line.handle
    BY <2>1, <2>2 DEF WatchInv, ViewInv, Lands, Reading
  <2>4. /\ view[w].ended[j] = ended[j]
        /\ \A h \in Handles :
              ended[j].handle = h /\ line.handle # h => offered[j].handle # h
    BY <2>1, <2>3 DEF OnceInv, Owed, Reading
  <2>5. \A h \in Handles : ended[j].handle = h => line.handle # h
    <3>1. ASSUME NEW h \in Handles, ended[j].handle = h  PROVE line.handle # h
      <4>1. IsOver(ended[j])  BY <3>1 DEF StreamInv, NoLine
      <4>2. ended[j].verdict # Nothing  BY <4>1 DEF IsOver
      <4> QED  BY <2>3, <2>4, <3>1, <4>2
    <3> QED  BY <3>1
  <2>6. ended'[j] = line /\ \A i \in Jobs : i # j => ended'[i] = ended[i]  BY <2>1, <2>2
  <2>7. /\ line.handle \in Handles \cup {NoHandle}
        /\ \A i \in Jobs : \A h \in Handles : i # j \/ line.handle # h => ends'[i][h] = ends[i][h]
        /\ \A h \in Handles : line.handle = h /\ ends[j][h] = 0 => ends'[j][h] = 1
    <3>1. line.handle \in Handles \cup {NoHandle}  BY DEF Lines
    <3> QED  BY <2>1, <2>2, <3>1, CountedDoes
  <2>8. ASSUME NEW v \in Watches, NEW i \in Jobs, Owed(v, i)'
        PROVE  /\ view'[v].ended[i] = ended'[i]
               /\ \A h \in Handles : ended'[i].handle = h /\ view'[v].offered[i].handle # h
                                        => offered'[i].handle # h
    <3>1. v = w  BY OneWatch
    <3>2. i # j /\ Owed(v, i)  BY <2>1, <2>2, <2>8, <3>1 DEF Owed, Reading
    <3> QED  BY <2>1, <2>6, <3>2 DEF OnceInv
  <2>9. ASSUME NEW i \in Jobs, NEW h \in Handles, ends'[i][h] # 0
        PROVE  /\ ends'[i][h] = 1 /\ Spent(h)'
               /\ ended'[i].handle = h \/ Behind(i, h)'
    <3>0. /\ \A g \in Handles : Spent(g) => Spent(g)'
          /\ Behind(i, h) => Behind(i, h)'
      <4>1. \A g \in Handles : Spent(g) => Spent(g)'
        BY RowsLast DEF RunsLast, Next, WatchStep
      <4> QED  BY <2>1, <4>1 DEF Behind, Reading
    <3>1. CASE i # j
      <4>1. ends'[i][h] = ends[i][h] /\ ended'[i] = ended[i]  BY <2>6, <2>7, <3>1
      <4>2. ends[i][h] = 1 /\ Spent(h) /\ (ended[i].handle = h \/ Behind(i, h))
        BY <2>9, <4>1 DEF OnceInv
      <4> QED  BY <3>0, <4>1, <4>2
    <3>2. CASE i = j /\ line.handle = h
      <4>1. ends[j][h] = 0
        <5>1. SUFFICES ASSUME ends[j][h] # 0  PROVE FALSE  OBVIOUS
        <5>2. ended[j].handle = h \/ Behind(j, h)  BY <5>1 DEF OnceInv
        <5>3. ~Behind(j, h)  BY <2>1, <2>3, <3>2 DEF Behind, Reading
        <5> QED  BY <2>5, <3>2, <5>2, <5>3
      <4>2. Spent(h)  BY <2>3, <3>2 DEF Truthful
      <4> QED  BY <2>6, <2>7, <3>0, <3>2, <4>1, <4>2
    <3>3. CASE i = j /\ line.handle # h
      <4>1. ends[j][h] = 1 /\ Spent(h) /\ (ended[j].handle = h \/ Behind(j, h))
        BY <2>7, <2>9, <3>3 DEF OnceInv
      <4>2. ended[j].handle = h => Behind(j, h)'
        <5>1. \A v \in Watches : v = w  BY OneWatch
        <5> QED  BY <2>1, <2>3, <2>4, <3>3, <5>1 DEF Behind
      <4> QED  BY <2>7, <3>0, <3>3, <4>1, <4>2
    <3> QED  BY <3>1, <3>2, <3>3
  <2> QED  BY <2>8, <2>9 DEF OnceInv
<1>6. ASSUME NEW w \in Watches, Close(w), UNCHANGED dispatching  PROVE Goal
  <2>1. /\ look' = [look EXCEPT ![w] = IF AllOver(w) THEN "done" ELSE "idle"]
        /\ view' = [view EXCEPT ![w] = Blank] /\ UNCHANGED <<left, offered, ended, ends>>
    BY <1>6 DEF Close
  <2>2. look'[w] \notin Active  BY <2>1 DEF Active, Reading
  <2>3. \A v \in Watches : v # w => look'[v] = look[v] /\ view'[v] = view[v]  BY <2>1
  <2>4. Paces  BY <2>1, <2>2, <2>3 DEF Paces, Owed
  <2> QED  BY <2>4, PacesOnce
<1>7. ASSUME NEW w \in Watches, WatchDies(w), UNCHANGED dispatching  PROVE Goal
  <2>1. /\ look' = [look EXCEPT ![w] = "off"] /\ view' = [view EXCEPT ![w] = Blank]
        /\ left' = [left EXCEPT ![w] = {}] /\ UNCHANGED <<offered, ended, ends>>
    BY <1>7 DEF WatchDies, stream
  <2>2. look'[w] \notin Active  BY <2>1 DEF Active, Reading
  <2>3. \A v \in Watches : v # w =>
            look'[v] = look[v] /\ view'[v] = view[v] /\ left'[v] = left[v]
    BY <2>1
  <2>4. Paces  BY <2>1, <2>2, <2>3 DEF Paces, Owed
  <2> QED  BY <2>4, PacesOnce
<1> HIDE DEF Goal
<1> QED
  BY <1>1, <1>2, <1>3, <1>4, <1>5, <1>6, <1>7
  DEF WatchStep, WatchActs

(***************************************************************************)
(* The invariant.                                                          *)
(***************************************************************************)

\* A watch writes no row of the registry and takes no lock.
LEMMA WatchLeaves ==
    ASSUME WatchStep
    PROVE  UNCHANGED <<verdict, stopped, reported, evidence, leased, bound, queue,
                       at, todo, job, got, owner, begun, deaths, lost>>
BY DEF WatchStep, WatchActs, Replay, ReadRows, RecordState, Observe, Settle, Close, WatchDies,
       registry, dispatching

\* Only the target's queue moves when a job ends, and nothing comes free.
LEMMA QueueLeaves ==
    ASSUME StreamTypeOK, QueueStep
    PROVE  /\ UNCHANGED <<verdict, stopped, reported, evidence, leased, bound,
                          at, todo, job, got, owner, begun, deaths, lost>>
           /\ UNCHANGED watching /\ Fresh
           /\ \A h \in Handles : queue[h] # "free" => queue'[h] # "free"
BY DEF QueueStep, JobEnds, registry, dispatching, stream, Fresh, StreamTypeOK

\* The invariant holds of a new workspace.
LEMMA InitInv ==
    ASSUME Init
    PROVE  BatchInv
<1> USE DEF Init, RegistryInit, StreamInit, DispatchInit, WatchInit
<1>n. NoHandle \notin Handles  BY StreamAssumption DEF Handles
<1>1. RegistryTypeOK  BY DEF RegistryTypeOK, Deliveries
<1>2. StreamTypeOK
  <2>1. NoLine \in Lines  BY LinesTyped
  <2>2. [h \in Handles \cup {NoHandle} |-> 0] \in [Handles \cup {NoHandle} -> 0..Twice]
    BY DEF Twice
  <2> QED  BY <2>1, <2>2 DEF StreamTypeOK, Answers, Counts
<1>3. DispatchTypeOK  BY DispatchAssumption DEF DispatchTypeOK
<1>4. WatchTypeOK  BY LinesTyped DEF WatchTypeOK
<1>5. DispatchInv
  <2>1. None \notin Handles /\ None \notin Jobs  BY DispatchAssumption DEF Handles
  <2> QED  BY <2>1 DEF DispatchInv, ActorInv, HandInv, HeldInv, Busy, Taking, Actors
<1>6. StreamInv  BY DEF StreamInv, Answered, Truthful, NoLine
<1>7. ViewInv  BY DEF ViewInv, Answered, Blank, Reading
<1>8. WatchInv  BY DEF WatchInv
<1>9. OnceInv  BY DEF OnceInv, Owed, Reading
<1>10. BudgetInv
  <2>1. ASSUME NEW j \in Jobs
        PROVE  /\ IsFiniteSet(TakenFor(j)) /\ IsFiniteSet(Asking(j))
               /\ Cardinality(TakenFor(j)) + Cardinality(Asking(j)) + Token(j) <= begun + deaths
    <3>1. TakenFor(j) = {}  BY DEF TakenFor, HandlesOf
    <3>2. Asking(j) = {}  BY DispatchAssumption DEF Asking, Actors
    <3>3. Token(j) = 0  BY PlaceholderOf DEF Token, NoRow
    <3> QED  BY <3>1, <3>2, <3>3, FS_EmptySet
  <2> QED  BY <2>1 DEF BudgetInv
<1>11. StrayInv
  <2>1. Strays = {}  BY DEF Strays, Stray
  <2> QED  BY <2>1, FS_EmptySet DEF StrayInv
<1> QED
  BY <1>1, <1>2, <1>3, <1>4, <1>5, <1>6, <1>7, <1>8, <1>9, <1>10, <1>11
  DEF BatchInv, TypeOK

\* Every step keeps the invariant.
LEMMA StepInv ==
    ASSUME BatchInv, Next
    PROVE  BatchInv'
<1>0. ActorStep \/ WatchStep \/ QueueStep  BY DEF Next, ActorStep, WatchStep, QueueStep
<1>1. StreamTypeOK' /\ StreamInv' /\ StrayInv'  BY StreamTyped, StreamStep, StrayStep
<1>t. RegistryTypeOK /\ StreamTypeOK /\ DispatchTypeOK /\ WatchTypeOK /\ DispatchInv
  BY DEF BatchInv, TypeOK
<1>2. CASE ActorStep
  <2>1. UNCHANGED watching  BY <1>2 DEF ActorStep
  <2>2. RegistryTypeOK' /\ DispatchTypeOK'  BY <1>2, RowsTyped, DispatchTyped
  <2>3. WatchTypeOK'  BY <1>t, <2>1 DEF WatchTypeOK, watching
  <2>4. DispatchInv'  BY <1>2, ActorStepInv, HandStep, HeldStep DEF DispatchInv
  <2>5. ViewInv' /\ WatchInv'  BY <2>1, WatchFrame
  <2>6. Lone => OnceInv'  BY <1>2, <2>1, AnswersFresh, OnceFrame
  <2>7. BudgetInv'  BY <2>2, BudgetStep
  <2> QED  BY <1>1, <2>2, <2>3, <2>4, <2>5, <2>6, <2>7 DEF BatchInv, TypeOK, Lone
<1>3. CASE WatchStep
  <2>1. UNCHANGED <<verdict, stopped, reported, evidence, leased, bound, queue,
                    at, todo, job, got, owner, begun, deaths, lost>>
    BY <1>3, WatchLeaves
  <2>2. RegistryTypeOK' /\ DispatchTypeOK'
    BY <1>t, <2>1 DEF RegistryTypeOK, DispatchTypeOK
  <2>3. WatchTypeOK'  BY <1>3, WatchTyped
  <2>4. DispatchInv'
    BY <1>t, <2>1 DEF DispatchInv, ActorInv, HandInv, HeldInv, Exists
  <2>5. ViewInv' /\ WatchInv'  BY <1>3, ViewStep, WatchKeeps
  <2>6. Lone => OnceInv'  BY <1>3, OnceWatch
  <2>7. BudgetInv'  BY <2>2, BudgetStep
  <2> QED  BY <1>1, <2>2, <2>3, <2>4, <2>5, <2>6, <2>7 DEF BatchInv, TypeOK, Lone
<1>4. CASE QueueStep
  <2>1. /\ UNCHANGED <<verdict, stopped, reported, evidence, leased, bound,
                       at, todo, job, got, owner, begun, deaths, lost>>
        /\ UNCHANGED watching /\ Fresh
        /\ \A h \in Handles : queue[h] # "free" => queue'[h] # "free"
    BY <1>t, <1>4, QueueLeaves
  <2>2. RegistryTypeOK' /\ DispatchTypeOK'
    BY <1>t, <2>1 DEF RegistryTypeOK, DispatchTypeOK
  <2>3. WatchTypeOK'  BY <1>t, <2>1 DEF WatchTypeOK, watching
  <2>4. DispatchInv'
    BY <1>t, <2>1 DEF DispatchInv, ActorInv, HandInv, HeldInv, Exists, HandlesOf
  <2>5. ViewInv' /\ WatchInv'  BY <2>1, WatchFrame
  <2>6. Lone => OnceInv'  BY <2>1, OnceFrame
  <2>7. BudgetInv'  BY <2>2, BudgetStep
  <2> QED  BY <1>1, <2>2, <2>3, <2>4, <2>5, <2>6, <2>7 DEF BatchInv, TypeOK, Lone
<1> QED  BY <1>0, <1>2, <1>3, <1>4

\* A step of nobody keeps the invariant.
LEMMA StutterInv ==
    ASSUME BatchInv, UNCHANGED vars
    PROVE  BatchInv'
<1>1. UNCHANGED <<verdict, stopped, reported, evidence, leased, bound,
                  offered, stated, ended, costs, ends, announced, queue,
                  at, todo, job, got, owner, begun, deaths, lost,
                  look, view, rows, left, row, landed>>
  BY DEF vars, registry, stream, dispatching, watching
<1>2. TypeOK'
  BY <1>1 DEF BatchInv, TypeOK, RegistryTypeOK, StreamTypeOK, DispatchTypeOK, WatchTypeOK
<1>3. DispatchInv'
  BY <1>1 DEF BatchInv, DispatchInv, ActorInv, HandInv, HeldInv, Exists
<1>4. StreamInv' /\ ViewInv'
  BY <1>1 DEF BatchInv, StreamInv, ViewInv, Answered, Truthful, Kept, Spent, Exists, IsOver
<1>5. WatchInv'  BY <1>1 DEF BatchInv, WatchInv, Lands
<1>6. (Lone => OnceInv)'
  BY <1>1 DEF BatchInv, Lone, OnceInv, Owed, Behind, Spent
<1>7. BudgetInv' /\ StrayInv'
  BY <1>1 DEF BatchInv, BudgetInv, StrayInv, Strays, Stray, TakenFor, Asking, Token, Resuming, Exists
<1> QED  BY <1>2, <1>3, <1>4, <1>5, <1>6, <1>7 DEF BatchInv

\* The invariant holds in every reachable state.
LEMMA BatchAlways == Spec => []BatchInv
<1>1. Init => BatchInv  BY InitInv
<1>2. BatchInv /\ [Next]_vars => BatchInv'  BY StepInv, StutterInv
<1> QED  BY <1>1, <1>2, PTL DEF Spec

(***************************************************************************)
(* The theorems.                                                           *)
(***************************************************************************)

\* The registry's rows, the stream's lines and what every process of a batch
\* holds keep their types (batch/runner.py, batch/watch.py, settling/monitor).
THEOREM BatchType == Spec => []TypeOK
<1>1. BatchInv => TypeOK  BY DEF BatchInv
<1> QED  BY <1>1, BatchAlways, PTL

\* Batch.run, Monitor.held and Verdicts.__unheld together put a job in the
\* target's queue at most once for each run of its batch and each death, for
\* any number of processes and jobs.
THEOREM BatchDispatchedOnce == Spec => []DispatchedOnce
<1>1. BatchInv => DispatchedOnce
  <2> SUFFICES ASSUME BatchInv, NEW j \in Jobs
               PROVE  Cardinality(TakenFor(j)) <= begun + deaths
    BY DEF DispatchedOnce
  <2>1. /\ IsFiniteSet(TakenFor(j)) /\ IsFiniteSet(Asking(j))
        /\ Cardinality(TakenFor(j)) + Cardinality(Asking(j)) + Token(j) <= begun + deaths
        /\ begun \in Nat /\ deaths \in Nat
    BY DispatchAssumption DEF BatchInv, BudgetInv, TypeOK, DispatchTypeOK
  <2>2. Cardinality(TakenFor(j)) \in Nat /\ Cardinality(Asking(j)) \in Nat
    BY <2>1, FS_CardinalityType
  <2> QED  BY <2>1, <2>2, TokenIs
<1> QED  BY <1>1, BatchAlways, PTL

\* Board.dispatch records a handle right after the target gave it: a queued
\* job nobody recorded and nobody is about to record was answered for as a
\* refusal, or is a killed process's, one for each.
THEOREM BatchStrays == Spec => []StraysAreAccounted
<1>1. BatchInv => StraysAreAccounted  BY DEF BatchInv, StrayInv, Strays, StraysAreAccounted
<1> QED  BY <1>1, BatchAlways, PTL

\* Batch.held writes the placeholder before the line that says `held`, and
\* Settlement.resumed drops it after the run's own row is written: a job the
\* stream calls held is always in the registry, whoever is killed when.
THEOREM BatchHeldIsKept == Spec => []HeldIsKept
<1>1. BatchInv => HeldIsKept  BY DEF BatchInv, StreamInv, Kept, HeldIsKept
<1> QED  BY <1>1, BatchAlways, PTL

\* Watch.record publishes from rows read earlier, outside any lock, by any
\* number of watches; the registry agrees with every job.settled for ever.
THEOREM BatchSettledTrue == Spec => []SettledLineTrue
<1>1. BatchInv => SettledLineTrue
  <2> SUFFICES ASSUME BatchInv, NEW j \in Jobs, ended[j].handle # NoHandle
               PROVE  /\ Exists(ended[j].handle)
                      /\ IsSettled(ended[j].handle)
                      /\ verdict[ended[j].handle] = ended[j].verdict
    BY DEF SettledLineTrue
  <2>1. IsOver(ended[j])  BY DEF BatchInv, StreamInv, NoLine
  <2>2. verdict[ended[j].handle] = ended[j].verdict
    BY <2>1 DEF BatchInv, StreamInv, Truthful
  <2>3. NoRow \notin Settled  BY DEF NoRow, Settled, Words
  <2> QED  BY <2>1, <2>2, <2>3 DEF Exists, IsSettled, IsOver
<1> QED  BY <1>1, BatchAlways, PTL

\* The cursor Watch.record compares with names the run, not the job, and a
\* target gives a handle once: a lone watch ends a run once, whatever it is
\* killed in the middle of and whatever answers for the job meanwhile.
THEOREM BatchSettledOnce == Spec => []SettledLineOnce
<1>1. BatchInv => SettledLineOnce
  <2> SUFFICES ASSUME BatchInv, Lone, NEW j \in Jobs, NEW h \in Handles
               PROVE  ends[j][h] <= 1
    BY DEF SettledLineOnce, Lone
  <2>1. ends[j][h] = 0 \/ ends[j][h] = 1  BY DEF BatchInv, OnceInv
  <2> QED  BY <2>1
<1> QED  BY <1>1, BatchAlways, PTL

\* No step of anyone takes back what the others rely on: a recorded run stays
\* recorded, a settled one keeps its verdict, a handle is never given again
\* and a held job never leaves the registry.
THEOREM BatchRunsLast == Spec => [][RunsLast]_vars
<1>1. BatchInv /\ [Next]_vars => [RunsLast]_vars  BY RowsLast
<1> QED  BY <1>1, BatchAlways, PTL DEF Spec
===============================================================================
