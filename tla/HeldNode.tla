------------------------------- MODULE HeldNode -------------------------------
(***************************************************************************)
(* The node side of a kept line: the spool on the shared filesystem        *)
(* (dispatch/mirroring/spool.py) and the `host serve` loop that runs in    *)
(* each allocation (holding/serve.py).  The center side, in HeldCenter and *)
(* HeldKeeper, meets it only through the spool's files:                    *)
(*                                                                         *)
(*   inbox      the entries published (an entry stays once claimed)        *)
(*   claims[h]  who owns entry h: a generation, Fenced, or Free            *)
(*   tomb       the tombstoned entries                                     *)
(*   exits[h]   the exit artifact                                          *)
(*   stop       the marker of a released line                              *)
(*   line       which line the spool serves, 0 before the first            *)
(*   lapsed     the lines whose deadline has passed                        *)
(*                                                                         *)
(* and, of each generation g of allocations,                               *)
(*                                                                         *)
(*   pbs[g]     what PBS says of the allocation                            *)
(*   srv[g]     where its server stands, cur[g] the entry at hand          *)
(*   serves[g]  the line it was started for                                *)
(*   beats[g]   the job its beat names as running                          *)
(*   starts[h]  how often job h was started                                *)
(*                                                                         *)
(* Every file appears by link(2) or rename(2): one step each.              *)
(***************************************************************************)
EXTENDS Naturals, FiniteSets

CONSTANTS
    Entries,    \* submissions, by their handle
    Gens,       \* generations of allocations
    MaxLines,   \* how often a line is opened
    Faults,     \* whether PBS may end an allocation on its own
    None

ASSUME NodeAssumption ==
    /\ IsFiniteSet(Gens) /\ Gens = 1..Cardinality(Gens)
    /\ MaxLines \in Nat
    /\ Faults \in BOOLEAN
    /\ None \notin Entries

VARIABLES inbox, claims, tomb, exits, stop, line, lapsed,
          pbs, srv, cur, serves, beats, starts

spool == <<inbox, claims, tomb, exits, stop, line, lapsed>>
node == <<pbs, srv, cur, serves, beats, starts>>

\* Owners of a claim that are no generation.
Free == 0
Fenced == Cardinality(Gens) + 1
NoExit == "no exit"
Exits == {"ok", "failed", "terminated"}
LineNumbers == 0..MaxLines
Twice == 2      \* how far starts are counted

NodeTypeOK ==
    /\ inbox \subseteq Entries /\ tomb \subseteq Entries
    /\ claims \in [Entries -> Gens \cup {Free, Fenced}]
    /\ exits \in [Entries -> Exits \cup {NoExit}]
    /\ stop \in BOOLEAN
    /\ line \in LineNumbers /\ lapsed \subseteq LineNumbers
    /\ pbs \in [Gens -> {"none", "live", "over", "forgotten"}]
    /\ srv \in [Gens -> {"off", "look", "pick", "claim", "claimed", "check",
                         "start", "run", "term", "record", "end"}]
    /\ cur \in [Gens -> Entries \cup {None}]
    /\ serves \in [Gens -> LineNumbers]
    /\ beats \in [Gens -> Entries \cup {None}]
    /\ starts \in [Entries -> 0..Twice]

NodeInit ==
    /\ inbox = {} /\ tomb = {}
    /\ claims = [h \in Entries |-> Free]
    /\ exits = [h \in Entries |-> NoExit]
    /\ stop = FALSE
    /\ line = 0 /\ lapsed = {}
    /\ pbs = [g \in Gens |-> "none"]
    /\ srv = [g \in Gens |-> "off"]
    /\ cur = [g \in Gens |-> None]
    /\ serves = [g \in Gens |-> 0]
    /\ beats = [g \in Gens |-> None]
    /\ starts = [h \in Entries |-> 0]

\* Spool.queued: entries nobody has claimed or cancelled.
Queued == {h \in inbox : claims[h] = Free /\ h \notin tomb}
\* A process of job h exists.
Running(h) == \E g \in Gens : srv[g] \in {"run", "term"} /\ cur[g] = h

To(g, from, point) == srv[g] = from /\ srv' = [srv EXCEPT ![g] = point]
Write(h, code) == exits' = [exits EXCEPT ![h] = IF @ = NoExit THEN code ELSE @]

\* The allocation PBS granted starts `host serve`, which reads line.json.
Serve(g) ==
    /\ pbs[g] = "none"
    /\ pbs' = [pbs EXCEPT ![g] = "live"]
    /\ To(g, "off", "look")
    /\ serves' = [serves EXCEPT ![g] = line]
    /\ UNCHANGED <<spool, cur, beats, starts>>

\* Server.finished: released, or too little time left.
Finished(g) == stop \/ serves[g] \in lapsed
LookOn(g) ==
    /\ ~Finished(g) /\ To(g, "look", "pick")
    /\ UNCHANGED <<spool, pbs, cur, serves, beats, starts>>
LookOut(g) ==
    /\ Finished(g) /\ To(g, "look", "end")
    /\ UNCHANGED <<spool, pbs, cur, serves, beats, starts>>

\* Server.next: a queued job that fits the time left, if any does.
Pick(g) ==
    /\ \E h \in Queued :
        To(g, "pick", "claim") /\ cur' = [cur EXCEPT ![g] = h]
    /\ UNCHANGED <<spool, pbs, serves, beats, starts>>
NoneFits(g) ==
    /\ To(g, "pick", "look")
    /\ beats' = [beats EXCEPT ![g] = None]
    /\ UNCHANGED <<spool, pbs, cur, serves, starts>>

TakeAnyway(g) ==                    \* mutant: an existing claim is replaced
    /\ To(g, "claim", "claimed")
    /\ claims' = [claims EXCEPT ![cur[g]] = g]
    /\ UNCHANGED <<inbox, tomb, exits, stop, line, lapsed>>
    /\ UNCHANGED <<pbs, cur, serves, beats, starts>>

\* Spool.claim: link(2) has exactly one winner.
Claim(g) ==
    /\ srv[g] = "claim"
    /\ IF claims[cur[g]] = Free
       THEN /\ To(g, "claim", "claimed")
            /\ claims' = [claims EXCEPT ![cur[g]] = g]
            /\ UNCHANGED cur
       ELSE /\ To(g, "claim", "look")
            /\ cur' = [cur EXCEPT ![g] = None]
            /\ UNCHANGED claims
    /\ UNCHANGED <<inbox, tomb, exits, stop, line, lapsed>>
    /\ UNCHANGED <<pbs, serves, beats, starts>>

LateBeat(g) ==                      \* mutant: the beat is not forced
    /\ To(g, "claimed", "check")
    /\ UNCHANGED <<spool, pbs, cur, serves, beats, starts>>

\* The forced beat of Server.work.
BeatRunning(g) ==
    /\ To(g, "claimed", "check")
    /\ beats' = [beats EXCEPT ![g] = cur[g]]
    /\ UNCHANGED <<spool, pbs, cur, serves, starts>>

\* Tombstoned between its queueing and its claim: recorded, never started.
CheckTomb(g) ==
    /\ To(g, "check", IF cur[g] \in tomb THEN "record" ELSE "start")
    /\ UNCHANGED <<spool, pbs, cur, serves, beats, starts>>

\* Server.execute, from Popen to the end of the process.
Start(g) ==
    /\ To(g, "start", "run")
    /\ starts' = [starts EXCEPT ![cur[g]] = IF @ < Twice THEN @ + 1 ELSE @]
    /\ UNCHANGED <<spool, pbs, cur, serves, beats>>

Terminate(g) ==
    /\ cur[g] \in tomb \/ serves[g] \in lapsed
    /\ To(g, "run", "term")
    /\ UNCHANGED <<spool, pbs, cur, serves, beats, starts>>

\* The runner writes its artifact and the process ends; a script that could
\* not start, or one killed outright, leaves none.
ProcessEnds(g) ==
    /\ srv[g] \in {"run", "term"}
    /\ To(g, srv[g], "record")
    /\ \/ \E code \in Exits : Write(cur[g], code)
       \/ UNCHANGED exits
    /\ UNCHANGED <<inbox, claims, tomb, stop, line, lapsed>>
    /\ UNCHANGED <<pbs, cur, serves, beats, starts>>

\* Server.record: an artifact in any case.
RecordExit(g) ==
    /\ To(g, "record", "look")
    /\ \E code \in {"failed", "terminated"} : Write(cur[g], code)
    /\ cur' = [cur EXCEPT ![g] = None]
    /\ UNCHANGED <<inbox, claims, tomb, stop, line, lapsed>>
    /\ UNCHANGED <<pbs, serves, beats, starts>>

\* Server.end, and the allocation with it.
End(g) ==
    /\ To(g, "end", "off")
    /\ pbs' = [pbs EXCEPT ![g] = "over"]
    /\ beats' = [beats EXCEPT ![g] = None]
    /\ UNCHANGED <<spool, cur, serves, starts>>

\* The allocation and everything in it dies: a node fault, or a qdel.
Killed(g) ==
    /\ pbs[g] = "live"
    /\ pbs' = [pbs EXCEPT ![g] = "over"]
    /\ srv' = [srv EXCEPT ![g] = "off"]
    /\ cur' = [cur EXCEPT ![g] = None]
    /\ UNCHANGED <<spool, serves, beats, starts>>

Faulted(g) == Faults /\ Killed(g)

\* What `qstat -H` still tells of an allocation that ended goes some day.
Forgets(g) ==
    /\ pbs[g] = "over"
    /\ pbs' = [pbs EXCEPT ![g] = "forgotten"]
    /\ UNCHANGED <<spool, srv, cur, serves, beats, starts>>

\* A line's deadline passes.  A server looks at the clock every second, so
\* one that has seen time left has claimed, or found nothing, by the grace.
DeadlinePasses ==
    /\ line > 0 /\ line \notin lapsed
    /\ \A g \in Gens : srv[g] \notin {"pick", "claim"}
    /\ lapsed' = lapsed \cup {line}
    /\ UNCHANGED <<inbox, claims, tomb, exits, stop, line, node>>

ServerActs(g) ==
    \/ LookOn(g) \/ LookOut(g) \/ Pick(g) \/ NoneFits(g) \/ Claim(g)
    \/ BeatRunning(g) \/ CheckTomb(g) \/ Start(g) \/ Terminate(g)
    \/ ProcessEnds(g) \/ RecordExit(g) \/ End(g)
==============================================================================
