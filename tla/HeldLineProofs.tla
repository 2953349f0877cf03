---------------------------- MODULE HeldLineProofs ----------------------------
(***************************************************************************)
(* What the held line promises, for any number of entries, generations,    *)
(* lines, passes and cancellers: an entry is started at most once, a       *)
(* cancel answers only for a job that is over, a release spares jobs, and  *)
(* an older keeper stops.                                                  *)
(***************************************************************************)
EXTENDS HeldLine, FiniteSetTheorems, TLAPS

\* Where a server stands that owns the entry at hand.
Owning == {"claimed", "check", "start", "run", "term", "record"}

(***************************************************************************)
(* The claim: the file link(2) made names the one server that may start    *)
(* the entry, and it starts it from `start` alone.                         *)
(***************************************************************************)
ServerInv ==
    \A g \in Gens :
        /\ srv[g] # "off" => pbs[g] = "live"
        /\ srv[g] = "claim" => cur[g] \in Entries
        /\ srv[g] \in Owning => cur[g] \in Entries /\ claims[cur[g]] = g
        /\ srv[g] \notin Owning \cup {"claim"} => cur[g] = None
        /\ srv[g] \in {"claimed", "check", "start"} => starts[cur[g]] = 0
        /\ srv[g] \in {"check", "start", "run", "term", "record"} => beats[g] = cur[g]

\* The job of h is over, and no server will start it.
Over(h) ==
    /\ claims[h] # Free
    /\ \A g \in Gens : cur[g] = h => srv[g] \in {"claim", "record"}

EntryInv ==
    \A h \in Entries :
        /\ starts[h] <= 1
        /\ claims[h] \in {Free, Fenced} => starts[h] = 0
        /\ exits[h] # NoExit => Over(h)
        /\ h \in answered => Over(h)

(***************************************************************************)
(* The center: a canceller polls only an entry that is claimed, so what it *)
(* read of the claim is final; a write is tried twice at most.             *)
(***************************************************************************)
CallerInv ==
    \A c \in Callers :
        /\ ask[c] # "idle" => on[c] \in Entries
        /\ ask[c] \in {"tomb", "fence"} => c \in Cancellers
        /\ c \in Cancellers /\ ask[c] \in {"facts", "judge"} => claims[on[c]] # Free
        /\ c \in Cancellers /\ ask[c] = "judge" => facts[c].claim = claims[on[c]]
        /\ ask[c] = "judge" /\ facts[c].exit # NoExit => exits[on[c]] # NoExit

SubmitInv ==
    \A h \in Entries :
        /\ sub[h] = "fresh" => tries[h] = 0
        /\ sub[h] = "put" => tries[h] < 2

(***************************************************************************)
(* The keepers: a token is never older than a keeper that runs, and a      *)
(* release that saw what there was to see dooms an allocation whose server *)
(* has found the line stopped.                                             *)
(***************************************************************************)
KeepersInv ==
    /\ token <= line
    /\ opening = "line" => line < MaxLines
    /\ opening \in {"token", "unstop", "start"} => line > 0
    /\ opening \in {"unstop", "start"} => token = line
    /\ \A k \in Keepers :
        /\ keep[k] # "off" => k <= token
        /\ keep[k] \in {"mkdir", "ask", "qsub"} => gen[k] \in Gens

DoomedInv ==
    stopping = "qdel" =>
        /\ doomed \in Gens
        /\ stop /\ ~hasty => srv[doomed] \in {"off", "look", "end"}

HeldInv ==
    /\ TypeOK
    /\ ServerInv /\ EntryInv
    /\ CallerInv /\ SubmitInv
    /\ KeepersInv /\ DoomedInv

\* A set of numbers below a bound that has a member has a greatest one.
LEMMA GreatestExists ==
    ASSUME NEW n \in Nat, NEW S \in SUBSET (1..n), S # {}
    PROVE  Max(S) \in S /\ \A g \in S : g <= Max(S)
<1> DEFINE T == {n - g : g \in S}
<1>1. T \subseteq Nat
  <2>1. \A g \in S : g \in 1..n  OBVIOUS
  <2> QED  BY <2>1
<1>2. T # {}  OBVIOUS
<1>3. PICK m \in T : \A t \in T : ~(<<t, m>> \in OpToRel(<, Nat))
  BY <1>1, <1>2, WFMin, NatLessThanWellFounded
<1>4. \A t \in T : ~(t < m)
  BY <1>1, <1>3 DEF OpToRel
<1>5. PICK x \in S : m = n - x  BY <1>3
<1>6. \A g \in S : x >= g
  BY <1>4, <1>5
<1> QED  BY <1>6 DEF Max

\* The generations' number, and the owners of a claim that are none of them.
LEMMA OwnersApart ==
    /\ Cardinality(Gens) \in Nat
    /\ Gens \subseteq Nat
    /\ Free \notin Gens /\ Fenced \notin Gens /\ Free # Fenced /\ 0 \notin Gens
<1>1. Cardinality(Gens) \in Nat  BY NodeAssumption, FS_CardinalityType
<1>2. Gens = 1..Cardinality(Gens)  BY NodeAssumption
<1> QED  BY <1>1, <1>2 DEF Free, Fenced

\* LineStatus names a generation, or none; the newest has a number.
LEMMA NewestIsANumber ==
    ASSUME dirs \subseteq Gens
    PROVE  /\ Newest \in Nat
           /\ AllocOf \in Gens \cup {0}
           /\ AllocOf # 0 => pbs[AllocOf] = "live"
<1>1. CASE dirs = {}  BY <1>1 DEF Newest, AllocOf
<1>2. CASE dirs # {}
  <2>1. Cardinality(Gens) \in Nat /\ dirs \in SUBSET (1..Cardinality(Gens))
    BY OwnersApart, NodeAssumption
  <2>2. Max(dirs) \in dirs  BY <1>2, <2>1, GreatestExists
  <2> QED  BY <1>2, <2>2, OwnersApart DEF Newest, AllocOf
<1> QED  BY <1>1, <1>2

\* What Held.states makes of the facts is one of its words, and one that ends
\* the wait comes from an exit, a fence, an allocation that is over, or an
\* entry nobody claimed.
LEMMA JudgedWord ==
    ASSUME NEW f, NEW ended
    PROVE  /\ Judged(f, ended) \in {"ok", "failed", "cancelled", "vanished", "running"}
           /\ Judged(f, ended) # "running" =>
                f.exit # NoExit \/ f.claim = Fenced \/ f.claim \in ended
                                \/ f.claim \notin Gens \cup {Fenced}
  BY DEF Judged

\* Every step keeps the spool and the allocations well formed.
LEMMA NodeTyped ==
    ASSUME HeldInv, Next
    PROVE  NodeTypeOK'
<1> DEFINE Goal == NodeTypeOK'
<1> SUFFICES Goal  OBVIOUS
<1> DEFINE Needed ==
        /\ NodeTypeOK
        /\ \A c \in Callers : ask[c] # "idle" => on[c] \in Entries
        /\ opening = "line" => line < MaxLines
        /\ left \subseteq Entries
        /\ \A g \in Gens : srv[g] \in Owning \cup {"claim"} => cur[g] \in Entries
<1>0. Needed  BY DEF HeldInv, TypeOK, CenterTypeOK, KeeperTypeOK, CallerInv, KeepersInv, ServerInv
<1> USE <1>0, NodeAssumption DEF Owning, NodeTypeOK, Exits, LineNumbers, Twice, spool, node
<1>1. ASSUME NEW h \in Entries, Admit(h), UNCHANGED keeping  PROVE Goal
  BY <1>1 DEF Admit, LineOver
<1>2. ASSUME NEW h \in Entries, Put(h), UNCHANGED keeping  PROVE Goal
  BY <1>2 DEF Put, Publish
<1>3. ASSUME NEW h \in Entries, Lands(h), UNCHANGED keeping  PROVE Goal
  BY <1>3 DEF Lands, Publish
<1>4. ASSUME NEW h \in Entries, Confirm(h), UNCHANGED keeping  PROVE Goal
  BY <1>4 DEF Confirm
<1>5. ASSUME NEW h \in Entries, FactsLost(h), UNCHANGED keeping  PROVE Goal
  BY <1>5 DEF FactsLost
<1>6. ASSUME NEW h \in Entries, NEW loss \in Losses, PutUnanswered(h, loss), UNCHANGED keeping
      PROVE  Goal
  BY <1>6 DEF PutUnanswered, Publish
<1>7. ASSUME NEW c \in Callers, AskStates(c), UNCHANGED keeping  PROVE Goal
  BY <1>7 DEF AskStates
<1>8. ASSUME NEW c \in Callers, ReadFacts(c), UNCHANGED keeping  PROVE Goal
  BY <1>8 DEF ReadFacts, LineOver
<1>9. ASSUME NEW c \in Callers, JudgeState(c), UNCHANGED keeping  PROVE Goal
  BY <1>9 DEF JudgeState, Back
<1>10. ASSUME NEW c \in Callers, AskCancel(c), UNCHANGED keeping  PROVE Goal
  <2>1. PICK h \in Entries :
               IF exits[h] # NoExit
               THEN answered' = answered \cup {h} /\ UNCHANGED <<ask, on>>
               ELSE /\ on' = [on EXCEPT ![c] = h]
                    /\ ask' = [ask EXCEPT ![c] = "tomb"]
                    /\ UNCHANGED answered
    BY <1>10 DEF AskCancel
  <2>2. CASE exits[h] # NoExit  BY <1>10, <2>1, <2>2 DEF AskCancel
  <2>3. CASE exits[h] = NoExit  BY <1>10, <2>1, <2>3 DEF AskCancel
  <2> QED  BY <2>2, <2>3
<1>11. ASSUME NEW c \in Callers, SetTomb(c), UNCHANGED keeping  PROVE Goal
  BY <1>11 DEF SetTomb
<1>12. ASSUME NEW c \in Callers, FenceEntry(c), UNCHANGED keeping  PROVE Goal
  <2>1. CASE claims[on[c]] = Free
    <3>1. /\ ask[c] = "fence" /\ claims' = [claims EXCEPT ![on[c]] = Fenced]
          /\ answered' = answered \cup {on[c]} /\ Back(c)
      BY <1>12, <2>1 DEF FenceEntry
    <3> QED  BY <1>12, <3>1 DEF FenceEntry, Back
  <2>2. CASE claims[on[c]] # Free  BY <1>12, <2>2 DEF FenceEntry
  <2> QED  BY <2>1, <2>2
<1>13. ASSUME NEW c \in Callers, PollCancel(c), UNCHANGED keeping  PROVE Goal
  <2>1. CASE Judged(facts[c], Ended) # "running"
    <3>1. ask[c] = "judge" /\ answered' = answered \cup {on[c]} /\ Back(c)
      BY <1>13, <2>1 DEF PollCancel
    <3> QED  BY <1>13, <2>1, <3>1 DEF PollCancel, Back
  <2>2. CASE Judged(facts[c], Ended) = "running"  BY <1>13, <2>2 DEF PollCancel
  <2> QED  BY <2>1, <2>2
<1>14. ASSUME NEW c \in Callers, CancelTimesOut(c), UNCHANGED keeping  PROVE Goal
  BY <1>14 DEF CancelTimesOut, Back
<1>15. ASSUME OpenLine, UNCHANGED center  PROVE Goal
  BY <1>15 DEF OpenLine, Opens
<1>16. ASSUME WriteLine, UNCHANGED center  PROVE Goal
  BY <1>16 DEF WriteLine, Opens
<1>17. ASSUME WriteToken, UNCHANGED center  PROVE Goal
  BY <1>17 DEF WriteToken, Opens
<1>18. ASSUME Unstop, UNCHANGED center  PROVE Goal
  BY <1>18 DEF Unstop, Opens
<1>19. ASSUME StartKeeper, UNCHANGED center  PROVE Goal
  BY <1>19 DEF StartKeeper, Opens
<1>20. ASSUME StopLine, UNCHANGED center  PROVE Goal
  BY <1>20 DEF StopLine, Stops
<1>21. ASSUME StopFences, UNCHANGED center  PROVE Goal
  <2>1. PICK h \in left : /\ left' = left \ {h}
                         /\ IF claims[h] = Free
                            THEN /\ claims' = [claims EXCEPT ![h] = Fenced]
                                 /\ tomb' = tomb \cup {h}
                            ELSE UNCHANGED <<claims, tomb>>
    BY <1>21 DEF StopFences
  <2>2. /\ Stops("fence", "fence")
        /\ UNCHANGED <<doomed, hasty, inbox, exits, stop, line, lapsed, node, keepers>>
    BY <1>21 DEF StopFences
  <2>3. CASE claims[h] = Free
    <3>1. claims' = [claims EXCEPT ![h] = Fenced] /\ tomb' = tomb \cup {h}
      BY <2>1, <2>3
    <3> QED  BY <1>21, <2>1, <2>2, <3>1 DEF Stops
  <2>4. CASE claims[h] # Free
    <3>1. UNCHANGED <<claims, tomb>>  BY <2>1, <2>4
    <3> QED  BY <1>21, <2>1, <2>2, <3>1 DEF Stops
  <2> QED  BY <2>3, <2>4
<1>22. ASSUME StopFenced, UNCHANGED center  PROVE Goal
  BY <1>22 DEF StopFenced, Stops
<1>23. ASSUME StopWatched, UNCHANGED center  PROVE Goal
  BY <1>23 DEF StopWatched, Stops
<1>24. ASSUME Qdel, UNCHANGED center  PROVE Goal
  <2>1. CASE pbs[doomed] = "live"  BY <1>24, <2>1 DEF Qdel, Stops, Killed
  <2>2. CASE pbs[doomed] # "live"  BY <1>24, <2>2 DEF Qdel, Stops
  <2> QED  BY <2>1, <2>2
<1>25. ASSUME NEW k \in Keepers, KeeperLoops(k), UNCHANGED center  PROVE Goal
  BY <1>25 DEF KeeperLoops, Keep
<1>26. ASSUME NEW k \in Keepers, MakeGen(k), UNCHANGED center  PROVE Goal
  <2>1. CASE gen[k] \in dirs
    <3>1. Keep(k, "mkdir", "loop") /\ gen' = [gen EXCEPT ![k] = @ + 1] /\ UNCHANGED dirs
      BY <1>26, <2>1 DEF MakeGen
    <3> QED  BY <1>26, <3>1 DEF MakeGen, Keep
  <2>2. CASE gen[k] \notin dirs  BY <1>26, <2>2 DEF MakeGen, Keep
  <2> QED  BY <2>1, <2>2
<1>27. ASSUME NEW k \in Keepers, Granted(k), UNCHANGED center  PROVE Goal
  BY <1>27 DEF Granted, Keep, Serve, To
<1>28. ASSUME NEW k \in Keepers, QsubRefused(k), UNCHANGED center  PROVE Goal
  BY <1>28 DEF QsubRefused, Keep
<1>29. ASSUME NEW k \in Keepers, QsubReturns(k), UNCHANGED center  PROVE Goal
  BY <1>29 DEF QsubReturns, Keep
<1>30. ASSUME NEW k \in Keepers, KeeperDies(k), UNCHANGED center  PROVE Goal
  <2>1. CASE keep[k] = "qsub" /\ pbs[gen[k]] = "live"  BY <1>30, <2>1 DEF KeeperDies, Killed
  <2>2. CASE ~(keep[k] = "qsub" /\ pbs[gen[k]] = "live")  BY <1>30, <2>2 DEF KeeperDies
  <2> QED  BY <2>1, <2>2
<1>31. ASSUME DeadlinePasses, UNCHANGED <<center, keeping>>  PROVE Goal
  BY <1>31 DEF DeadlinePasses
<1>32. ASSUME NEW g \in Gens, LookOn(g), UNCHANGED <<center, keeping>>  PROVE Goal
  BY <1>32 DEF LookOn, To
<1>33. ASSUME NEW g \in Gens, LookOut(g), UNCHANGED <<center, keeping>>  PROVE Goal
  BY <1>33 DEF LookOut, To
<1>34. ASSUME NEW g \in Gens, Pick(g), UNCHANGED <<center, keeping>>  PROVE Goal
  BY <1>34 DEF Pick, To, Queued
<1>35. ASSUME NEW g \in Gens, NoneFits(g), UNCHANGED <<center, keeping>>  PROVE Goal
  BY <1>35 DEF NoneFits, To
<1>36. ASSUME NEW g \in Gens, Claim(g), UNCHANGED <<center, keeping>>  PROVE Goal
  <2>1. CASE claims[cur[g]] = Free
    <3>1. /\ To(g, "claim", "claimed")
          /\ claims' = [claims EXCEPT ![cur[g]] = g] /\ UNCHANGED cur
      BY <1>36, <2>1 DEF Claim
    <3> QED  BY <1>36, <2>1, <3>1 DEF Claim, To
  <2>2. CASE claims[cur[g]] # Free
    <3>1. /\ To(g, "claim", "look")
          /\ cur' = [cur EXCEPT ![g] = None] /\ UNCHANGED claims
      BY <1>36, <2>2 DEF Claim
    <3> QED  BY <1>36, <2>2, <3>1 DEF Claim, To
  <2> QED  BY <2>1, <2>2
<1>37. ASSUME NEW g \in Gens, BeatRunning(g), UNCHANGED <<center, keeping>>
      PROVE  Goal
  BY <1>37 DEF BeatRunning, To
<1>38. ASSUME NEW g \in Gens, CheckTomb(g), UNCHANGED <<center, keeping>>
      PROVE  Goal
  BY <1>38 DEF CheckTomb, To
<1>39. ASSUME NEW g \in Gens, Start(g), UNCHANGED <<center, keeping>>  PROVE Goal
  BY <1>39 DEF Start, To
<1>40. ASSUME NEW g \in Gens, Terminate(g), UNCHANGED <<center, keeping>>
      PROVE  Goal
  BY <1>40 DEF Terminate, To
<1>41. ASSUME NEW g \in Gens, ProcessEnds(g), UNCHANGED <<center, keeping>>
      PROVE  Goal
  <2>1. CASE UNCHANGED exits  BY <1>41, <2>1 DEF ProcessEnds, To
  <2>2. CASE \E code \in Exits : Write(cur[g], code)  BY <1>41, <2>2 DEF ProcessEnds, To, Write
  <2> QED  BY <1>41, <2>1, <2>2 DEF ProcessEnds
<1>42. ASSUME NEW g \in Gens, RecordExit(g), UNCHANGED <<center, keeping>>
      PROVE  Goal
  BY <1>42 DEF RecordExit, To, Write
<1>43. ASSUME NEW g \in Gens, End(g), UNCHANGED <<center, keeping>>  PROVE Goal
  BY <1>43 DEF End, To
<1>44. ASSUME NEW g \in Gens, Faulted(g), UNCHANGED <<center, keeping>>  PROVE Goal
  BY <1>44 DEF Faulted, Killed
<1>45. ASSUME NEW h \in Entries, FactsRefused(h), UNCHANGED keeping  PROVE Goal
  BY <1>45 DEF FactsRefused
<1>46. ASSUME StopTimesOut, UNCHANGED center  PROVE Goal
  BY <1>46 DEF StopTimesOut, Stops
<1>47. ASSUME NEW g \in Gens, Forgets(g), UNCHANGED <<center, keeping>>  PROVE Goal
  BY <1>47 DEF Forgets
<1> HIDE DEF Goal
<1> QED
  BY <1>1, <1>2, <1>3, <1>4, <1>5, <1>6, <1>7, <1>8, <1>9, <1>10, <1>11,
     <1>12, <1>13, <1>14, <1>15, <1>16, <1>17, <1>18, <1>19, <1>20, <1>21,
     <1>22, <1>23, <1>24, <1>25, <1>26, <1>27, <1>28, <1>29, <1>30, <1>31,
     <1>32, <1>33, <1>34, <1>35, <1>36, <1>37, <1>38, <1>39, <1>40, <1>41,
     <1>42, <1>43, <1>44, <1>45, <1>46, <1>47
  DEF Next, CenterStep, Enqueues, CallerActs, LineStep, LineActs, KeeperActs, NodeStep, ServerActs

\* The center's calls keep its state well formed.
LEMMA CenterTyped ==
    ASSUME HeldInv, CenterStep
    PROVE  CenterTypeOK'
<1> DEFINE Goal == CenterTypeOK'
<1> SUFFICES Goal  OBVIOUS
<1> DEFINE Needed ==
        /\ CenterTypeOK /\ SubmitInv
        /\ claims \in [Entries -> Gens \cup {Free, Fenced}]
        /\ exits \in [Entries -> Exits \cup {NoExit}]
        /\ \A c \in Callers : ask[c] # "idle" => on[c] \in Entries
<1>0. Needed  BY DEF HeldInv, TypeOK, NodeTypeOK, CallerInv
<1> USE <1>0 DEF CenterTypeOK, SubmitInv, submitting, asking, NoFacts, NotSaid
<1>1. ASSUME NEW h \in Entries, Admit(h), UNCHANGED keeping  PROVE Goal
  BY <1>1 DEF Admit, LineOver
<1>2. ASSUME NEW h \in Entries, Put(h), UNCHANGED keeping  PROVE Goal
  BY <1>2 DEF Put, Publish
<1>3. ASSUME NEW h \in Entries, Lands(h), UNCHANGED keeping  PROVE Goal
  BY <1>3 DEF Lands, Publish
<1>4. ASSUME NEW h \in Entries, Confirm(h), UNCHANGED keeping  PROVE Goal
  BY <1>4 DEF Confirm
<1>5. ASSUME NEW h \in Entries, FactsLost(h), UNCHANGED keeping  PROVE Goal
  BY <1>5 DEF FactsLost
<1>6. ASSUME NEW h \in Entries, NEW loss \in Losses, PutUnanswered(h, loss), UNCHANGED keeping
      PROVE  Goal
  BY <1>6 DEF PutUnanswered, Publish
<1>7. ASSUME NEW c \in Callers, AskStates(c), UNCHANGED keeping  PROVE Goal
  BY <1>7 DEF AskStates
<1>8. ASSUME NEW c \in Callers, ReadFacts(c), UNCHANGED keeping  PROVE Goal
  BY <1>8 DEF ReadFacts, LineOver
<1>9. ASSUME NEW c \in Callers, JudgeState(c), UNCHANGED keeping  PROVE Goal
  BY <1>9, JudgedWord DEF JudgeState, Back
<1>10. ASSUME NEW c \in Callers, AskCancel(c), UNCHANGED keeping  PROVE Goal
  <2>1. PICK h \in Entries :
               IF exits[h] # NoExit
               THEN answered' = answered \cup {h} /\ UNCHANGED <<ask, on>>
               ELSE /\ on' = [on EXCEPT ![c] = h]
                    /\ ask' = [ask EXCEPT ![c] = "tomb"]
                    /\ UNCHANGED answered
    BY <1>10 DEF AskCancel
  <2>2. CASE exits[h] # NoExit  BY <1>10, <2>1, <2>2 DEF AskCancel
  <2>3. CASE exits[h] = NoExit  BY <1>10, <2>1, <2>3 DEF AskCancel
  <2> QED  BY <2>2, <2>3
<1>11. ASSUME NEW c \in Callers, SetTomb(c), UNCHANGED keeping  PROVE Goal
  BY <1>11 DEF SetTomb
<1>12. ASSUME NEW c \in Callers, FenceEntry(c), UNCHANGED keeping  PROVE Goal
  <2>1. CASE claims[on[c]] = Free
    <3>1. /\ ask[c] = "fence" /\ claims' = [claims EXCEPT ![on[c]] = Fenced]
          /\ answered' = answered \cup {on[c]} /\ Back(c)
      BY <1>12, <2>1 DEF FenceEntry
    <3> QED  BY <1>12, <3>1 DEF FenceEntry, Back
  <2>2. CASE claims[on[c]] # Free  BY <1>12, <2>2 DEF FenceEntry
  <2> QED  BY <2>1, <2>2
<1>13. ASSUME NEW c \in Callers, PollCancel(c), UNCHANGED keeping  PROVE Goal
  <2>1. CASE Judged(facts[c], Ended) # "running"
    <3>1. ask[c] = "judge" /\ answered' = answered \cup {on[c]} /\ Back(c)
      BY <1>13, <2>1 DEF PollCancel
    <3> QED  BY <1>13, <2>1, <3>1 DEF PollCancel, Back
  <2>2. CASE Judged(facts[c], Ended) = "running"  BY <1>13, <2>2 DEF PollCancel
  <2> QED  BY <2>1, <2>2
<1>14. ASSUME NEW c \in Callers, CancelTimesOut(c), UNCHANGED keeping  PROVE Goal
  BY <1>14 DEF CancelTimesOut, Back
<1>15. ASSUME NEW h \in Entries, FactsRefused(h), UNCHANGED keeping  PROVE Goal
  BY <1>15 DEF FactsRefused
<1> HIDE DEF Goal
<1> QED
  BY <1>1, <1>2, <1>3, <1>4, <1>5, <1>6, <1>7, <1>8, <1>9, <1>10, <1>11,
     <1>12, <1>13, <1>14, <1>15
  DEF CenterStep, Enqueues, CallerActs

\* The line and its keepers keep their state well formed.
LEMMA KeeperTyped ==
    ASSUME HeldInv, LineStep
    PROVE  KeeperTypeOK'
<1> DEFINE Goal == KeeperTypeOK'
<1> SUFFICES Goal  OBVIOUS
<1> DEFINE Needed ==
        /\ KeeperTypeOK /\ KeepersInv
        /\ line \in LineNumbers /\ inbox \subseteq Entries
<1>0. Needed  BY DEF HeldInv, TypeOK, NodeTypeOK
<1> USE <1>0, OwnersApart
        DEF KeeperTypeOK, KeepersInv, LineNumbers, Keepers, keepers, holding
<1>1. ASSUME OpenLine, UNCHANGED center  PROVE Goal
  BY <1>1 DEF OpenLine, Opens
<1>2. ASSUME WriteLine, UNCHANGED center  PROVE Goal
  BY <1>2 DEF WriteLine, Opens
<1>3. ASSUME WriteToken, UNCHANGED center  PROVE Goal
  BY <1>3 DEF WriteToken, Opens
<1>4. ASSUME Unstop, UNCHANGED center  PROVE Goal
  BY <1>4 DEF Unstop, Opens
<1>5. ASSUME StartKeeper, UNCHANGED center  PROVE Goal
  BY <1>5, NewestIsANumber DEF StartKeeper, Opens
<1>6. ASSUME StopLine, UNCHANGED center  PROVE Goal
  BY <1>6 DEF StopLine, Stops
<1>7. ASSUME StopFences, UNCHANGED center  PROVE Goal
  <2>1. PICK h \in left : /\ left' = left \ {h}
                         /\ IF claims[h] = Free
                            THEN /\ claims' = [claims EXCEPT ![h] = Fenced]
                                 /\ tomb' = tomb \cup {h}
                            ELSE UNCHANGED <<claims, tomb>>
    BY <1>7 DEF StopFences
  <2>2. /\ Stops("fence", "fence")
        /\ UNCHANGED <<doomed, hasty, inbox, exits, stop, line, lapsed, node, keepers>>
    BY <1>7 DEF StopFences
  <2>3. CASE claims[h] = Free
    <3>1. claims' = [claims EXCEPT ![h] = Fenced] /\ tomb' = tomb \cup {h}
      BY <2>1, <2>3
    <3> QED  BY <1>7, <2>1, <2>2, <3>1 DEF Stops
  <2>4. CASE claims[h] # Free
    <3>1. UNCHANGED <<claims, tomb>>  BY <2>1, <2>4
    <3> QED  BY <1>7, <2>1, <2>2, <3>1 DEF Stops
  <2> QED  BY <2>3, <2>4
<1>8. ASSUME StopFenced, UNCHANGED center  PROVE Goal
  BY <1>8 DEF StopFenced, Stops
<1>9. ASSUME StopWatched, UNCHANGED center  PROVE Goal
  BY <1>9, NewestIsANumber DEF StopWatched, Stops
<1>10. ASSUME Qdel, UNCHANGED center  PROVE Goal
  <2>1. CASE pbs[doomed] = "live"  BY <1>10, <2>1 DEF Qdel, Stops, Killed
  <2>2. CASE pbs[doomed] # "live"  BY <1>10, <2>2 DEF Qdel, Stops
  <2> QED  BY <2>1, <2>2
<1>11. ASSUME NEW k \in Keepers, KeeperLoops(k), UNCHANGED center  PROVE Goal
  BY <1>11 DEF KeeperLoops, Keep
<1>12. ASSUME NEW k \in Keepers, MakeGen(k), UNCHANGED center  PROVE Goal
  <2>1. CASE gen[k] \in dirs
    <3>1. Keep(k, "mkdir", "loop") /\ gen' = [gen EXCEPT ![k] = @ + 1] /\ UNCHANGED dirs
      BY <1>12, <2>1 DEF MakeGen
    <3> QED  BY <1>12, <3>1 DEF MakeGen, Keep
  <2>2. CASE gen[k] \notin dirs  BY <1>12, <2>2 DEF MakeGen, Keep
  <2> QED  BY <2>1, <2>2
<1>13. ASSUME NEW k \in Keepers, Granted(k), UNCHANGED center  PROVE Goal
  BY <1>13 DEF Granted, Keep, Serve, To
<1>14. ASSUME NEW k \in Keepers, QsubRefused(k), UNCHANGED center  PROVE Goal
  BY <1>14 DEF QsubRefused, Keep
<1>15. ASSUME NEW k \in Keepers, QsubReturns(k), UNCHANGED center  PROVE Goal
  BY <1>15 DEF QsubReturns, Keep
<1>16. ASSUME NEW k \in Keepers, KeeperDies(k), UNCHANGED center  PROVE Goal
  <2>1. CASE keep[k] = "qsub" /\ pbs[gen[k]] = "live"  BY <1>16, <2>1 DEF KeeperDies, Killed
  <2>2. CASE ~(keep[k] = "qsub" /\ pbs[gen[k]] = "live")  BY <1>16, <2>2 DEF KeeperDies
  <2> QED  BY <2>1, <2>2
<1>17. ASSUME StopTimesOut, UNCHANGED center  PROVE Goal
  BY <1>17, NewestIsANumber DEF StopTimesOut, Stops, Lags
<1> HIDE DEF Goal
<1> QED
  BY <1>1, <1>2, <1>3, <1>4, <1>5, <1>6, <1>7, <1>8, <1>9, <1>10, <1>11,
     <1>12, <1>13, <1>14, <1>15, <1>16, <1>17
  DEF LineStep, LineActs, KeeperActs

\* A claim and an exit record are written once.
WrittenOnce ==
    \A h \in Entries :
        /\ claims[h] # Free => claims'[h] = claims[h]
        /\ exits[h] # NoExit => exits'[h] = exits[h]

\* link(2) gives a claim one owner for ever, and an exit record is not replaced.
LEMMA RecordsLast ==
    ASSUME HeldInv, Next
    PROVE  WrittenOnce
<1> DEFINE Goal == WrittenOnce
<1> SUFFICES Goal  OBVIOUS
<1> DEFINE Needed ==
        /\ claims \in [Entries -> Gens \cup {Free, Fenced}]
        /\ exits \in [Entries -> Exits \cup {NoExit}]
<1>0. Needed  BY DEF HeldInv, TypeOK, NodeTypeOK
<1> USE <1>0 DEF WrittenOnce, spool, node
<1>1. ASSUME NEW h \in Entries, Admit(h), UNCHANGED keeping  PROVE Goal
  BY <1>1 DEF Admit, LineOver
<1>2. ASSUME NEW h \in Entries, Put(h), UNCHANGED keeping  PROVE Goal
  BY <1>2 DEF Put, Publish
<1>3. ASSUME NEW h \in Entries, Lands(h), UNCHANGED keeping  PROVE Goal
  BY <1>3 DEF Lands, Publish
<1>4. ASSUME NEW h \in Entries, Confirm(h), UNCHANGED keeping  PROVE Goal
  BY <1>4 DEF Confirm
<1>5. ASSUME NEW h \in Entries, FactsLost(h), UNCHANGED keeping  PROVE Goal
  BY <1>5 DEF FactsLost
<1>6. ASSUME NEW h \in Entries, NEW loss \in Losses, PutUnanswered(h, loss), UNCHANGED keeping
      PROVE  Goal
  BY <1>6 DEF PutUnanswered, Publish
<1>7. ASSUME NEW c \in Callers, AskStates(c), UNCHANGED keeping  PROVE Goal
  BY <1>7 DEF AskStates
<1>8. ASSUME NEW c \in Callers, ReadFacts(c), UNCHANGED keeping  PROVE Goal
  BY <1>8 DEF ReadFacts, LineOver
<1>9. ASSUME NEW c \in Callers, JudgeState(c), UNCHANGED keeping  PROVE Goal
  BY <1>9 DEF JudgeState, Back
<1>10. ASSUME NEW c \in Callers, AskCancel(c), UNCHANGED keeping  PROVE Goal
  <2>1. PICK h \in Entries :
               IF exits[h] # NoExit
               THEN answered' = answered \cup {h} /\ UNCHANGED <<ask, on>>
               ELSE /\ on' = [on EXCEPT ![c] = h]
                    /\ ask' = [ask EXCEPT ![c] = "tomb"]
                    /\ UNCHANGED answered
    BY <1>10 DEF AskCancel
  <2>2. CASE exits[h] # NoExit  BY <1>10, <2>1, <2>2 DEF AskCancel
  <2>3. CASE exits[h] = NoExit  BY <1>10, <2>1, <2>3 DEF AskCancel
  <2> QED  BY <2>2, <2>3
<1>11. ASSUME NEW c \in Callers, SetTomb(c), UNCHANGED keeping  PROVE Goal
  BY <1>11 DEF SetTomb
<1>12. ASSUME NEW c \in Callers, FenceEntry(c), UNCHANGED keeping  PROVE Goal
  <2>1. CASE claims[on[c]] = Free
    <3>1. /\ ask[c] = "fence" /\ claims' = [claims EXCEPT ![on[c]] = Fenced]
          /\ answered' = answered \cup {on[c]} /\ Back(c)
      BY <1>12, <2>1 DEF FenceEntry
    <3> QED  BY <1>12, <3>1 DEF FenceEntry, Back
  <2>2. CASE claims[on[c]] # Free  BY <1>12, <2>2 DEF FenceEntry
  <2> QED  BY <2>1, <2>2
<1>13. ASSUME NEW c \in Callers, PollCancel(c), UNCHANGED keeping  PROVE Goal
  <2>1. CASE Judged(facts[c], Ended) # "running"
    <3>1. ask[c] = "judge" /\ answered' = answered \cup {on[c]} /\ Back(c)
      BY <1>13, <2>1 DEF PollCancel
    <3> QED  BY <1>13, <2>1, <3>1 DEF PollCancel, Back
  <2>2. CASE Judged(facts[c], Ended) = "running"  BY <1>13, <2>2 DEF PollCancel
  <2> QED  BY <2>1, <2>2
<1>14. ASSUME NEW c \in Callers, CancelTimesOut(c), UNCHANGED keeping  PROVE Goal
  BY <1>14 DEF CancelTimesOut, Back
<1>15. ASSUME OpenLine, UNCHANGED center  PROVE Goal
  BY <1>15 DEF OpenLine, Opens
<1>16. ASSUME WriteLine, UNCHANGED center  PROVE Goal
  BY <1>16 DEF WriteLine, Opens
<1>17. ASSUME WriteToken, UNCHANGED center  PROVE Goal
  BY <1>17 DEF WriteToken, Opens
<1>18. ASSUME Unstop, UNCHANGED center  PROVE Goal
  BY <1>18 DEF Unstop, Opens
<1>19. ASSUME StartKeeper, UNCHANGED center  PROVE Goal
  BY <1>19 DEF StartKeeper, Opens
<1>20. ASSUME StopLine, UNCHANGED center  PROVE Goal
  BY <1>20 DEF StopLine, Stops
<1>21. ASSUME StopFences, UNCHANGED center  PROVE Goal
  <2>1. PICK h \in left : /\ left' = left \ {h}
                         /\ IF claims[h] = Free
                            THEN /\ claims' = [claims EXCEPT ![h] = Fenced]
                                 /\ tomb' = tomb \cup {h}
                            ELSE UNCHANGED <<claims, tomb>>
    BY <1>21 DEF StopFences
  <2>2. /\ Stops("fence", "fence")
        /\ UNCHANGED <<doomed, hasty, inbox, exits, stop, line, lapsed, node, keepers>>
    BY <1>21 DEF StopFences
  <2>3. CASE claims[h] = Free
    <3>1. claims' = [claims EXCEPT ![h] = Fenced] /\ tomb' = tomb \cup {h}
      BY <2>1, <2>3
    <3> QED  BY <1>21, <2>1, <2>2, <3>1 DEF Stops
  <2>4. CASE claims[h] # Free
    <3>1. UNCHANGED <<claims, tomb>>  BY <2>1, <2>4
    <3> QED  BY <1>21, <2>1, <2>2, <3>1 DEF Stops
  <2> QED  BY <2>3, <2>4
<1>22. ASSUME StopFenced, UNCHANGED center  PROVE Goal
  BY <1>22 DEF StopFenced, Stops
<1>23. ASSUME StopWatched, UNCHANGED center  PROVE Goal
  BY <1>23 DEF StopWatched, Stops
<1>24. ASSUME Qdel, UNCHANGED center  PROVE Goal
  <2>1. CASE pbs[doomed] = "live"  BY <1>24, <2>1 DEF Qdel, Stops, Killed
  <2>2. CASE pbs[doomed] # "live"  BY <1>24, <2>2 DEF Qdel, Stops
  <2> QED  BY <2>1, <2>2
<1>25. ASSUME NEW k \in Keepers, KeeperLoops(k), UNCHANGED center  PROVE Goal
  BY <1>25 DEF KeeperLoops, Keep
<1>26. ASSUME NEW k \in Keepers, MakeGen(k), UNCHANGED center  PROVE Goal
  <2>1. CASE gen[k] \in dirs
    <3>1. Keep(k, "mkdir", "loop") /\ gen' = [gen EXCEPT ![k] = @ + 1] /\ UNCHANGED dirs
      BY <1>26, <2>1 DEF MakeGen
    <3> QED  BY <1>26, <3>1 DEF MakeGen, Keep
  <2>2. CASE gen[k] \notin dirs  BY <1>26, <2>2 DEF MakeGen, Keep
  <2> QED  BY <2>1, <2>2
<1>27. ASSUME NEW k \in Keepers, Granted(k), UNCHANGED center  PROVE Goal
  BY <1>27 DEF Granted, Keep, Serve, To
<1>28. ASSUME NEW k \in Keepers, QsubRefused(k), UNCHANGED center  PROVE Goal
  BY <1>28 DEF QsubRefused, Keep
<1>29. ASSUME NEW k \in Keepers, QsubReturns(k), UNCHANGED center  PROVE Goal
  BY <1>29 DEF QsubReturns, Keep
<1>30. ASSUME NEW k \in Keepers, KeeperDies(k), UNCHANGED center  PROVE Goal
  <2>1. CASE keep[k] = "qsub" /\ pbs[gen[k]] = "live"  BY <1>30, <2>1 DEF KeeperDies, Killed
  <2>2. CASE ~(keep[k] = "qsub" /\ pbs[gen[k]] = "live")  BY <1>30, <2>2 DEF KeeperDies
  <2> QED  BY <2>1, <2>2
<1>31. ASSUME DeadlinePasses, UNCHANGED <<center, keeping>>  PROVE Goal
  BY <1>31 DEF DeadlinePasses
<1>32. ASSUME NEW g \in Gens, LookOn(g), UNCHANGED <<center, keeping>>  PROVE Goal
  BY <1>32 DEF LookOn, To
<1>33. ASSUME NEW g \in Gens, LookOut(g), UNCHANGED <<center, keeping>>  PROVE Goal
  BY <1>33 DEF LookOut, To
<1>34. ASSUME NEW g \in Gens, Pick(g), UNCHANGED <<center, keeping>>  PROVE Goal
  BY <1>34 DEF Pick, To, Queued
<1>35. ASSUME NEW g \in Gens, NoneFits(g), UNCHANGED <<center, keeping>>  PROVE Goal
  BY <1>35 DEF NoneFits, To
<1>36. ASSUME NEW g \in Gens, Claim(g), UNCHANGED <<center, keeping>>  PROVE Goal
  <2>1. CASE claims[cur[g]] = Free
    <3>1. /\ To(g, "claim", "claimed")
          /\ claims' = [claims EXCEPT ![cur[g]] = g] /\ UNCHANGED cur
      BY <1>36, <2>1 DEF Claim
    <3> QED  BY <1>36, <2>1, <3>1 DEF Claim, To
  <2>2. CASE claims[cur[g]] # Free
    <3>1. /\ To(g, "claim", "look")
          /\ cur' = [cur EXCEPT ![g] = None] /\ UNCHANGED claims
      BY <1>36, <2>2 DEF Claim
    <3> QED  BY <1>36, <2>2, <3>1 DEF Claim, To
  <2> QED  BY <2>1, <2>2
<1>37. ASSUME NEW g \in Gens, BeatRunning(g), UNCHANGED <<center, keeping>>
      PROVE  Goal
  BY <1>37 DEF BeatRunning, To
<1>38. ASSUME NEW g \in Gens, CheckTomb(g), UNCHANGED <<center, keeping>>
      PROVE  Goal
  BY <1>38 DEF CheckTomb, To
<1>39. ASSUME NEW g \in Gens, Start(g), UNCHANGED <<center, keeping>>  PROVE Goal
  BY <1>39 DEF Start, To
<1>40. ASSUME NEW g \in Gens, Terminate(g), UNCHANGED <<center, keeping>>
      PROVE  Goal
  BY <1>40 DEF Terminate, To
<1>41. ASSUME NEW g \in Gens, ProcessEnds(g), UNCHANGED <<center, keeping>>
      PROVE  Goal
  <2>1. CASE UNCHANGED exits  BY <1>41, <2>1 DEF ProcessEnds, To
  <2>2. CASE \E code \in Exits : Write(cur[g], code)  BY <1>41, <2>2 DEF ProcessEnds, To, Write
  <2> QED  BY <1>41, <2>1, <2>2 DEF ProcessEnds
<1>42. ASSUME NEW g \in Gens, RecordExit(g), UNCHANGED <<center, keeping>>
      PROVE  Goal
  BY <1>42 DEF RecordExit, To, Write
<1>43. ASSUME NEW g \in Gens, End(g), UNCHANGED <<center, keeping>>  PROVE Goal
  BY <1>43 DEF End, To
<1>44. ASSUME NEW g \in Gens, Faulted(g), UNCHANGED <<center, keeping>>  PROVE Goal
  BY <1>44 DEF Faulted, Killed
<1>45. ASSUME NEW h \in Entries, FactsRefused(h), UNCHANGED keeping  PROVE Goal
  BY <1>45 DEF FactsRefused
<1>46. ASSUME StopTimesOut, UNCHANGED center  PROVE Goal
  BY <1>46 DEF StopTimesOut, Stops
<1>47. ASSUME NEW g \in Gens, Forgets(g), UNCHANGED <<center, keeping>>  PROVE Goal
  BY <1>47 DEF Forgets
<1> HIDE DEF Goal
<1> QED
  BY <1>1, <1>2, <1>3, <1>4, <1>5, <1>6, <1>7, <1>8, <1>9, <1>10, <1>11,
     <1>12, <1>13, <1>14, <1>15, <1>16, <1>17, <1>18, <1>19, <1>20, <1>21,
     <1>22, <1>23, <1>24, <1>25, <1>26, <1>27, <1>28, <1>29, <1>30, <1>31,
     <1>32, <1>33, <1>34, <1>35, <1>36, <1>37, <1>38, <1>39, <1>40, <1>41,
     <1>42, <1>43, <1>44, <1>45, <1>46, <1>47
  DEF Next, CenterStep, Enqueues, CallerActs, LineStep, LineActs, KeeperActs, NodeStep, ServerActs

\* A claim keeps naming the server at work on the entry, through the death of
\* an allocation and the fences of cancels and releases.
LEMMA ServerStep ==
    ASSUME HeldInv, Next
    PROVE  ServerInv'
<1> DEFINE Goal == ServerInv'
<1> SUFFICES Goal  OBVIOUS
<1> DEFINE Needed ==
        /\ NodeTypeOK /\ ServerInv
        /\ \A h \in Entries : claims[h] \in {Free, Fenced} => starts[h] = 0
<1>0. Needed  BY DEF HeldInv, TypeOK, EntryInv
<1> USE <1>0, NodeAssumption, OwnersApart DEF NodeTypeOK, ServerInv, Owning, spool, node, Twice
<1>1. ASSUME NEW h \in Entries, Admit(h), UNCHANGED keeping  PROVE Goal
  BY <1>1 DEF Admit, LineOver
<1>2. ASSUME NEW h \in Entries, Put(h), UNCHANGED keeping  PROVE Goal
  BY <1>2 DEF Put, Publish
<1>3. ASSUME NEW h \in Entries, Lands(h), UNCHANGED keeping  PROVE Goal
  BY <1>3 DEF Lands, Publish
<1>4. ASSUME NEW h \in Entries, Confirm(h), UNCHANGED keeping  PROVE Goal
  BY <1>4 DEF Confirm
<1>5. ASSUME NEW h \in Entries, FactsLost(h), UNCHANGED keeping  PROVE Goal
  BY <1>5 DEF FactsLost
<1>6. ASSUME NEW h \in Entries, NEW loss \in Losses, PutUnanswered(h, loss), UNCHANGED keeping
      PROVE  Goal
  BY <1>6 DEF PutUnanswered, Publish
<1>7. ASSUME NEW c \in Callers, AskStates(c), UNCHANGED keeping  PROVE Goal
  BY <1>7 DEF AskStates
<1>8. ASSUME NEW c \in Callers, ReadFacts(c), UNCHANGED keeping  PROVE Goal
  BY <1>8 DEF ReadFacts, LineOver
<1>9. ASSUME NEW c \in Callers, JudgeState(c), UNCHANGED keeping  PROVE Goal
  BY <1>9 DEF JudgeState, Back
<1>10. ASSUME NEW c \in Callers, AskCancel(c), UNCHANGED keeping  PROVE Goal
  <2>1. PICK h \in Entries :
               IF exits[h] # NoExit
               THEN answered' = answered \cup {h} /\ UNCHANGED <<ask, on>>
               ELSE /\ on' = [on EXCEPT ![c] = h]
                    /\ ask' = [ask EXCEPT ![c] = "tomb"]
                    /\ UNCHANGED answered
    BY <1>10 DEF AskCancel
  <2>2. CASE exits[h] # NoExit  BY <1>10, <2>1, <2>2 DEF AskCancel
  <2>3. CASE exits[h] = NoExit  BY <1>10, <2>1, <2>3 DEF AskCancel
  <2> QED  BY <2>2, <2>3
<1>11. ASSUME NEW c \in Callers, SetTomb(c), UNCHANGED keeping  PROVE Goal
  BY <1>11 DEF SetTomb
<1>12. ASSUME NEW c \in Callers, FenceEntry(c), UNCHANGED keeping  PROVE Goal
  <2>1. CASE claims[on[c]] = Free
    <3>1. /\ ask[c] = "fence" /\ claims' = [claims EXCEPT ![on[c]] = Fenced]
          /\ answered' = answered \cup {on[c]} /\ Back(c)
      BY <1>12, <2>1 DEF FenceEntry
    <3> QED  BY <1>12, <3>1 DEF FenceEntry, Back
  <2>2. CASE claims[on[c]] # Free  BY <1>12, <2>2 DEF FenceEntry
  <2> QED  BY <2>1, <2>2
<1>13. ASSUME NEW c \in Callers, PollCancel(c), UNCHANGED keeping  PROVE Goal
  <2>1. CASE Judged(facts[c], Ended) # "running"
    <3>1. ask[c] = "judge" /\ answered' = answered \cup {on[c]} /\ Back(c)
      BY <1>13, <2>1 DEF PollCancel
    <3> QED  BY <1>13, <2>1, <3>1 DEF PollCancel, Back
  <2>2. CASE Judged(facts[c], Ended) = "running"  BY <1>13, <2>2 DEF PollCancel
  <2> QED  BY <2>1, <2>2
<1>14. ASSUME NEW c \in Callers, CancelTimesOut(c), UNCHANGED keeping  PROVE Goal
  BY <1>14 DEF CancelTimesOut, Back
<1>15. ASSUME OpenLine, UNCHANGED center  PROVE Goal
  BY <1>15 DEF OpenLine, Opens
<1>16. ASSUME WriteLine, UNCHANGED center  PROVE Goal
  BY <1>16 DEF WriteLine, Opens
<1>17. ASSUME WriteToken, UNCHANGED center  PROVE Goal
  BY <1>17 DEF WriteToken, Opens
<1>18. ASSUME Unstop, UNCHANGED center  PROVE Goal
  BY <1>18 DEF Unstop, Opens
<1>19. ASSUME StartKeeper, UNCHANGED center  PROVE Goal
  BY <1>19 DEF StartKeeper, Opens
<1>20. ASSUME StopLine, UNCHANGED center  PROVE Goal
  BY <1>20 DEF StopLine, Stops
<1>21. ASSUME StopFences, UNCHANGED center  PROVE Goal
  <2>1. PICK h \in left : /\ left' = left \ {h}
                         /\ IF claims[h] = Free
                            THEN /\ claims' = [claims EXCEPT ![h] = Fenced]
                                 /\ tomb' = tomb \cup {h}
                            ELSE UNCHANGED <<claims, tomb>>
    BY <1>21 DEF StopFences
  <2>2. /\ Stops("fence", "fence")
        /\ UNCHANGED <<doomed, hasty, inbox, exits, stop, line, lapsed, node, keepers>>
    BY <1>21 DEF StopFences
  <2>3. CASE claims[h] = Free
    <3>1. claims' = [claims EXCEPT ![h] = Fenced] /\ tomb' = tomb \cup {h}
      BY <2>1, <2>3
    <3> QED  BY <1>21, <2>1, <2>2, <3>1 DEF Stops
  <2>4. CASE claims[h] # Free
    <3>1. UNCHANGED <<claims, tomb>>  BY <2>1, <2>4
    <3> QED  BY <1>21, <2>1, <2>2, <3>1 DEF Stops
  <2> QED  BY <2>3, <2>4
<1>22. ASSUME StopFenced, UNCHANGED center  PROVE Goal
  BY <1>22 DEF StopFenced, Stops
<1>23. ASSUME StopWatched, UNCHANGED center  PROVE Goal
  BY <1>23 DEF StopWatched, Stops
<1>24. ASSUME Qdel, UNCHANGED center  PROVE Goal
  <2>1. CASE pbs[doomed] = "live"  BY <1>24, <2>1 DEF Qdel, Stops, Killed
  <2>2. CASE pbs[doomed] # "live"  BY <1>24, <2>2 DEF Qdel, Stops
  <2> QED  BY <2>1, <2>2
<1>25. ASSUME NEW k \in Keepers, KeeperLoops(k), UNCHANGED center  PROVE Goal
  BY <1>25 DEF KeeperLoops, Keep
<1>26. ASSUME NEW k \in Keepers, MakeGen(k), UNCHANGED center  PROVE Goal
  <2>1. CASE gen[k] \in dirs
    <3>1. Keep(k, "mkdir", "loop") /\ gen' = [gen EXCEPT ![k] = @ + 1] /\ UNCHANGED dirs
      BY <1>26, <2>1 DEF MakeGen
    <3> QED  BY <1>26, <3>1 DEF MakeGen, Keep
  <2>2. CASE gen[k] \notin dirs  BY <1>26, <2>2 DEF MakeGen, Keep
  <2> QED  BY <2>1, <2>2
<1>27. ASSUME NEW k \in Keepers, Granted(k), UNCHANGED center  PROVE Goal
  BY <1>27 DEF Granted, Keep, Serve, To
<1>28. ASSUME NEW k \in Keepers, QsubRefused(k), UNCHANGED center  PROVE Goal
  BY <1>28 DEF QsubRefused, Keep
<1>29. ASSUME NEW k \in Keepers, QsubReturns(k), UNCHANGED center  PROVE Goal
  BY <1>29 DEF QsubReturns, Keep
<1>30. ASSUME NEW k \in Keepers, KeeperDies(k), UNCHANGED center  PROVE Goal
  <2>1. CASE keep[k] = "qsub" /\ pbs[gen[k]] = "live"  BY <1>30, <2>1 DEF KeeperDies, Killed
  <2>2. CASE ~(keep[k] = "qsub" /\ pbs[gen[k]] = "live")  BY <1>30, <2>2 DEF KeeperDies
  <2> QED  BY <2>1, <2>2
<1>31. ASSUME DeadlinePasses, UNCHANGED <<center, keeping>>  PROVE Goal
  BY <1>31 DEF DeadlinePasses
<1>32. ASSUME NEW g \in Gens, LookOn(g), UNCHANGED <<center, keeping>>  PROVE Goal
  BY <1>32 DEF LookOn, To
<1>33. ASSUME NEW g \in Gens, LookOut(g), UNCHANGED <<center, keeping>>  PROVE Goal
  BY <1>33 DEF LookOut, To
<1>34. ASSUME NEW g \in Gens, Pick(g), UNCHANGED <<center, keeping>>  PROVE Goal
  BY <1>34 DEF Pick, To, Queued
<1>35. ASSUME NEW g \in Gens, NoneFits(g), UNCHANGED <<center, keeping>>  PROVE Goal
  BY <1>35 DEF NoneFits, To
<1>36. ASSUME NEW g \in Gens, Claim(g), UNCHANGED <<center, keeping>>  PROVE Goal
  <2>1. CASE claims[cur[g]] = Free
    <3>1. /\ To(g, "claim", "claimed")
          /\ claims' = [claims EXCEPT ![cur[g]] = g] /\ UNCHANGED cur
      BY <1>36, <2>1 DEF Claim
    <3> QED  BY <1>36, <2>1, <3>1 DEF Claim, To
  <2>2. CASE claims[cur[g]] # Free
    <3>1. /\ To(g, "claim", "look")
          /\ cur' = [cur EXCEPT ![g] = None] /\ UNCHANGED claims
      BY <1>36, <2>2 DEF Claim
    <3> QED  BY <1>36, <2>2, <3>1 DEF Claim, To
  <2> QED  BY <2>1, <2>2
<1>37. ASSUME NEW g \in Gens, BeatRunning(g), UNCHANGED <<center, keeping>>
      PROVE  Goal
  BY <1>37 DEF BeatRunning, To
<1>38. ASSUME NEW g \in Gens, CheckTomb(g), UNCHANGED <<center, keeping>>
      PROVE  Goal
  BY <1>38 DEF CheckTomb, To
<1>39. ASSUME NEW g \in Gens, Start(g), UNCHANGED <<center, keeping>>  PROVE Goal
  BY <1>39 DEF Start, To
<1>40. ASSUME NEW g \in Gens, Terminate(g), UNCHANGED <<center, keeping>>
      PROVE  Goal
  BY <1>40 DEF Terminate, To
<1>41. ASSUME NEW g \in Gens, ProcessEnds(g), UNCHANGED <<center, keeping>>
      PROVE  Goal
  <2>1. CASE UNCHANGED exits  BY <1>41, <2>1 DEF ProcessEnds, To
  <2>2. CASE \E code \in Exits : Write(cur[g], code)  BY <1>41, <2>2 DEF ProcessEnds, To, Write
  <2> QED  BY <1>41, <2>1, <2>2 DEF ProcessEnds
<1>42. ASSUME NEW g \in Gens, RecordExit(g), UNCHANGED <<center, keeping>>
      PROVE  Goal
  BY <1>42 DEF RecordExit, To, Write
<1>43. ASSUME NEW g \in Gens, End(g), UNCHANGED <<center, keeping>>  PROVE Goal
  BY <1>43 DEF End, To
<1>44. ASSUME NEW g \in Gens, Faulted(g), UNCHANGED <<center, keeping>>  PROVE Goal
  BY <1>44 DEF Faulted, Killed
<1>45. ASSUME NEW h \in Entries, FactsRefused(h), UNCHANGED keeping  PROVE Goal
  BY <1>45 DEF FactsRefused
<1>46. ASSUME StopTimesOut, UNCHANGED center  PROVE Goal
  BY <1>46 DEF StopTimesOut, Stops
<1>47. ASSUME NEW g \in Gens, Forgets(g), UNCHANGED <<center, keeping>>  PROVE Goal
  BY <1>47 DEF Forgets
<1> HIDE DEF Goal
<1> QED
  BY <1>1, <1>2, <1>3, <1>4, <1>5, <1>6, <1>7, <1>8, <1>9, <1>10, <1>11,
     <1>12, <1>13, <1>14, <1>15, <1>16, <1>17, <1>18, <1>19, <1>20, <1>21,
     <1>22, <1>23, <1>24, <1>25, <1>26, <1>27, <1>28, <1>29, <1>30, <1>31,
     <1>32, <1>33, <1>34, <1>35, <1>36, <1>37, <1>38, <1>39, <1>40, <1>41,
     <1>42, <1>43, <1>44, <1>45, <1>46, <1>47
  DEF Next, CenterStep, Enqueues, CallerActs, LineStep, LineActs, KeeperActs, NodeStep, ServerActs

\* What ends an entry ends it for good: a fence, an exit, or the loss of the
\* allocation that claimed it.
LEMMA EntryStep ==
    ASSUME HeldInv, Next
    PROVE  EntryInv'
<1> DEFINE Goal == EntryInv'
<1> SUFFICES Goal  OBVIOUS
<1> DEFINE Needed ==
        /\ NodeTypeOK /\ ServerInv /\ EntryInv /\ CallerInv
        /\ answered \subseteq Entries /\ left \subseteq Entries
<1>0. Needed  BY DEF HeldInv, TypeOK, CenterTypeOK, KeeperTypeOK
<1> USE <1>0, OwnersApart, NodeAssumption
        DEF NodeTypeOK, ServerInv, EntryInv, CallerInv, Over, Owning, spool, node, Twice,
            center, submitting, asking
<1>1. ASSUME NEW h \in Entries, Admit(h), UNCHANGED keeping  PROVE Goal
  BY <1>1 DEF Admit, LineOver
<1>2. ASSUME NEW h \in Entries, Put(h), UNCHANGED keeping  PROVE Goal
  BY <1>2 DEF Put, Publish
<1>3. ASSUME NEW h \in Entries, Lands(h), UNCHANGED keeping  PROVE Goal
  BY <1>3 DEF Lands, Publish
<1>4. ASSUME NEW h \in Entries, Confirm(h), UNCHANGED keeping  PROVE Goal
  BY <1>4 DEF Confirm
<1>5. ASSUME NEW h \in Entries, FactsLost(h), UNCHANGED keeping  PROVE Goal
  BY <1>5 DEF FactsLost
<1>6. ASSUME NEW h \in Entries, NEW loss \in Losses, PutUnanswered(h, loss), UNCHANGED keeping
      PROVE  Goal
  BY <1>6 DEF PutUnanswered, Publish
<1>7. ASSUME NEW c \in Callers, AskStates(c), UNCHANGED keeping  PROVE Goal
  BY <1>7 DEF AskStates
<1>8. ASSUME NEW c \in Callers, ReadFacts(c), UNCHANGED keeping  PROVE Goal
  BY <1>8 DEF ReadFacts, LineOver
<1>9. ASSUME NEW c \in Callers, JudgeState(c), UNCHANGED keeping  PROVE Goal
  BY <1>9 DEF JudgeState, Back
<1>10. ASSUME NEW c \in Callers, AskCancel(c), UNCHANGED keeping  PROVE Goal
  <2>1. PICK h \in Entries :
               IF exits[h] # NoExit
               THEN answered' = answered \cup {h} /\ UNCHANGED <<ask, on>>
               ELSE /\ on' = [on EXCEPT ![c] = h]
                    /\ ask' = [ask EXCEPT ![c] = "tomb"]
                    /\ UNCHANGED answered
    BY <1>10 DEF AskCancel
  <2>2. CASE exits[h] # NoExit  BY <1>10, <2>1, <2>2 DEF AskCancel
  <2>3. CASE exits[h] = NoExit  BY <1>10, <2>1, <2>3 DEF AskCancel
  <2> QED  BY <2>2, <2>3
<1>11. ASSUME NEW c \in Callers, SetTomb(c), UNCHANGED keeping  PROVE Goal
  BY <1>11 DEF SetTomb
<1>12. ASSUME NEW c \in Callers, FenceEntry(c), UNCHANGED keeping  PROVE Goal
  <2>1. CASE claims[on[c]] = Free
    <3>1. /\ ask[c] = "fence" /\ claims' = [claims EXCEPT ![on[c]] = Fenced]
          /\ answered' = answered \cup {on[c]} /\ Back(c)
      BY <1>12, <2>1 DEF FenceEntry
    <3> QED  BY <1>12, <3>1 DEF FenceEntry, Back
  <2>2. CASE claims[on[c]] # Free  BY <1>12, <2>2 DEF FenceEntry
  <2> QED  BY <2>1, <2>2
<1>13. ASSUME NEW c \in Callers, PollCancel(c), UNCHANGED keeping  PROVE Goal
  <2>1. CASE Judged(facts[c], Ended) # "running"
    <3>1. ask[c] = "judge" /\ answered' = answered \cup {on[c]} /\ Back(c)
      BY <1>13, <2>1 DEF PollCancel
    <3>2. on[c] \in Entries /\ claims[on[c]] # Free /\ facts[c].claim = claims[on[c]]
      BY <1>13, <3>1 DEF PollCancel
    <3>3. \/ exits[on[c]] # NoExit
          \/ claims[on[c]] = Fenced
          \/ claims[on[c]] \in Gens /\ pbs[claims[on[c]]] = "over"
      BY <2>1, <3>1, <3>2, JudgedWord DEF Ended
    <3>4. exits[on[c]] # NoExit => Over(on[c])  BY <3>2
    <3>5. claims[on[c]] = Fenced => Over(on[c])  BY <3>2
    <3>6. ASSUME claims[on[c]] \in Gens, pbs[claims[on[c]]] = "over"
          PROVE  Over(on[c])
      <4>1. srv[claims[on[c]]] = "off" /\ cur[claims[on[c]]] = None  BY <3>6
      <4>2. ASSUME NEW g \in Gens, cur[g] = on[c]  PROVE srv[g] = "claim"
        <5>1. srv[g] \in Owning => claims[on[c]] = g  BY <4>2
        <5>2. cur[g] # None  BY <3>2, <4>2
        <5> QED  BY <4>1, <4>2, <5>1, <5>2
      <4> QED  BY <3>2, <4>2
    <3>7. Over(on[c])  BY <3>2, <3>3, <3>4, <3>5, <3>6
    <3> QED  BY <1>13, <3>1, <3>2, <3>7 DEF PollCancel, Back
  <2>2. CASE Judged(facts[c], Ended) = "running"  BY <1>13, <2>2 DEF PollCancel
  <2> QED  BY <2>1, <2>2
<1>14. ASSUME NEW c \in Callers, CancelTimesOut(c), UNCHANGED keeping  PROVE Goal
  BY <1>14 DEF CancelTimesOut, Back
<1>15. ASSUME OpenLine, UNCHANGED center  PROVE Goal
  BY <1>15 DEF OpenLine, Opens
<1>16. ASSUME WriteLine, UNCHANGED center  PROVE Goal
  BY <1>16 DEF WriteLine, Opens
<1>17. ASSUME WriteToken, UNCHANGED center  PROVE Goal
  BY <1>17 DEF WriteToken, Opens
<1>18. ASSUME Unstop, UNCHANGED center  PROVE Goal
  BY <1>18 DEF Unstop, Opens
<1>19. ASSUME StartKeeper, UNCHANGED center  PROVE Goal
  BY <1>19 DEF StartKeeper, Opens
<1>20. ASSUME StopLine, UNCHANGED center  PROVE Goal
  BY <1>20 DEF StopLine, Stops
<1>21. ASSUME StopFences, UNCHANGED center  PROVE Goal
  <2>1. PICK h \in left : /\ left' = left \ {h}
                         /\ IF claims[h] = Free
                            THEN /\ claims' = [claims EXCEPT ![h] = Fenced]
                                 /\ tomb' = tomb \cup {h}
                            ELSE UNCHANGED <<claims, tomb>>
    BY <1>21 DEF StopFences
  <2>2. /\ Stops("fence", "fence")
        /\ UNCHANGED <<doomed, hasty, inbox, exits, stop, line, lapsed, node, keepers>>
    BY <1>21 DEF StopFences
  <2>3. CASE claims[h] = Free
    <3>1. claims' = [claims EXCEPT ![h] = Fenced] /\ tomb' = tomb \cup {h}
      BY <2>1, <2>3
    <3> QED  BY <1>21, <2>1, <2>2, <3>1 DEF Stops
  <2>4. CASE claims[h] # Free
    <3>1. UNCHANGED <<claims, tomb>>  BY <2>1, <2>4
    <3> QED  BY <1>21, <2>1, <2>2, <3>1 DEF Stops
  <2> QED  BY <2>3, <2>4
<1>22. ASSUME StopFenced, UNCHANGED center  PROVE Goal
  BY <1>22 DEF StopFenced, Stops
<1>23. ASSUME StopWatched, UNCHANGED center  PROVE Goal
  BY <1>23 DEF StopWatched, Stops
<1>24. ASSUME Qdel, UNCHANGED center  PROVE Goal
  <2>1. CASE pbs[doomed] = "live"
    <3>1. /\ UNCHANGED <<claims, exits, starts, answered, on, ask, facts>>
          /\ \A g \in Gens : (cur'[g] = cur[g] /\ srv'[g] = srv[g]) \/ cur'[g] = None
      BY <1>24, <2>1 DEF Qdel, Killed
    <3> QED  BY <3>1
  <2>2. CASE pbs[doomed] # "live"  BY <1>24, <2>2 DEF Qdel, Stops
  <2> QED  BY <2>1, <2>2
<1>25. ASSUME NEW k \in Keepers, KeeperLoops(k), UNCHANGED center  PROVE Goal
  BY <1>25 DEF KeeperLoops, Keep
<1>26. ASSUME NEW k \in Keepers, MakeGen(k), UNCHANGED center  PROVE Goal
  <2>1. CASE gen[k] \in dirs
    <3>1. Keep(k, "mkdir", "loop") /\ gen' = [gen EXCEPT ![k] = @ + 1] /\ UNCHANGED dirs
      BY <1>26, <2>1 DEF MakeGen
    <3> QED  BY <1>26, <3>1 DEF MakeGen, Keep
  <2>2. CASE gen[k] \notin dirs  BY <1>26, <2>2 DEF MakeGen, Keep
  <2> QED  BY <2>1, <2>2
<1>27. ASSUME NEW k \in Keepers, Granted(k), UNCHANGED center  PROVE Goal
  BY <1>27 DEF Granted, Keep, Serve, To
<1>28. ASSUME NEW k \in Keepers, QsubRefused(k), UNCHANGED center  PROVE Goal
  BY <1>28 DEF QsubRefused, Keep
<1>29. ASSUME NEW k \in Keepers, QsubReturns(k), UNCHANGED center  PROVE Goal
  BY <1>29 DEF QsubReturns, Keep
<1>30. ASSUME NEW k \in Keepers, KeeperDies(k), UNCHANGED center  PROVE Goal
  <2>1. CASE keep[k] = "qsub" /\ pbs[gen[k]] = "live"
    <3>1. /\ UNCHANGED <<claims, exits, starts, answered, on, ask, facts>>
          /\ \A g \in Gens : (cur'[g] = cur[g] /\ srv'[g] = srv[g]) \/ cur'[g] = None
      BY <1>30, <2>1 DEF KeeperDies, Killed
    <3> QED  BY <3>1
  <2>2. CASE ~(keep[k] = "qsub" /\ pbs[gen[k]] = "live")  BY <1>30, <2>2 DEF KeeperDies
  <2> QED  BY <2>1, <2>2
<1>31. ASSUME DeadlinePasses, UNCHANGED <<center, keeping>>  PROVE Goal
  BY <1>31 DEF DeadlinePasses
<1>32. ASSUME NEW g \in Gens, LookOn(g), UNCHANGED <<center, keeping>>  PROVE Goal
  BY <1>32 DEF LookOn, To
<1>33. ASSUME NEW g \in Gens, LookOut(g), UNCHANGED <<center, keeping>>  PROVE Goal
  BY <1>33 DEF LookOut, To
<1>34. ASSUME NEW g \in Gens, Pick(g), UNCHANGED <<center, keeping>>  PROVE Goal
  BY <1>34 DEF Pick, To, Queued
<1>35. ASSUME NEW g \in Gens, NoneFits(g), UNCHANGED <<center, keeping>>  PROVE Goal
  BY <1>35 DEF NoneFits, To
<1>36. ASSUME NEW g \in Gens, Claim(g), UNCHANGED <<center, keeping>>  PROVE Goal
  <2>1. CASE claims[cur[g]] = Free
    <3>1. /\ To(g, "claim", "claimed")
          /\ claims' = [claims EXCEPT ![cur[g]] = g] /\ UNCHANGED cur
      BY <1>36, <2>1 DEF Claim
    <3> QED  BY <1>36, <2>1, <3>1 DEF Claim, To
  <2>2. CASE claims[cur[g]] # Free
    <3>1. /\ To(g, "claim", "look")
          /\ cur' = [cur EXCEPT ![g] = None] /\ UNCHANGED claims
      BY <1>36, <2>2 DEF Claim
    <3> QED  BY <1>36, <2>2, <3>1 DEF Claim, To
  <2> QED  BY <2>1, <2>2
<1>37. ASSUME NEW g \in Gens, BeatRunning(g), UNCHANGED <<center, keeping>>
      PROVE  Goal
  BY <1>37 DEF BeatRunning, To
<1>38. ASSUME NEW g \in Gens, CheckTomb(g), UNCHANGED <<center, keeping>>
      PROVE  Goal
  BY <1>38 DEF CheckTomb, To
<1>39. ASSUME NEW g \in Gens, Start(g), UNCHANGED <<center, keeping>>  PROVE Goal
  BY <1>39 DEF Start, To
<1>40. ASSUME NEW g \in Gens, Terminate(g), UNCHANGED <<center, keeping>>
      PROVE  Goal
  BY <1>40 DEF Terminate, To
<1>41. ASSUME NEW g \in Gens, ProcessEnds(g), UNCHANGED <<center, keeping>>
      PROVE  Goal
  <2>1. CASE UNCHANGED exits  BY <1>41, <2>1 DEF ProcessEnds, To
  <2>2. CASE \E code \in Exits : Write(cur[g], code)
    <3>1. /\ srv[g] \in {"run", "term"} /\ cur[g] \in Entries /\ claims[cur[g]] = g
          /\ srv' = [srv EXCEPT ![g] = "record"]
      BY <1>41 DEF ProcessEnds, To
    <3>2. \A h \in Entries : h # cur[g] => exits'[h] = exits[h]
      BY <2>2, <3>1 DEF Write
    <3>3. UNCHANGED <<claims, starts, answered, cur>>
      BY <1>41 DEF ProcessEnds
    <3>4. \A h \in Entries : Over(h) => Over(h)'
      BY <3>1, <3>3
    <3>5. Over(cur[g])'
      BY <3>1, <3>3
    <3> HIDE DEF Over
    <3> QED  BY <3>1, <3>2, <3>3, <3>4, <3>5
  <2> QED  BY <1>41, <2>1, <2>2 DEF ProcessEnds
<1>42. ASSUME NEW g \in Gens, RecordExit(g), UNCHANGED <<center, keeping>>
      PROVE  Goal
  BY <1>42 DEF RecordExit, To, Write
<1>43. ASSUME NEW g \in Gens, End(g), UNCHANGED <<center, keeping>>  PROVE Goal
  BY <1>43 DEF End, To
<1>44. ASSUME NEW g \in Gens, Faulted(g), UNCHANGED <<center, keeping>>  PROVE Goal
  BY <1>44 DEF Faulted, Killed
<1>45. ASSUME NEW h \in Entries, FactsRefused(h), UNCHANGED keeping  PROVE Goal
  BY <1>45 DEF FactsRefused
<1>46. ASSUME StopTimesOut, UNCHANGED center  PROVE Goal
  BY <1>46 DEF StopTimesOut, Stops
<1>47. ASSUME NEW g \in Gens, Forgets(g), UNCHANGED <<center, keeping>>  PROVE Goal
  BY <1>47 DEF Forgets
<1> HIDE DEF Goal
<1> QED
  BY <1>1, <1>2, <1>3, <1>4, <1>5, <1>6, <1>7, <1>8, <1>9, <1>10, <1>11,
     <1>12, <1>13, <1>14, <1>15, <1>16, <1>17, <1>18, <1>19, <1>20, <1>21,
     <1>22, <1>23, <1>24, <1>25, <1>26, <1>27, <1>28, <1>29, <1>30, <1>31,
     <1>32, <1>33, <1>34, <1>35, <1>36, <1>37, <1>38, <1>39, <1>40, <1>41,
     <1>42, <1>43, <1>44, <1>45, <1>46, <1>47
  DEF Next, CenterStep, Enqueues, CallerActs, LineStep, LineActs, KeeperActs, NodeStep, ServerActs

\* The center's calls touch neither the line nor an allocation.
LEMMA CenterFrame ==
    ASSUME HeldInv, CenterStep
    PROVE  UNCHANGED <<keeping, node, exits, stop, line, lapsed>>
<1> DEFINE Goal == UNCHANGED <<keeping, node, exits, stop, line, lapsed>>
<1> SUFFICES Goal  OBVIOUS
<1> USE DEF spool, node
<1>1. ASSUME NEW h \in Entries, Admit(h), UNCHANGED keeping  PROVE Goal
  BY <1>1 DEF Admit, LineOver
<1>2. ASSUME NEW h \in Entries, Put(h), UNCHANGED keeping  PROVE Goal
  BY <1>2 DEF Put, Publish
<1>3. ASSUME NEW h \in Entries, Lands(h), UNCHANGED keeping  PROVE Goal
  BY <1>3 DEF Lands, Publish
<1>4. ASSUME NEW h \in Entries, Confirm(h), UNCHANGED keeping  PROVE Goal
  BY <1>4 DEF Confirm
<1>5. ASSUME NEW h \in Entries, FactsLost(h), UNCHANGED keeping  PROVE Goal
  BY <1>5 DEF FactsLost
<1>6. ASSUME NEW h \in Entries, NEW loss \in Losses, PutUnanswered(h, loss), UNCHANGED keeping
      PROVE  Goal
  BY <1>6 DEF PutUnanswered, Publish
<1>7. ASSUME NEW c \in Callers, AskStates(c), UNCHANGED keeping  PROVE Goal
  BY <1>7 DEF AskStates
<1>8. ASSUME NEW c \in Callers, ReadFacts(c), UNCHANGED keeping  PROVE Goal
  BY <1>8 DEF ReadFacts, LineOver
<1>9. ASSUME NEW c \in Callers, JudgeState(c), UNCHANGED keeping  PROVE Goal
  BY <1>9 DEF JudgeState, Back
<1>10. ASSUME NEW c \in Callers, AskCancel(c), UNCHANGED keeping  PROVE Goal
  <2>1. PICK h \in Entries :
               IF exits[h] # NoExit
               THEN answered' = answered \cup {h} /\ UNCHANGED <<ask, on>>
               ELSE /\ on' = [on EXCEPT ![c] = h]
                    /\ ask' = [ask EXCEPT ![c] = "tomb"]
                    /\ UNCHANGED answered
    BY <1>10 DEF AskCancel
  <2>2. CASE exits[h] # NoExit  BY <1>10, <2>1, <2>2 DEF AskCancel
  <2>3. CASE exits[h] = NoExit  BY <1>10, <2>1, <2>3 DEF AskCancel
  <2> QED  BY <2>2, <2>3
<1>11. ASSUME NEW c \in Callers, SetTomb(c), UNCHANGED keeping  PROVE Goal
  BY <1>11 DEF SetTomb
<1>12. ASSUME NEW c \in Callers, FenceEntry(c), UNCHANGED keeping  PROVE Goal
  <2>1. CASE claims[on[c]] = Free
    <3>1. /\ ask[c] = "fence" /\ claims' = [claims EXCEPT ![on[c]] = Fenced]
          /\ answered' = answered \cup {on[c]} /\ Back(c)
      BY <1>12, <2>1 DEF FenceEntry
    <3> QED  BY <1>12, <3>1 DEF FenceEntry, Back
  <2>2. CASE claims[on[c]] # Free  BY <1>12, <2>2 DEF FenceEntry
  <2> QED  BY <2>1, <2>2
<1>13. ASSUME NEW c \in Callers, PollCancel(c), UNCHANGED keeping  PROVE Goal
  <2>1. CASE Judged(facts[c], Ended) # "running"
    <3>1. ask[c] = "judge" /\ answered' = answered \cup {on[c]} /\ Back(c)
      BY <1>13, <2>1 DEF PollCancel
    <3> QED  BY <1>13, <2>1, <3>1 DEF PollCancel, Back
  <2>2. CASE Judged(facts[c], Ended) = "running"  BY <1>13, <2>2 DEF PollCancel
  <2> QED  BY <2>1, <2>2
<1>14. ASSUME NEW c \in Callers, CancelTimesOut(c), UNCHANGED keeping  PROVE Goal
  BY <1>14 DEF CancelTimesOut, Back
<1>15. ASSUME NEW h \in Entries, FactsRefused(h), UNCHANGED keeping  PROVE Goal
  BY <1>15 DEF FactsRefused
<1> HIDE DEF Goal
<1> QED
  BY <1>1, <1>2, <1>3, <1>4, <1>5, <1>6, <1>7, <1>8, <1>9, <1>10, <1>11,
     <1>12, <1>13, <1>14, <1>15
  DEF CenterStep, Enqueues, CallerActs

\* Allocations and deadlines touch neither the line's files nor the center.
LEMMA NodeFrame ==
    ASSUME HeldInv, NodeStep
    PROVE  UNCHANGED <<keeping, center, stop, line>>
<1> DEFINE Goal == UNCHANGED <<keeping, center, stop, line>>
<1> SUFFICES Goal  OBVIOUS
<1> USE DEF spool, node
<1>1. ASSUME DeadlinePasses, UNCHANGED <<center, keeping>>  PROVE Goal
  BY <1>1 DEF DeadlinePasses
<1>2. ASSUME NEW g \in Gens, LookOn(g), UNCHANGED <<center, keeping>>  PROVE Goal
  BY <1>2 DEF LookOn, To
<1>3. ASSUME NEW g \in Gens, LookOut(g), UNCHANGED <<center, keeping>>  PROVE Goal
  BY <1>3 DEF LookOut, To
<1>4. ASSUME NEW g \in Gens, Pick(g), UNCHANGED <<center, keeping>>  PROVE Goal
  BY <1>4 DEF Pick, To, Queued
<1>5. ASSUME NEW g \in Gens, NoneFits(g), UNCHANGED <<center, keeping>>  PROVE Goal
  BY <1>5 DEF NoneFits, To
<1>6. ASSUME NEW g \in Gens, Claim(g), UNCHANGED <<center, keeping>>  PROVE Goal
  <2>1. CASE claims[cur[g]] = Free
    <3>1. /\ To(g, "claim", "claimed")
          /\ claims' = [claims EXCEPT ![cur[g]] = g] /\ UNCHANGED cur
      BY <1>6, <2>1 DEF Claim
    <3> QED  BY <1>6, <2>1, <3>1 DEF Claim, To
  <2>2. CASE claims[cur[g]] # Free
    <3>1. /\ To(g, "claim", "look")
          /\ cur' = [cur EXCEPT ![g] = None] /\ UNCHANGED claims
      BY <1>6, <2>2 DEF Claim
    <3> QED  BY <1>6, <2>2, <3>1 DEF Claim, To
  <2> QED  BY <2>1, <2>2
<1>7. ASSUME NEW g \in Gens, BeatRunning(g), UNCHANGED <<center, keeping>>
      PROVE  Goal
  BY <1>7 DEF BeatRunning, To
<1>8. ASSUME NEW g \in Gens, CheckTomb(g), UNCHANGED <<center, keeping>>  PROVE Goal
  BY <1>8 DEF CheckTomb, To
<1>9. ASSUME NEW g \in Gens, Start(g), UNCHANGED <<center, keeping>>  PROVE Goal
  BY <1>9 DEF Start, To
<1>10. ASSUME NEW g \in Gens, Terminate(g), UNCHANGED <<center, keeping>>
      PROVE  Goal
  BY <1>10 DEF Terminate, To
<1>11. ASSUME NEW g \in Gens, ProcessEnds(g), UNCHANGED <<center, keeping>>
      PROVE  Goal
  <2>1. CASE UNCHANGED exits  BY <1>11, <2>1 DEF ProcessEnds, To
  <2>2. CASE \E code \in Exits : Write(cur[g], code)  BY <1>11, <2>2 DEF ProcessEnds, To, Write
  <2> QED  BY <1>11, <2>1, <2>2 DEF ProcessEnds
<1>12. ASSUME NEW g \in Gens, RecordExit(g), UNCHANGED <<center, keeping>>
      PROVE  Goal
  BY <1>12 DEF RecordExit, To, Write
<1>13. ASSUME NEW g \in Gens, End(g), UNCHANGED <<center, keeping>>  PROVE Goal
  BY <1>13 DEF End, To
<1>14. ASSUME NEW g \in Gens, Faulted(g), UNCHANGED <<center, keeping>>  PROVE Goal
  BY <1>14 DEF Faulted, Killed
<1>15. ASSUME NEW g \in Gens, Forgets(g), UNCHANGED <<center, keeping>>  PROVE Goal
  BY <1>15 DEF Forgets
<1> HIDE DEF Goal
<1> QED
  BY <1>1, <1>2, <1>3, <1>4, <1>5, <1>6, <1>7, <1>8, <1>9, <1>10, <1>11,
     <1>12, <1>13, <1>14, <1>15
  DEF NodeStep, ServerActs

\* What a caller knows stays true: a canceller polls only what is claimed, and
\* what it read of a claim or an exit is final.
LEMMA CallerStep ==
    ASSUME HeldInv, CenterStep
    PROVE  CallerInv'
<1> DEFINE Goal == CallerInv'
<1> SUFFICES Goal  OBVIOUS
<1> DEFINE Needed ==
        /\ CenterTypeOK /\ CallerInv
        /\ claims \in [Entries -> Gens \cup {Free, Fenced}]
        /\ exits \in [Entries -> Exits \cup {NoExit}]
        /\ WrittenOnce
<1>0. Needed  BY RecordsLast DEF HeldInv, TypeOK, NodeTypeOK, Next
<1> USE <1>0, CenterAssumption, OwnersApart
        DEF CenterTypeOK, CallerInv, Callers, WrittenOnce, spool, submitting, asking, NoFacts
<1>1. ASSUME NEW h \in Entries, Admit(h), UNCHANGED keeping  PROVE Goal
  BY <1>1 DEF Admit, LineOver
<1>2. ASSUME NEW h \in Entries, Put(h), UNCHANGED keeping  PROVE Goal
  BY <1>2 DEF Put, Publish
<1>3. ASSUME NEW h \in Entries, Lands(h), UNCHANGED keeping  PROVE Goal
  BY <1>3 DEF Lands, Publish
<1>4. ASSUME NEW h \in Entries, Confirm(h), UNCHANGED keeping  PROVE Goal
  BY <1>4 DEF Confirm
<1>5. ASSUME NEW h \in Entries, FactsLost(h), UNCHANGED keeping  PROVE Goal
  BY <1>5 DEF FactsLost
<1>6. ASSUME NEW h \in Entries, NEW loss \in Losses, PutUnanswered(h, loss), UNCHANGED keeping
      PROVE  Goal
  BY <1>6 DEF PutUnanswered, Publish
<1>7. ASSUME NEW c \in Callers, AskStates(c), UNCHANGED keeping  PROVE Goal
  BY <1>7 DEF AskStates
<1>8. ASSUME NEW c \in Callers, ReadFacts(c), UNCHANGED keeping  PROVE Goal
  BY <1>8 DEF ReadFacts, LineOver
<1>9. ASSUME NEW c \in Callers, JudgeState(c), UNCHANGED keeping  PROVE Goal
  BY <1>9 DEF JudgeState, Back
<1>10. ASSUME NEW c \in Callers, AskCancel(c), UNCHANGED keeping  PROVE Goal
  <2>1. PICK h \in Entries :
               IF exits[h] # NoExit
               THEN answered' = answered \cup {h} /\ UNCHANGED <<ask, on>>
               ELSE /\ on' = [on EXCEPT ![c] = h]
                    /\ ask' = [ask EXCEPT ![c] = "tomb"]
                    /\ UNCHANGED answered
    BY <1>10 DEF AskCancel
  <2>2. CASE exits[h] # NoExit  BY <1>10, <2>1, <2>2 DEF AskCancel
  <2>3. CASE exits[h] = NoExit  BY <1>10, <2>1, <2>3 DEF AskCancel
  <2> QED  BY <2>2, <2>3
<1>11. ASSUME NEW c \in Callers, SetTomb(c), UNCHANGED keeping  PROVE Goal
  BY <1>11 DEF SetTomb
<1>12. ASSUME NEW c \in Callers, FenceEntry(c), UNCHANGED keeping  PROVE Goal
  <2>1. CASE claims[on[c]] = Free
    <3>1. /\ ask[c] = "fence" /\ claims' = [claims EXCEPT ![on[c]] = Fenced]
          /\ answered' = answered \cup {on[c]} /\ Back(c)
      BY <1>12, <2>1 DEF FenceEntry
    <3> QED  BY <1>12, <3>1 DEF FenceEntry, Back
  <2>2. CASE claims[on[c]] # Free  BY <1>12, <2>2 DEF FenceEntry
  <2> QED  BY <2>1, <2>2
<1>13. ASSUME NEW c \in Callers, PollCancel(c), UNCHANGED keeping  PROVE Goal
  <2>1. CASE Judged(facts[c], Ended) # "running"
    <3>1. ask[c] = "judge" /\ answered' = answered \cup {on[c]} /\ Back(c)
      BY <1>13, <2>1 DEF PollCancel
    <3> QED  BY <1>13, <2>1, <3>1 DEF PollCancel, Back
  <2>2. CASE Judged(facts[c], Ended) = "running"  BY <1>13, <2>2 DEF PollCancel
  <2> QED  BY <2>1, <2>2
<1>14. ASSUME NEW c \in Callers, CancelTimesOut(c), UNCHANGED keeping  PROVE Goal
  BY <1>14 DEF CancelTimesOut, Back
<1>15. ASSUME NEW h \in Entries, FactsRefused(h), UNCHANGED keeping  PROVE Goal
  BY <1>15 DEF FactsRefused
<1> HIDE DEF Goal
<1> QED
  BY <1>1, <1>2, <1>3, <1>4, <1>5, <1>6, <1>7, <1>8, <1>9, <1>10, <1>11,
     <1>12, <1>13, <1>14, <1>15
  DEF CenterStep, Enqueues, CallerActs

\* A write is tried twice at most.
LEMMA SubmitStep ==
    ASSUME HeldInv, CenterStep
    PROVE  SubmitInv'
<1> DEFINE Goal == SubmitInv'
<1> SUFFICES Goal  OBVIOUS
<1> USE DEF HeldInv, TypeOK, CenterTypeOK, SubmitInv, submitting, asking
<1>1. ASSUME NEW h \in Entries, Admit(h), UNCHANGED keeping  PROVE Goal
  BY <1>1 DEF Admit, LineOver
<1>2. ASSUME NEW h \in Entries, Put(h), UNCHANGED keeping  PROVE Goal
  BY <1>2 DEF Put, Publish
<1>3. ASSUME NEW h \in Entries, Lands(h), UNCHANGED keeping  PROVE Goal
  BY <1>3 DEF Lands, Publish
<1>4. ASSUME NEW h \in Entries, Confirm(h), UNCHANGED keeping  PROVE Goal
  BY <1>4 DEF Confirm
<1>5. ASSUME NEW h \in Entries, FactsLost(h), UNCHANGED keeping  PROVE Goal
  BY <1>5 DEF FactsLost
<1>6. ASSUME NEW h \in Entries, NEW loss \in Losses, PutUnanswered(h, loss), UNCHANGED keeping
      PROVE  Goal
  BY <1>6 DEF PutUnanswered, Publish
<1>7. ASSUME NEW c \in Callers, AskStates(c), UNCHANGED keeping  PROVE Goal
  BY <1>7 DEF AskStates
<1>8. ASSUME NEW c \in Callers, ReadFacts(c), UNCHANGED keeping  PROVE Goal
  BY <1>8 DEF ReadFacts, LineOver
<1>9. ASSUME NEW c \in Callers, JudgeState(c), UNCHANGED keeping  PROVE Goal
  BY <1>9 DEF JudgeState, Back
<1>10. ASSUME NEW c \in Callers, AskCancel(c), UNCHANGED keeping  PROVE Goal
  <2>1. PICK h \in Entries :
               IF exits[h] # NoExit
               THEN answered' = answered \cup {h} /\ UNCHANGED <<ask, on>>
               ELSE /\ on' = [on EXCEPT ![c] = h]
                    /\ ask' = [ask EXCEPT ![c] = "tomb"]
                    /\ UNCHANGED answered
    BY <1>10 DEF AskCancel
  <2>2. CASE exits[h] # NoExit  BY <1>10, <2>1, <2>2 DEF AskCancel
  <2>3. CASE exits[h] = NoExit  BY <1>10, <2>1, <2>3 DEF AskCancel
  <2> QED  BY <2>2, <2>3
<1>11. ASSUME NEW c \in Callers, SetTomb(c), UNCHANGED keeping  PROVE Goal
  BY <1>11 DEF SetTomb
<1>12. ASSUME NEW c \in Callers, FenceEntry(c), UNCHANGED keeping  PROVE Goal
  <2>1. CASE claims[on[c]] = Free
    <3>1. /\ ask[c] = "fence" /\ claims' = [claims EXCEPT ![on[c]] = Fenced]
          /\ answered' = answered \cup {on[c]} /\ Back(c)
      BY <1>12, <2>1 DEF FenceEntry
    <3> QED  BY <1>12, <3>1 DEF FenceEntry, Back
  <2>2. CASE claims[on[c]] # Free  BY <1>12, <2>2 DEF FenceEntry
  <2> QED  BY <2>1, <2>2
<1>13. ASSUME NEW c \in Callers, PollCancel(c), UNCHANGED keeping  PROVE Goal
  <2>1. CASE Judged(facts[c], Ended) # "running"
    <3>1. ask[c] = "judge" /\ answered' = answered \cup {on[c]} /\ Back(c)
      BY <1>13, <2>1 DEF PollCancel
    <3> QED  BY <1>13, <2>1, <3>1 DEF PollCancel, Back
  <2>2. CASE Judged(facts[c], Ended) = "running"  BY <1>13, <2>2 DEF PollCancel
  <2> QED  BY <2>1, <2>2
<1>14. ASSUME NEW c \in Callers, CancelTimesOut(c), UNCHANGED keeping  PROVE Goal
  BY <1>14 DEF CancelTimesOut, Back
<1>15. ASSUME NEW h \in Entries, FactsRefused(h), UNCHANGED keeping  PROVE Goal
  BY <1>15 DEF FactsRefused
<1> HIDE DEF Goal
<1> QED
  BY <1>1, <1>2, <1>3, <1>4, <1>5, <1>6, <1>7, <1>8, <1>9, <1>10, <1>11,
     <1>12, <1>13, <1>14, <1>15
  DEF CenterStep, Enqueues, CallerActs

\* The token follows the line, and a keeper that runs is not newer than it.
LEMMA KeepersStep ==
    ASSUME HeldInv, LineStep
    PROVE  KeepersInv'
<1> DEFINE Goal == KeepersInv'
<1> SUFFICES Goal  OBVIOUS
<1> DEFINE Needed ==
        /\ KeepersInv /\ KeeperTypeOK
        /\ line \in LineNumbers
<1>0. Needed  BY DEF HeldInv, TypeOK, NodeTypeOK
<1> USE <1>0, NodeAssumption
        DEF KeepersInv, KeeperTypeOK, Keepers, LineNumbers, keepers, holding, spool, node
<1>1. ASSUME OpenLine, UNCHANGED center  PROVE Goal
  BY <1>1 DEF OpenLine, Opens
<1>2. ASSUME WriteLine, UNCHANGED center  PROVE Goal
  BY <1>2 DEF WriteLine, Opens
<1>3. ASSUME WriteToken, UNCHANGED center  PROVE Goal
  BY <1>3 DEF WriteToken, Opens
<1>4. ASSUME Unstop, UNCHANGED center  PROVE Goal
  BY <1>4 DEF Unstop, Opens
<1>5. ASSUME StartKeeper, UNCHANGED center  PROVE Goal
  BY <1>5 DEF StartKeeper, Opens
<1>6. ASSUME StopLine, UNCHANGED center  PROVE Goal
  BY <1>6 DEF StopLine, Stops
<1>7. ASSUME StopFences, UNCHANGED center  PROVE Goal
  <2>1. PICK h \in left : /\ left' = left \ {h}
                         /\ IF claims[h] = Free
                            THEN /\ claims' = [claims EXCEPT ![h] = Fenced]
                                 /\ tomb' = tomb \cup {h}
                            ELSE UNCHANGED <<claims, tomb>>
    BY <1>7 DEF StopFences
  <2>2. /\ Stops("fence", "fence")
        /\ UNCHANGED <<doomed, hasty, inbox, exits, stop, line, lapsed, node, keepers>>
    BY <1>7 DEF StopFences
  <2>3. CASE claims[h] = Free
    <3>1. claims' = [claims EXCEPT ![h] = Fenced] /\ tomb' = tomb \cup {h}
      BY <2>1, <2>3
    <3> QED  BY <1>7, <2>1, <2>2, <3>1 DEF Stops
  <2>4. CASE claims[h] # Free
    <3>1. UNCHANGED <<claims, tomb>>  BY <2>1, <2>4
    <3> QED  BY <1>7, <2>1, <2>2, <3>1 DEF Stops
  <2> QED  BY <2>3, <2>4
<1>8. ASSUME StopFenced, UNCHANGED center  PROVE Goal
  BY <1>8 DEF StopFenced, Stops
<1>9. ASSUME StopWatched, UNCHANGED center  PROVE Goal
  BY <1>9 DEF StopWatched, Stops
<1>10. ASSUME Qdel, UNCHANGED center  PROVE Goal
  <2>1. CASE pbs[doomed] = "live"  BY <1>10, <2>1 DEF Qdel, Stops, Killed
  <2>2. CASE pbs[doomed] # "live"  BY <1>10, <2>2 DEF Qdel, Stops
  <2> QED  BY <2>1, <2>2
<1>11. ASSUME NEW k \in Keepers, KeeperLoops(k), UNCHANGED center  PROVE Goal
  BY <1>11 DEF KeeperLoops, Keep
<1>12. ASSUME NEW k \in Keepers, MakeGen(k), UNCHANGED center  PROVE Goal
  <2>1. CASE gen[k] \in dirs
    <3>1. Keep(k, "mkdir", "loop") /\ gen' = [gen EXCEPT ![k] = @ + 1] /\ UNCHANGED dirs
      BY <1>12, <2>1 DEF MakeGen
    <3> QED  BY <1>12, <3>1 DEF MakeGen, Keep
  <2>2. CASE gen[k] \notin dirs  BY <1>12, <2>2 DEF MakeGen, Keep
  <2> QED  BY <2>1, <2>2
<1>13. ASSUME NEW k \in Keepers, Granted(k), UNCHANGED center  PROVE Goal
  BY <1>13 DEF Granted, Keep, Serve, To
<1>14. ASSUME NEW k \in Keepers, QsubRefused(k), UNCHANGED center  PROVE Goal
  BY <1>14 DEF QsubRefused, Keep
<1>15. ASSUME NEW k \in Keepers, QsubReturns(k), UNCHANGED center  PROVE Goal
  BY <1>15 DEF QsubReturns, Keep
<1>16. ASSUME NEW k \in Keepers, KeeperDies(k), UNCHANGED center  PROVE Goal
  <2>1. CASE keep[k] = "qsub" /\ pbs[gen[k]] = "live"  BY <1>16, <2>1 DEF KeeperDies, Killed
  <2>2. CASE ~(keep[k] = "qsub" /\ pbs[gen[k]] = "live")  BY <1>16, <2>2 DEF KeeperDies
  <2> QED  BY <2>1, <2>2
<1>17. ASSUME StopTimesOut, UNCHANGED center  PROVE Goal
  BY <1>17 DEF StopTimesOut, Stops
<1> HIDE DEF Goal
<1> QED
  BY <1>1, <1>2, <1>3, <1>4, <1>5, <1>6, <1>7, <1>8, <1>9, <1>10, <1>11,
     <1>12, <1>13, <1>14, <1>15, <1>16, <1>17
  DEF LineStep, LineActs, KeeperActs

\* A release dooms only an allocation that has found the line stopped.
LEMMA DoomedLineStep ==
    ASSUME HeldInv, LineStep
    PROVE  DoomedInv'
<1> DEFINE Goal == DoomedInv'
<1> SUFFICES Goal  OBVIOUS
<1> DEFINE Needed ==
        /\ NodeTypeOK /\ DoomedInv /\ ServerInv /\ KeeperTypeOK
<1>0. Needed  BY DEF HeldInv, TypeOK
<1> USE <1>0, NodeAssumption, OwnersApart
        DEF NodeTypeOK, DoomedInv, ServerInv, KeeperTypeOK, Owning, keepers, holding, spool, node
<1>1. ASSUME OpenLine, UNCHANGED center  PROVE Goal
  BY <1>1 DEF OpenLine, Opens
<1>2. ASSUME WriteLine, UNCHANGED center  PROVE Goal
  BY <1>2 DEF WriteLine, Opens
<1>3. ASSUME WriteToken, UNCHANGED center  PROVE Goal
  BY <1>3 DEF WriteToken, Opens
<1>4. ASSUME Unstop, UNCHANGED center  PROVE Goal
  BY <1>4 DEF Unstop, Opens
<1>5. ASSUME StartKeeper, UNCHANGED center  PROVE Goal
  BY <1>5 DEF StartKeeper, Opens
<1>6. ASSUME StopLine, UNCHANGED center  PROVE Goal
  BY <1>6 DEF StopLine, Stops
<1>7. ASSUME StopFences, UNCHANGED center  PROVE Goal
  <2>1. PICK h \in left : /\ left' = left \ {h}
                         /\ IF claims[h] = Free
                            THEN /\ claims' = [claims EXCEPT ![h] = Fenced]
                                 /\ tomb' = tomb \cup {h}
                            ELSE UNCHANGED <<claims, tomb>>
    BY <1>7 DEF StopFences
  <2>2. /\ Stops("fence", "fence")
        /\ UNCHANGED <<doomed, hasty, inbox, exits, stop, line, lapsed, node, keepers>>
    BY <1>7 DEF StopFences
  <2>3. CASE claims[h] = Free
    <3>1. claims' = [claims EXCEPT ![h] = Fenced] /\ tomb' = tomb \cup {h}
      BY <2>1, <2>3
    <3> QED  BY <1>7, <2>1, <2>2, <3>1 DEF Stops
  <2>4. CASE claims[h] # Free
    <3>1. UNCHANGED <<claims, tomb>>  BY <2>1, <2>4
    <3> QED  BY <1>7, <2>1, <2>2, <3>1 DEF Stops
  <2> QED  BY <2>3, <2>4
<1>8. ASSUME StopFenced, UNCHANGED center  PROVE Goal
  BY <1>8 DEF StopFenced, Stops
<1>9. ASSUME StopWatched, UNCHANGED center  PROVE Goal
  BY <1>9 DEF StopWatched, Stops
<1>10. ASSUME Qdel, UNCHANGED center  PROVE Goal
  <2>1. CASE pbs[doomed] = "live"  BY <1>10, <2>1 DEF Qdel, Stops, Killed
  <2>2. CASE pbs[doomed] # "live"  BY <1>10, <2>2 DEF Qdel, Stops
  <2> QED  BY <2>1, <2>2
<1>11. ASSUME NEW k \in Keepers, KeeperLoops(k), UNCHANGED center  PROVE Goal
  BY <1>11 DEF KeeperLoops, Keep
<1>12. ASSUME NEW k \in Keepers, MakeGen(k), UNCHANGED center  PROVE Goal
  <2>1. CASE gen[k] \in dirs
    <3>1. Keep(k, "mkdir", "loop") /\ gen' = [gen EXCEPT ![k] = @ + 1] /\ UNCHANGED dirs
      BY <1>12, <2>1 DEF MakeGen
    <3> QED  BY <1>12, <3>1 DEF MakeGen, Keep
  <2>2. CASE gen[k] \notin dirs  BY <1>12, <2>2 DEF MakeGen, Keep
  <2> QED  BY <2>1, <2>2
<1>13. ASSUME NEW k \in Keepers, Granted(k), UNCHANGED center  PROVE Goal
  BY <1>13 DEF Granted, Keep, Serve, To
<1>14. ASSUME NEW k \in Keepers, QsubRefused(k), UNCHANGED center  PROVE Goal
  BY <1>14 DEF QsubRefused, Keep
<1>15. ASSUME NEW k \in Keepers, QsubReturns(k), UNCHANGED center  PROVE Goal
  BY <1>15 DEF QsubReturns, Keep
<1>16. ASSUME NEW k \in Keepers, KeeperDies(k), UNCHANGED center  PROVE Goal
  <2>1. CASE keep[k] = "qsub" /\ pbs[gen[k]] = "live"  BY <1>16, <2>1 DEF KeeperDies, Killed
  <2>2. CASE ~(keep[k] = "qsub" /\ pbs[gen[k]] = "live")  BY <1>16, <2>2 DEF KeeperDies
  <2> QED  BY <2>1, <2>2
<1>17. ASSUME StopTimesOut, UNCHANGED center  PROVE Goal
  <2>1. /\ doomed' = AllocOf /\ srv' = srv
        /\ hasty' = (beats[AllocOf] # None \/ srv[AllocOf] \in {"pick", "claim", "claimed"})
    BY <1>17 DEF StopTimesOut, Lags
  <2>2. AllocOf \in Gens  BY <1>17, NewestIsANumber DEF StopTimesOut
  <2>3. CASE hasty'  BY <2>1, <2>2, <2>3
  <2>4. CASE ~hasty'
    <3>1. beats[AllocOf] = None /\ srv[AllocOf] \notin {"pick", "claim", "claimed"}
      BY <2>1, <2>4
    <3>2. srv[AllocOf] \notin {"check", "start", "run", "term", "record"}
      BY <2>2, <3>1
    <3>3. srv[AllocOf] \in {"off", "look", "end"}  BY <2>2, <3>1, <3>2
    <3> QED  BY <2>1, <2>2, <3>3
  <2> QED  BY <2>3, <2>4
<1> HIDE DEF Goal
<1> QED
  BY <1>1, <1>2, <1>3, <1>4, <1>5, <1>6, <1>7, <1>8, <1>9, <1>10, <1>11,
     <1>12, <1>13, <1>14, <1>15, <1>16, <1>17
  DEF LineStep, LineActs, KeeperActs

\* While the line is stopped no server that found it so goes back to work.
LEMMA DoomedNodeStep ==
    ASSUME HeldInv, NodeStep
    PROVE  DoomedInv'
<1> DEFINE Goal == DoomedInv'
<1> SUFFICES Goal  OBVIOUS
<1> DEFINE Needed ==
        /\ NodeTypeOK /\ DoomedInv
<1>0. Needed  BY DEF HeldInv, TypeOK
<1> USE <1>0 DEF NodeTypeOK, DoomedInv, Finished, keeping, holding, keepers, spool, node
<1>1. ASSUME DeadlinePasses, UNCHANGED <<center, keeping>>  PROVE Goal
  BY <1>1 DEF DeadlinePasses
<1>2. ASSUME NEW g \in Gens, LookOn(g), UNCHANGED <<center, keeping>>  PROVE Goal
  BY <1>2 DEF LookOn, To
<1>3. ASSUME NEW g \in Gens, LookOut(g), UNCHANGED <<center, keeping>>  PROVE Goal
  BY <1>3 DEF LookOut, To
<1>4. ASSUME NEW g \in Gens, Pick(g), UNCHANGED <<center, keeping>>  PROVE Goal
  BY <1>4 DEF Pick, To, Queued
<1>5. ASSUME NEW g \in Gens, NoneFits(g), UNCHANGED <<center, keeping>>  PROVE Goal
  BY <1>5 DEF NoneFits, To
<1>6. ASSUME NEW g \in Gens, Claim(g), UNCHANGED <<center, keeping>>  PROVE Goal
  <2>1. CASE claims[cur[g]] = Free
    <3>1. /\ To(g, "claim", "claimed")
          /\ claims' = [claims EXCEPT ![cur[g]] = g] /\ UNCHANGED cur
      BY <1>6, <2>1 DEF Claim
    <3> QED  BY <1>6, <2>1, <3>1 DEF Claim, To
  <2>2. CASE claims[cur[g]] # Free
    <3>1. /\ To(g, "claim", "look")
          /\ cur' = [cur EXCEPT ![g] = None] /\ UNCHANGED claims
      BY <1>6, <2>2 DEF Claim
    <3> QED  BY <1>6, <2>2, <3>1 DEF Claim, To
  <2> QED  BY <2>1, <2>2
<1>7. ASSUME NEW g \in Gens, BeatRunning(g), UNCHANGED <<center, keeping>>
      PROVE  Goal
  BY <1>7 DEF BeatRunning, To
<1>8. ASSUME NEW g \in Gens, CheckTomb(g), UNCHANGED <<center, keeping>>  PROVE Goal
  BY <1>8 DEF CheckTomb, To
<1>9. ASSUME NEW g \in Gens, Start(g), UNCHANGED <<center, keeping>>  PROVE Goal
  BY <1>9 DEF Start, To
<1>10. ASSUME NEW g \in Gens, Terminate(g), UNCHANGED <<center, keeping>>
      PROVE  Goal
  BY <1>10 DEF Terminate, To
<1>11. ASSUME NEW g \in Gens, ProcessEnds(g), UNCHANGED <<center, keeping>>
      PROVE  Goal
  <2>1. CASE UNCHANGED exits  BY <1>11, <2>1 DEF ProcessEnds, To
  <2>2. CASE \E code \in Exits : Write(cur[g], code)  BY <1>11, <2>2 DEF ProcessEnds, To, Write
  <2> QED  BY <1>11, <2>1, <2>2 DEF ProcessEnds
<1>12. ASSUME NEW g \in Gens, RecordExit(g), UNCHANGED <<center, keeping>>
      PROVE  Goal
  BY <1>12 DEF RecordExit, To, Write
<1>13. ASSUME NEW g \in Gens, End(g), UNCHANGED <<center, keeping>>  PROVE Goal
  BY <1>13 DEF End, To
<1>14. ASSUME NEW g \in Gens, Faulted(g), UNCHANGED <<center, keeping>>  PROVE Goal
  BY <1>14 DEF Faulted, Killed
<1>15. ASSUME NEW g \in Gens, Forgets(g), UNCHANGED <<center, keeping>>  PROVE Goal
  BY <1>15 DEF Forgets
<1> HIDE DEF Goal
<1> QED
  BY <1>1, <1>2, <1>3, <1>4, <1>5, <1>6, <1>7, <1>8, <1>9, <1>10, <1>11,
     <1>12, <1>13, <1>14, <1>15
  DEF NodeStep, ServerActs

\* What CancelIsFinal says of a step, and OlderKeeperStops of one.
Finality == \A h \in answered : ~Running(h) /\ starts'[h] = starts[h]
Obedience ==
    \A k, q \in Keepers :
        q > k /\ keep[q] # "off" => ~(keep[k] = "loop" /\ keep'[k] = "mkdir")

\* No server starts a job that is over.
LEMMA OverNodeStep ==
    ASSUME HeldInv, NodeStep
    PROVE  \A h \in Entries : Over(h) => starts'[h] = starts[h]
<1> DEFINE Goal == \A h \in Entries : Over(h) => starts'[h] = starts[h]
<1> SUFFICES Goal  OBVIOUS
<1> DEFINE Needed ==
        /\ NodeTypeOK /\ ServerInv
<1>0. Needed  BY DEF HeldInv, TypeOK
<1> USE <1>0 DEF NodeTypeOK, ServerInv, Owning, Over, node
<1>1. ASSUME DeadlinePasses, UNCHANGED <<center, keeping>>  PROVE Goal
  BY <1>1 DEF DeadlinePasses
<1>2. ASSUME NEW g \in Gens, LookOn(g), UNCHANGED <<center, keeping>>  PROVE Goal
  BY <1>2 DEF LookOn, To
<1>3. ASSUME NEW g \in Gens, LookOut(g), UNCHANGED <<center, keeping>>  PROVE Goal
  BY <1>3 DEF LookOut, To
<1>4. ASSUME NEW g \in Gens, Pick(g), UNCHANGED <<center, keeping>>  PROVE Goal
  BY <1>4 DEF Pick, To, Queued
<1>5. ASSUME NEW g \in Gens, NoneFits(g), UNCHANGED <<center, keeping>>  PROVE Goal
  BY <1>5 DEF NoneFits, To
<1>6. ASSUME NEW g \in Gens, Claim(g), UNCHANGED <<center, keeping>>  PROVE Goal
  <2>1. CASE claims[cur[g]] = Free
    <3>1. /\ To(g, "claim", "claimed")
          /\ claims' = [claims EXCEPT ![cur[g]] = g] /\ UNCHANGED cur
      BY <1>6, <2>1 DEF Claim
    <3> QED  BY <1>6, <2>1, <3>1 DEF Claim, To
  <2>2. CASE claims[cur[g]] # Free
    <3>1. /\ To(g, "claim", "look")
          /\ cur' = [cur EXCEPT ![g] = None] /\ UNCHANGED claims
      BY <1>6, <2>2 DEF Claim
    <3> QED  BY <1>6, <2>2, <3>1 DEF Claim, To
  <2> QED  BY <2>1, <2>2
<1>7. ASSUME NEW g \in Gens, BeatRunning(g), UNCHANGED <<center, keeping>>
      PROVE  Goal
  BY <1>7 DEF BeatRunning, To
<1>8. ASSUME NEW g \in Gens, CheckTomb(g), UNCHANGED <<center, keeping>>  PROVE Goal
  BY <1>8 DEF CheckTomb, To
<1>9. ASSUME NEW g \in Gens, Start(g), UNCHANGED <<center, keeping>>  PROVE Goal
  BY <1>9 DEF Start, To
<1>10. ASSUME NEW g \in Gens, Terminate(g), UNCHANGED <<center, keeping>>
      PROVE  Goal
  BY <1>10 DEF Terminate, To
<1>11. ASSUME NEW g \in Gens, ProcessEnds(g), UNCHANGED <<center, keeping>>
      PROVE  Goal
  <2>1. CASE UNCHANGED exits  BY <1>11, <2>1 DEF ProcessEnds, To
  <2>2. CASE \E code \in Exits : Write(cur[g], code)  BY <1>11, <2>2 DEF ProcessEnds, To, Write
  <2> QED  BY <1>11, <2>1, <2>2 DEF ProcessEnds
<1>12. ASSUME NEW g \in Gens, RecordExit(g), UNCHANGED <<center, keeping>>
      PROVE  Goal
  BY <1>12 DEF RecordExit, To, Write
<1>13. ASSUME NEW g \in Gens, End(g), UNCHANGED <<center, keeping>>  PROVE Goal
  BY <1>13 DEF End, To
<1>14. ASSUME NEW g \in Gens, Faulted(g), UNCHANGED <<center, keeping>>  PROVE Goal
  BY <1>14 DEF Faulted, Killed
<1>15. ASSUME NEW g \in Gens, Forgets(g), UNCHANGED <<center, keeping>>  PROVE Goal
  BY <1>15 DEF Forgets
<1> HIDE DEF Goal
<1> QED
  BY <1>1, <1>2, <1>3, <1>4, <1>5, <1>6, <1>7, <1>8, <1>9, <1>10, <1>11,
     <1>12, <1>13, <1>14, <1>15
  DEF NodeStep, ServerActs

\* The line and its keepers start no job.
LEMMA OverLineStep ==
    ASSUME HeldInv, LineStep
    PROVE  UNCHANGED starts
<1> DEFINE Goal == UNCHANGED starts
<1> SUFFICES Goal  OBVIOUS
<1> USE DEF spool, node
<1>1. ASSUME OpenLine, UNCHANGED center  PROVE Goal
  BY <1>1 DEF OpenLine, Opens
<1>2. ASSUME WriteLine, UNCHANGED center  PROVE Goal
  BY <1>2 DEF WriteLine, Opens
<1>3. ASSUME WriteToken, UNCHANGED center  PROVE Goal
  BY <1>3 DEF WriteToken, Opens
<1>4. ASSUME Unstop, UNCHANGED center  PROVE Goal
  BY <1>4 DEF Unstop, Opens
<1>5. ASSUME StartKeeper, UNCHANGED center  PROVE Goal
  BY <1>5 DEF StartKeeper, Opens
<1>6. ASSUME StopLine, UNCHANGED center  PROVE Goal
  BY <1>6 DEF StopLine, Stops
<1>7. ASSUME StopFences, UNCHANGED center  PROVE Goal
  <2>1. PICK h \in left : /\ left' = left \ {h}
                         /\ IF claims[h] = Free
                            THEN /\ claims' = [claims EXCEPT ![h] = Fenced]
                                 /\ tomb' = tomb \cup {h}
                            ELSE UNCHANGED <<claims, tomb>>
    BY <1>7 DEF StopFences
  <2>2. /\ Stops("fence", "fence")
        /\ UNCHANGED <<doomed, hasty, inbox, exits, stop, line, lapsed, node, keepers>>
    BY <1>7 DEF StopFences
  <2>3. CASE claims[h] = Free
    <3>1. claims' = [claims EXCEPT ![h] = Fenced] /\ tomb' = tomb \cup {h}
      BY <2>1, <2>3
    <3> QED  BY <1>7, <2>1, <2>2, <3>1 DEF Stops
  <2>4. CASE claims[h] # Free
    <3>1. UNCHANGED <<claims, tomb>>  BY <2>1, <2>4
    <3> QED  BY <1>7, <2>1, <2>2, <3>1 DEF Stops
  <2> QED  BY <2>3, <2>4
<1>8. ASSUME StopFenced, UNCHANGED center  PROVE Goal
  BY <1>8 DEF StopFenced, Stops
<1>9. ASSUME StopWatched, UNCHANGED center  PROVE Goal
  BY <1>9 DEF StopWatched, Stops
<1>10. ASSUME Qdel, UNCHANGED center  PROVE Goal
  <2>1. CASE pbs[doomed] = "live"  BY <1>10, <2>1 DEF Qdel, Stops, Killed
  <2>2. CASE pbs[doomed] # "live"  BY <1>10, <2>2 DEF Qdel, Stops
  <2> QED  BY <2>1, <2>2
<1>11. ASSUME NEW k \in Keepers, KeeperLoops(k), UNCHANGED center  PROVE Goal
  BY <1>11 DEF KeeperLoops, Keep
<1>12. ASSUME NEW k \in Keepers, MakeGen(k), UNCHANGED center  PROVE Goal
  <2>1. CASE gen[k] \in dirs
    <3>1. Keep(k, "mkdir", "loop") /\ gen' = [gen EXCEPT ![k] = @ + 1] /\ UNCHANGED dirs
      BY <1>12, <2>1 DEF MakeGen
    <3> QED  BY <1>12, <3>1 DEF MakeGen, Keep
  <2>2. CASE gen[k] \notin dirs  BY <1>12, <2>2 DEF MakeGen, Keep
  <2> QED  BY <2>1, <2>2
<1>13. ASSUME NEW k \in Keepers, Granted(k), UNCHANGED center  PROVE Goal
  BY <1>13 DEF Granted, Keep, Serve, To
<1>14. ASSUME NEW k \in Keepers, QsubRefused(k), UNCHANGED center  PROVE Goal
  BY <1>14 DEF QsubRefused, Keep
<1>15. ASSUME NEW k \in Keepers, QsubReturns(k), UNCHANGED center  PROVE Goal
  BY <1>15 DEF QsubReturns, Keep
<1>16. ASSUME NEW k \in Keepers, KeeperDies(k), UNCHANGED center  PROVE Goal
  <2>1. CASE keep[k] = "qsub" /\ pbs[gen[k]] = "live"  BY <1>16, <2>1 DEF KeeperDies, Killed
  <2>2. CASE ~(keep[k] = "qsub" /\ pbs[gen[k]] = "live")  BY <1>16, <2>2 DEF KeeperDies
  <2> QED  BY <2>1, <2>2
<1>17. ASSUME StopTimesOut, UNCHANGED center  PROVE Goal
  BY <1>17 DEF StopTimesOut, Stops
<1> HIDE DEF Goal
<1> QED
  BY <1>1, <1>2, <1>3, <1>4, <1>5, <1>6, <1>7, <1>8, <1>9, <1>10, <1>11,
     <1>12, <1>13, <1>14, <1>15, <1>16, <1>17
  DEF LineStep, LineActs, KeeperActs

\* A keeper goes on only while the token is its own, and no newer one runs then.
LEMMA ObeyStep ==
    ASSUME HeldInv, LineStep
    PROVE  Obedience
<1> DEFINE Goal == Obedience
<1> SUFFICES Goal  OBVIOUS
<1> DEFINE Needed ==
        /\ KeepersInv /\ KeeperTypeOK
        /\ line \in LineNumbers
<1>0. Needed  BY DEF HeldInv, TypeOK, NodeTypeOK
<1> USE <1>0, NodeAssumption
        DEF Obedience, KeepersInv, KeeperTypeOK, Keepers, LineNumbers, keepers, holding, spool,
            node, Own
<1>1. ASSUME OpenLine, UNCHANGED center  PROVE Goal
  BY <1>1 DEF OpenLine, Opens
<1>2. ASSUME WriteLine, UNCHANGED center  PROVE Goal
  BY <1>2 DEF WriteLine, Opens
<1>3. ASSUME WriteToken, UNCHANGED center  PROVE Goal
  BY <1>3 DEF WriteToken, Opens
<1>4. ASSUME Unstop, UNCHANGED center  PROVE Goal
  BY <1>4 DEF Unstop, Opens
<1>5. ASSUME StartKeeper, UNCHANGED center  PROVE Goal
  BY <1>5 DEF StartKeeper, Opens
<1>6. ASSUME StopLine, UNCHANGED center  PROVE Goal
  BY <1>6 DEF StopLine, Stops
<1>7. ASSUME StopFences, UNCHANGED center  PROVE Goal
  <2>1. PICK h \in left : /\ left' = left \ {h}
                         /\ IF claims[h] = Free
                            THEN /\ claims' = [claims EXCEPT ![h] = Fenced]
                                 /\ tomb' = tomb \cup {h}
                            ELSE UNCHANGED <<claims, tomb>>
    BY <1>7 DEF StopFences
  <2>2. /\ Stops("fence", "fence")
        /\ UNCHANGED <<doomed, hasty, inbox, exits, stop, line, lapsed, node, keepers>>
    BY <1>7 DEF StopFences
  <2>3. CASE claims[h] = Free
    <3>1. claims' = [claims EXCEPT ![h] = Fenced] /\ tomb' = tomb \cup {h}
      BY <2>1, <2>3
    <3> QED  BY <1>7, <2>1, <2>2, <3>1 DEF Stops
  <2>4. CASE claims[h] # Free
    <3>1. UNCHANGED <<claims, tomb>>  BY <2>1, <2>4
    <3> QED  BY <1>7, <2>1, <2>2, <3>1 DEF Stops
  <2> QED  BY <2>3, <2>4
<1>8. ASSUME StopFenced, UNCHANGED center  PROVE Goal
  BY <1>8 DEF StopFenced, Stops
<1>9. ASSUME StopWatched, UNCHANGED center  PROVE Goal
  BY <1>9 DEF StopWatched, Stops
<1>10. ASSUME Qdel, UNCHANGED center  PROVE Goal
  <2>1. CASE pbs[doomed] = "live"  BY <1>10, <2>1 DEF Qdel, Stops, Killed
  <2>2. CASE pbs[doomed] # "live"  BY <1>10, <2>2 DEF Qdel, Stops
  <2> QED  BY <2>1, <2>2
<1>11. ASSUME NEW k \in Keepers, KeeperLoops(k), UNCHANGED center  PROVE Goal
  BY <1>11 DEF KeeperLoops, Keep
<1>12. ASSUME NEW k \in Keepers, MakeGen(k), UNCHANGED center  PROVE Goal
  <2>1. CASE gen[k] \in dirs
    <3>1. Keep(k, "mkdir", "loop") /\ gen' = [gen EXCEPT ![k] = @ + 1] /\ UNCHANGED dirs
      BY <1>12, <2>1 DEF MakeGen
    <3> QED  BY <1>12, <3>1 DEF MakeGen, Keep
  <2>2. CASE gen[k] \notin dirs  BY <1>12, <2>2 DEF MakeGen, Keep
  <2> QED  BY <2>1, <2>2
<1>13. ASSUME NEW k \in Keepers, Granted(k), UNCHANGED center  PROVE Goal
  BY <1>13 DEF Granted, Keep, Serve, To
<1>14. ASSUME NEW k \in Keepers, QsubRefused(k), UNCHANGED center  PROVE Goal
  BY <1>14 DEF QsubRefused, Keep
<1>15. ASSUME NEW k \in Keepers, QsubReturns(k), UNCHANGED center  PROVE Goal
  BY <1>15 DEF QsubReturns, Keep
<1>16. ASSUME NEW k \in Keepers, KeeperDies(k), UNCHANGED center  PROVE Goal
  <2>1. CASE keep[k] = "qsub" /\ pbs[gen[k]] = "live"  BY <1>16, <2>1 DEF KeeperDies, Killed
  <2>2. CASE ~(keep[k] = "qsub" /\ pbs[gen[k]] = "live")  BY <1>16, <2>2 DEF KeeperDies
  <2> QED  BY <2>1, <2>2
<1>17. ASSUME StopTimesOut, UNCHANGED center  PROVE Goal
  BY <1>17 DEF StopTimesOut, Stops
<1> HIDE DEF Goal
<1> QED
  BY <1>1, <1>2, <1>3, <1>4, <1>5, <1>6, <1>7, <1>8, <1>9, <1>10, <1>11,
     <1>12, <1>13, <1>14, <1>15, <1>16, <1>17
  DEF LineStep, LineActs, KeeperActs

\* A step that changes nothing keeps everything.
LEMMA HeldStutter ==
    ASSUME HeldInv, UNCHANGED vars
    PROVE  HeldInv'
<1> USE DEF vars, spool, node, center, submitting, asking, keeping, keepers, holding
<1>1. TypeOK'  BY DEF HeldInv, TypeOK, NodeTypeOK, CenterTypeOK, KeeperTypeOK
<1>2. ServerInv' /\ EntryInv'  BY DEF HeldInv, ServerInv, EntryInv, Over
<1>3. CallerInv' /\ SubmitInv'  BY DEF HeldInv, CallerInv, SubmitInv
<1>4. KeepersInv' /\ DoomedInv'  BY DEF HeldInv, KeepersInv, DoomedInv
<1> QED  BY <1>1, <1>2, <1>3, <1>4 DEF HeldInv

\* Every step keeps the invariant.
LEMMA HeldStep ==
    ASSUME HeldInv, Next
    PROVE  HeldInv'
<1>1. NodeTypeOK' /\ ServerInv' /\ EntryInv'
  BY NodeTyped, ServerStep, EntryStep
<1>2. CASE CenterStep
  <2>1. UNCHANGED <<keeping, srv, stop, line>>  BY <1>2, CenterFrame DEF node
  <2>2. KeeperTypeOK' /\ KeepersInv' /\ DoomedInv'
    BY <2>1 DEF HeldInv, TypeOK, KeeperTypeOK, KeepersInv, DoomedInv, keeping, keepers, holding
  <2> QED
    BY <1>1, <1>2, <2>2, CenterTyped, CallerStep, SubmitStep DEF HeldInv, TypeOK
<1>3. ASSUME UNCHANGED center
      PROVE  CenterTypeOK' /\ CallerInv' /\ SubmitInv'
  <2>1. WrittenOnce  BY RecordsLast
  <2>2. CallerInv'
    <3> USE <1>3 DEF center, submitting, asking
    <3> DEFINE Needed == CenterTypeOK /\ CallerInv
    <3>1. Needed  BY DEF HeldInv, TypeOK
    <3> QED  BY <2>1, <3>1 DEF CenterTypeOK, CallerInv, WrittenOnce
  <2> QED
    BY <1>3, <2>2
       DEF HeldInv, TypeOK, CenterTypeOK, SubmitInv, center, submitting, asking
<1>4. CASE LineStep
  <2>1. UNCHANGED center  BY <1>4 DEF LineStep
  <2> QED
    BY <1>1, <1>3, <1>4, <2>1, KeeperTyped, KeepersStep, DoomedLineStep DEF HeldInv, TypeOK
<1>5. CASE NodeStep
  <2>1. UNCHANGED <<center, keeping, stop, line>>  BY <1>5, NodeFrame
  <2>2. KeeperTypeOK' /\ KeepersInv'
    BY <2>1 DEF HeldInv, TypeOK, KeeperTypeOK, KeepersInv, keeping, keepers, holding
  <2> QED
    BY <1>1, <1>3, <1>5, <2>1, <2>2, DoomedNodeStep DEF HeldInv, TypeOK
<1> QED  BY <1>2, <1>4, <1>5 DEF Next

\* The invariant holds of every state a held line reaches.
LEMMA HeldHolds == Spec => []HeldInv
<1>1. Init => HeldInv
  <2> SUFFICES ASSUME Init  PROVE HeldInv
    OBVIOUS
  <2>1. NodeTypeOK
    <3>1. MaxLines \in Nat  BY NodeAssumption
    <3>2. 0 \in LineNumbers /\ 0 \in 0..Twice  BY <3>1 DEF LineNumbers, Twice
    <3>3. line \in LineNumbers /\ serves \in [Gens -> LineNumbers] /\ starts \in [Entries -> 0..Twice]
      BY <3>2 DEF Init, NodeInit
    <3> QED  BY <3>3 DEF Init, NodeInit, NodeTypeOK
  <2> USE NodeAssumption, KeeperAssumption, OwnersApart DEF Init, NodeInit, CenterInit, KeeperInit
  <2>2. CenterTypeOK  BY DEF CenterTypeOK, NoFacts, NotSaid
  <2>3. KeeperTypeOK
    <3>1. token \in LineNumbers  BY DEF LineNumbers
    <3>2. stopping = "idle" /\ hasty = FALSE  OBVIOUS
    <3> QED  BY <3>1, <3>2 DEF KeeperTypeOK
  <2>4. ServerInv /\ EntryInv  BY DEF ServerInv, EntryInv, Over, Owning
  <2>5. CallerInv /\ SubmitInv  BY DEF CallerInv, SubmitInv
  <2>6. KeepersInv /\ DoomedInv  BY DEF KeepersInv, DoomedInv
  <2> QED  BY <2>1, <2>2, <2>3, <2>4, <2>5, <2>6 DEF HeldInv, TypeOK
<1>2. HeldInv /\ [Next]_vars => HeldInv'
  BY HeldStep, HeldStutter
<1> QED  BY <1>1, <1>2, PTL DEF Spec

\* A held line stays well formed: its files, its calls and its keepers.
THEOREM HeldType == Spec => []TypeOK
<1>1. HeldInv => TypeOK  BY DEF HeldInv
<1> QED  BY HeldHolds, <1>1, PTL

\* An entry is started at most once, and a fenced one never, however many
\* allocations serve the spool and however often a write is retried or late
\* (Spool.claim, Server.work, Held.enqueue).
THEOREM HeldStartedOnce == Spec => []StartedOnce
<1>1. HeldInv => StartedOnce
  BY OwnersApart DEF HeldInv, TypeOK, NodeTypeOK, EntryInv, StartedOnce, Twice
<1> QED  BY HeldHolds, <1>1, PTL

\* Where the servers keep the code's limits, a beat within _FRESH and from
\* picking to the forced beat within _ENDS, a release kills no job that was
\* claimed, unless a line was opened over it (Line._stop).
THEOREM HeldRelease == Spec => []ReleaseSparesJobs
<1>1. HeldInv => ReleaseSparesJobs
  BY DEF HeldInv, DoomedInv, ReleaseSparesJobs
<1> QED  BY HeldHolds, <1>1, PTL

\* A cancel answers only for a job that does not run and never will
\* (Held.cancel).
THEOREM HeldCancel == Spec => CancelIsFinal
<1>1. HeldInv /\ [Next]_vars => [Finality]_vars
  <2> SUFFICES ASSUME HeldInv, Next  PROVE Finality
    OBVIOUS
  <2>1. \A h \in answered : h \in Entries /\ Over(h)
    BY DEF HeldInv, TypeOK, CenterTypeOK, EntryInv
  <2>2. \A h \in Entries : Over(h) => starts'[h] = starts[h]
    BY OverNodeStep, OverLineStep, CenterFrame DEF Next, node
  <2>3. \A h \in Entries : Over(h) => ~Running(h)
    BY DEF Over, Running
  <2> QED  BY <2>1, <2>2, <2>3 DEF Finality
<1>2. HeldInv /\ [Next]_vars =>
        [\A h \in answered : ~Running(h) /\ starts'[h] = starts[h]]_vars
  BY <1>1 DEF Finality
<1> QED  BY HeldHolds, <1>2, PTL DEF Spec, CancelIsFinal

\* Once the keeper of a newer line runs, no older one, on whatever login node,
\* opens another generation (Line._start, the keeper script).
THEOREM HeldKeepers == Spec => OlderKeeperStops
<1>1. HeldInv /\ [Next]_vars => [Obedience]_vars
  <2> SUFFICES ASSUME HeldInv, Next  PROVE Obedience
    OBVIOUS
  <2>1. CASE LineStep  BY <2>1, ObeyStep
  <2>2. CASE CenterStep
    <3>1. keep' = keep  BY <2>2, CenterFrame DEF keeping, keepers
    <3> QED  BY <3>1 DEF Obedience
  <2>3. CASE NodeStep
    <3>1. keep' = keep  BY <2>3, NodeFrame DEF keeping, keepers
    <3> QED  BY <3>1 DEF Obedience
  <2> QED  BY <2>1, <2>2, <2>3 DEF Next
<1>2. HeldInv /\ [Next]_vars =>
        [\A k, q \in Keepers :
            q > k /\ keep[q] # "off" => ~(keep[k] = "loop" /\ keep'[k] = "mkdir")]_vars
  BY <1>1 DEF Obedience
<1> QED  BY HeldHolds, <1>2, PTL DEF Spec, OlderKeeperStops

\* A claim has one owner for ever and an exit record is never replaced
\* (Spool.claim, Server.record).
THEOREM HeldRecords == Spec => [][WrittenOnce]_vars
<1>1. HeldInv /\ [Next]_vars => [WrittenOnce]_vars  BY RecordsLast
<1> QED  BY HeldHolds, <1>1, PTL DEF Spec
===============================================================================
