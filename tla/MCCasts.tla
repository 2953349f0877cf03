------------------------------- MODULE MCCasts --------------------------------
(***************************************************************************)
(* The lifecycle seen through several casts in one run: who takes part,    *)
(* and what may happen around them, is drawn at the start and kept, and    *)
(* the others stay at rest.  Its behaviours, the cast left out, are        *)
(* behaviours of Spec.                                                     *)
(***************************************************************************)
EXTENDS MCLifecycle

ASSUME CastAssumption ==
    {r1, r2} \subseteq Runs /\ {p1, p2} \subseteq Passes /\ s1 \in Stoppers /\ k1 \in Reapers

VARIABLE cast

Cast(runs, passes, stoppers, reapers) ==
    [runs |-> runs, passes |-> passes, stoppers |-> stoppers, reapers |-> reapers]

Cancel == Cast({r1}, {p1}, {s1}, {})
Reaped == Cast({r1}, {p1}, {}, {k1})
TwoPasses == Cast({r1}, {p1, p2}, {}, {})
Abandoned == Cast({r1}, {}, {s1}, {k1})
Retried == Cast({r1, r2}, {}, {}, {k1})

\* What may happen around a cast: a target is undeclared and a session's
\* outcome asked for where a stopper meets a reaper, a grace runs out where
\* there is a reaper; where there is a stopper a job that ends fails, the
\* provider takes no machine back of itself, and evidence is recorded with its
\* event, which nothing asked of those casts depends on; two passes are not
\* met by a machine that ends its job before it was launched.
Published ==
    \A r \in Runs :
        evidence'[r] # evidence[r] =>
            event'[r] = IF evidence'[r] \in Copied THEN "copied" ELSE "other"

Around ==
    /\ cast # Abandoned =>
          declared' = declared /\ \A s \in Stoppers : ended'[s] = "cancelled"
    /\ cast.reapers = {} =>
          young' = young /\ \A r \in Runs : term'[r] # "overdue"
    /\ cast.stoppers # {} =>
          /\ land' = land => Published
          /\ \A r \in Runs :
                /\ job'[r] \notin {"ok", "unlanded"}
                /\ ~(Preempted(r) /\ UNCHANGED <<land, passVars, stopVars, reapVars>>)
    /\ cast = TwoPasses => \A r \in Runs : job'[r] # "unlanded"
    /\ cast = Retried => job' = job /\ term' = term

CastInit == Init /\ cast \in {Cancel, Reaped, TwoPasses, Abandoned, Retried}

CastNext ==
    /\ \/ \E r \in cast.runs : Environment(r) \/ Lander(r)
       \/ Drop
       \/ \E p \in cast.passes : Settler(p)
       \/ \E s \in cast.stoppers : Stopper(s)
       \/ \E k \in cast.reapers : Collector(k)
    /\ Around
    /\ UNCHANGED cast

CastSpec == CastInit /\ [][CastNext]_<<vars, cast>>

\* As long as nobody stops the run by hand, evidence recorded as arrived is
\* the log of the whole job, whatever passes died, raced or were repeated: the
\* captured transcript that Monitor._recovered reads back is never a part.
EvidenceUnlessStopped == cast.stoppers = {} => EvidenceIsComplete
==============================================================================
