------------------------------ MODULE HeldKeeper ------------------------------
(***************************************************************************)
(* `host hold` and `host release` on a PBS host (holding/line.py): Line    *)
(* opens a line and stops it over ssh, and the generated keeper script     *)
(* opens one allocation after another on the login node.                   *)
(*                                                                         *)
(*   token     keeper.token: the keeper that owns the line, by its line    *)
(*   keep[k]   where keeper k stands, gen[k] the generation it is at       *)
(*   dirs      the generations' directories                                *)
(*   opening   where Line.open stands                                      *)
(*   stopping  where Line._stop stands, left its entries still to fence,   *)
(*             doomed the allocation it is about to qdel, and hasty        *)
(*             whether that one had a job in hand when it was given up     *)
(***************************************************************************)
EXTENDS HeldNode, FiniteSetsExt

CONSTANTS
    Slots,      \* how many interactive allocations PBS grants at once
    Releases    \* whether a line is released before its deadline

VARIABLES token, keep, gen, dirs, opening, stopping, left, doomed, hasty

keepers == <<token, keep, gen, dirs>>
holding == <<opening, stopping, left, doomed, hasty>>
keeping == <<keepers, holding>>

Keepers == 1..MaxLines

ASSUME KeeperAssumption == Slots \in Nat /\ Releases \in BOOLEAN

KeeperTypeOK ==
    /\ token \in LineNumbers
    /\ keep \in [Keepers -> {"off", "loop", "mkdir", "ask", "qsub"}]
    /\ gen \in [Keepers -> Nat]
    /\ dirs \subseteq Gens
    /\ opening \in {"idle", "line", "token", "unstop", "start"}
    /\ stopping \in {"idle", "fence", "watch", "qdel"}
    /\ left \subseteq Entries
    /\ doomed \in Gens \cup {0} /\ hasty \in BOOLEAN

KeeperInit ==
    /\ token = 0
    /\ keep = [k \in Keepers |-> "off"]
    /\ gen = [k \in Keepers |-> 1]
    /\ dirs = {}
    /\ opening = "idle" /\ stopping = "idle"
    /\ left = {} /\ doomed = 0 /\ hasty = FALSE

Newest == IF dirs = {} THEN 0 ELSE Max(dirs)

\* LineStatus: the newest generation has an allocation that has not ended,
\* and the job its beat names, if it is younger than _FRESH.
AllocOf == IF Newest # 0 /\ pbs[Newest] = "live" THEN Newest ELSE 0
RunningNow == AllocOf # 0 /\ beats[AllocOf] # None

\* Line._state is one of absent, unkept and ended; a beat that is late, of
\* the allocation or of the keeper, reads as none.
Openable(late) ==
    \/ line = 0
    \/ stop /\ (~RunningNow \/ late)
    \/ ~stop /\ (line \in lapsed \/ late)
    \/ ~stop /\ token \notin {k \in Keepers : keep[k] # "off"}

(***************************************************************************)
(* Line.open and _start: the line, the token, no stop, the keeper.         *)
(***************************************************************************)
Opens(from, to) == opening = from /\ opening' = to /\ UNCHANGED <<stopping, left, doomed, hasty>>

OpenLine ==
    /\ line < MaxLines
    /\ \E late \in BOOLEAN : Openable(late)
    /\ Opens("idle", "line")
    /\ UNCHANGED <<spool, node, keepers>>

WriteLine ==
    /\ Opens("line", "token")
    /\ line' = line + 1
    /\ UNCHANGED <<inbox, claims, tomb, exits, stop, lapsed, node, keepers>>

WriteToken ==
    /\ Opens("token", "unstop")
    /\ token' = line
    /\ UNCHANGED <<spool, node, keep, gen, dirs>>

Unstop ==
    /\ Opens("unstop", "start")
    /\ stop' = FALSE
    /\ UNCHANGED <<inbox, claims, tomb, exits, line, lapsed, node, keepers>>

\* A keeper of the same session on this login node is killed, its allocation
\* with it; one on another login node is not.
HeldBy(ks) == {gen[k] : k \in {q \in ks : keep[q] = "qsub" /\ pbs[gen[q]] = "live"}}
StartKeeper ==
    \E gone \in SUBSET {k \in Keepers : keep[k] # "off"} :
        /\ Opens("start", "idle")
        /\ keep' = [k \in Keepers |-> IF k = line THEN "loop"
                                      ELSE IF k \in gone THEN "off" ELSE keep[k]]
        /\ gen' = [gen EXCEPT ![line] = Newest + 1]
        /\ pbs' = [g \in Gens |-> IF g \in HeldBy(gone) THEN "over" ELSE pbs[g]]
        /\ srv' = [g \in Gens |-> IF g \in HeldBy(gone) THEN "off" ELSE srv[g]]
        /\ cur' = [g \in Gens |-> IF g \in HeldBy(gone) THEN None ELSE cur[g]]
        /\ UNCHANGED <<token, dirs, spool, serves, beats, starts>>

(***************************************************************************)
(* Line.release, and the end of an open no allocation answered: _stop.     *)
(***************************************************************************)
Stops(from, to) == stopping = from /\ stopping' = to /\ UNCHANGED opening

StopLine ==
    /\ Releases /\ line > 0
    /\ Stops("idle", "fence")
    /\ stop' = TRUE
    /\ left' = inbox
    /\ UNCHANGED <<doomed, hasty, inbox, claims, tomb, exits, line, lapsed, node, keepers>>

\* claim_cancelled, and the tombstone of the entries it won.
StopFences ==
    \E h \in left :
        /\ Stops("fence", "fence")
        /\ left' = left \ {h}
        /\ IF claims[h] = Free
           THEN /\ claims' = [claims EXCEPT ![h] = Fenced]
                /\ tomb' = tomb \cup {h}
           ELSE UNCHANGED <<claims, tomb>>
        /\ UNCHANGED <<doomed, hasty, inbox, exits, stop, line, lapsed, node, keepers>>

StopFenced ==
    /\ left = {}
    /\ Stops("fence", "watch")
    /\ UNCHANGED <<left, doomed, hasty, spool, node, keepers>>

\* While _ENDS lasts: the allocation ended itself, or a job runs in it.
StopWatched ==
    /\ AllocOf = 0 \/ RunningNow
    /\ Stops("watch", "idle")
    /\ UNCHANGED <<left, doomed, hasty, spool, node, keepers>>

\* A server with a job whose beat is older than _FRESH, or that has been on
\* its way from picking one to its forced beat for all of _ENDS.
Lags(g) == beats[g] # None \/ srv[g] \in {"pick", "claim", "claimed"}

\* _ENDS is over, and the allocation still looks idle, whatever it does.
StopTimesOut ==
    /\ AllocOf # 0
    /\ Stops("watch", "qdel")
    /\ doomed' = AllocOf
    /\ hasty' = Lags(AllocOf)
    /\ UNCHANGED <<left, spool, node, keepers>>

Qdel ==
    /\ Stops("qdel", "idle")
    /\ IF pbs[doomed] = "live" THEN Killed(doomed) ELSE UNCHANGED <<spool, node>>
    /\ doomed' = 0 /\ hasty' = FALSE
    /\ UNCHANGED <<left, keepers>>

(***************************************************************************)
(* The keeper script.                                                      *)
(***************************************************************************)
Keep(k, from, to) == keep[k] = from /\ keep' = [keep EXCEPT ![k] = to]

AnyToken(k) == TRUE                 \* mutant: the token is not compared
\* own: keeper.token still holds this keeper's token.
Own(k) == token = k
KeeperLoops(k) ==
    /\ Keep(k, "loop", IF ~stop /\ Own(k) /\ k \notin lapsed /\ gen[k] \in Gens
                       THEN "mkdir" ELSE "off")
    /\ UNCHANGED <<token, gen, dirs, spool, node, holding>>

\* mkdir: a generation has one opener.
MakeGen(k) ==
    /\ IF gen[k] \in dirs
       THEN /\ Keep(k, "mkdir", "loop")
            /\ gen' = [gen EXCEPT ![k] = @ + 1]
            /\ UNCHANGED dirs
       ELSE /\ Keep(k, "mkdir", "ask")
            /\ dirs' = dirs \cup {gen[k]}
            /\ UNCHANGED gen
    /\ UNCHANGED <<token, spool, node, holding>>

Live == {g \in Gens : pbs[g] = "live"}

\* qsub -I grants an allocation, whose server starts.
Granted(k) ==
    /\ Keep(k, "ask", "qsub")
    /\ Cardinality(Live) < Slots
    /\ Serve(gen[k])
    /\ UNCHANGED <<token, gen, dirs, holding>>

\* qsub is refused: the generation goes, and is tried again.
QsubRefused(k) ==
    /\ Keep(k, "ask", "loop")
    /\ dirs' = dirs \ {gen[k]}
    /\ UNCHANGED <<token, gen, spool, node, holding>>

QsubReturns(k) ==
    /\ Keep(k, "qsub", "loop")
    /\ pbs[gen[k]] \in {"over", "forgotten"}
    /\ gen' = [gen EXCEPT ![k] = @ + 1]
    /\ UNCHANGED <<token, dirs, spool, node, holding>>

\* The login node goes, the keeper and its allocation with it.
KeeperDies(k) ==
    /\ Faults
    /\ keep[k] # "off"
    /\ keep' = [keep EXCEPT ![k] = "off"]
    /\ IF keep[k] = "qsub" /\ pbs[gen[k]] = "live"
       THEN Killed(gen[k]) ELSE UNCHANGED <<spool, node>>
    /\ UNCHANGED <<token, gen, dirs, holding>>

KeeperActs(k) ==
    KeeperLoops(k) \/ MakeGen(k) \/ Granted(k) \/ QsubRefused(k) \/ QsubReturns(k)
LineActs ==
    \/ OpenLine \/ WriteLine \/ WriteToken \/ Unstop \/ StartKeeper
    \/ StopLine \/ StopFences \/ StopFenced \/ StopWatched
    \/ StopTimesOut \/ Qdel
==============================================================================
