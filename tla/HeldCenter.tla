------------------------------ MODULE HeldCenter ------------------------------
(***************************************************************************)
(* The scheduler of a held line (dispatch/schedulers/pbs/held.py), as the  *)
(* center calls it over ssh: Held.enqueue from Dispatcher.handed           *)
(* (dispatch/dispatcher/core.py), Held.states from the settling pass,      *)
(* Held.cancel.                                                            *)
(*                                                                         *)
(*   sub[h]     where the submission of h stands; its last point is what   *)
(*              the registry says: "bound", "failed" or "submitting"       *)
(*   tries[h]   the writes it has attempted                                *)
(*   flying     writes whose reply was lost and which may still land       *)
(*   ask[c]     where caller c of states or cancel stands, on entry on[c]  *)
(*   facts[c]   what the spool told it                                     *)
(*   said[h]    the settled verdict a pass gave h, the first one: a        *)
(*              settled row is final (RunRegistry)                         *)
(*   answered   the entries a cancel has answered for                      *)
(***************************************************************************)
EXTENDS HeldNode

CONSTANTS
    Passes,     \* settling passes
    Cancellers, \* processes that cancel
    Losses      \* what becomes of a write whose reply is lost

Landed == "landed"
Late == "late"
Lost == "lost"

Callers == Passes \cup Cancellers

ASSUME CenterAssumption ==
    /\ Passes \cap Cancellers = {}
    /\ Losses \subseteq {Landed, Late, Lost}

VARIABLES sub, tries, flying, ask, on, facts, said, answered

submitting == <<sub, tries, flying>>
asking == <<ask, on, facts, said, answered>>
center == <<submitting, asking>>

NoFacts == [exit |-> NoExit, claim |-> Free, queued |-> FALSE, over |-> FALSE]
NotSaid == "nothing"

CenterTypeOK ==
    /\ sub \in [Entries -> {"fresh", "put", "confirm", "bound", "failed", "submitting"}]
    /\ tries \in [Entries -> 0..2]
    /\ flying \subseteq Entries
    /\ ask \in [Callers -> {"idle", "tomb", "fence", "facts", "judge"}]
    /\ on \in [Callers -> Entries \cup {None}]
    /\ facts \in [Callers -> [exit : Exits \cup {NoExit}, claim : Gens \cup {Free, Fenced},
                              queued : BOOLEAN, over : BOOLEAN]]
    /\ said \in [Entries -> {NotSaid, "ok", "failed", "cancelled", "vanished"}]
    /\ answered \subseteq Entries

CenterInit ==
    /\ sub = [h \in Entries |-> "fresh"]
    /\ tries = [h \in Entries |-> 0]
    /\ flying = {}
    /\ ask = [c \in Callers |-> "idle"]
    /\ on = [c \in Callers |-> None]
    /\ facts = [c \in Callers |-> NoFacts]
    /\ said = [h \in Entries |-> NotSaid]
    /\ answered = {}

(***************************************************************************)
(* Held.enqueue.                                                           *)
(***************************************************************************)
\* Past the deadline and its grace, released, or absent.
LineOver == line = 0 \/ stop \/ line \in lapsed

\* Facts.admit of what Held._facts read, after the intent was recorded and
\* begun.
Admit(h) ==
    /\ sub[h] = "fresh"
    /\ sub' = [sub EXCEPT ![h] = IF LineOver THEN "failed" ELSE "put"]
    /\ UNCHANGED <<tries, flying, spool, node, asking>>

\* Remote.put, with its reply: 0 created, 3 existing.
Publish(entries, h) == entries \cup {h}
Put(h) ==
    /\ sub[h] = "put"
    /\ sub' = [sub EXCEPT ![h] = IF h \in inbox THEN "failed" ELSE "bound"]
    /\ inbox' = Publish(inbox, h)
    /\ UNCHANGED <<tries, flying, claims, tomb, exits, stop, line, lapsed, node, asking>>

\* Held._tried answers None: the write landed, will, or never does.
PutUnanswered(h, loss) ==
    /\ sub[h] = "put"
    /\ sub' = [sub EXCEPT ![h] = "confirm"]
    /\ tries' = [tries EXCEPT ![h] = @ + 1]
    /\ inbox' = IF loss = Landed THEN Publish(inbox, h) ELSE inbox
    /\ flying' = IF loss = Late THEN flying \cup {h} ELSE flying
    /\ UNCHANGED <<claims, tomb, exits, stop, line, lapsed, node, asking>>

Lands(h) ==
    /\ h \in flying
    /\ flying' = flying \ {h}
    /\ inbox' = Publish(inbox, h)
    /\ UNCHANGED <<sub, tries, claims, tomb, exits, stop, line, lapsed, node, asking>>

\* Confirmed by name: the entry is there, or written again, once.
Confirm(h) ==
    /\ sub[h] = "confirm"
    /\ sub' = [sub EXCEPT ![h] = IF h \in inbox THEN "bound"
                                 ELSE IF tries[h] < 2 THEN "put" ELSE "submitting"]
    /\ UNCHANGED <<tries, flying, spool, node, asking>>

\* Held._facts, to admit or to confirm: no reply keeps the intent, and a
\* spool that cannot be read is a refusal, which closes it.
FactsLost(h) ==
    /\ Losses # {}
    /\ sub[h] \in {"fresh", "confirm"}
    /\ sub' = [sub EXCEPT ![h] = "submitting"]
    /\ UNCHANGED <<tries, flying, spool, node, asking>>
FactsRefused(h) ==
    /\ sub[h] \in {"fresh", "confirm"}
    /\ sub' = [sub EXCEPT ![h] = "failed"]
    /\ UNCHANGED <<tries, flying, spool, node, asking>>

Enqueues(h) ==
    \/ Admit(h) \/ Put(h) \/ Lands(h) \/ Confirm(h)
    \/ FactsLost(h) \/ FactsRefused(h)
    \/ \E loss \in Losses : PutUnanswered(h, loss)

(***************************************************************************)
(* Held.states: the spool in one command, then PBS in another.             *)
(***************************************************************************)
AskStates(c) ==
    /\ c \in Passes /\ ask[c] = "idle"
    /\ \E h \in Entries :
        /\ sub[h] = "bound" /\ said[h] = NotSaid
        /\ on' = [on EXCEPT ![c] = h]
    /\ ask' = [ask EXCEPT ![c] = "facts"]
    /\ UNCHANGED <<facts, said, answered, spool, node, submitting>>

ReadFacts(c) ==
    /\ ask[c] = "facts"
    /\ ask' = [ask EXCEPT ![c] = "judge"]
    /\ facts' = [facts EXCEPT ![c] =
                    [exit |-> exits[on[c]], claim |-> claims[on[c]],
                     queued |-> on[c] \in inbox, over |-> LineOver]]
    /\ UNCHANGED <<on, said, answered, spool, node, submitting>>

\* Held._judge and _claimed; "running" also stands for queued.
InFlightForever(f, ended) ==        \* mutant: PBS is not asked
    IF f.exit # NoExit THEN IF f.exit = "ok" THEN "ok" ELSE "failed"
    ELSE IF f.claim = Fenced THEN "cancelled"
    ELSE IF f.claim \in Gens THEN "running"
    ELSE IF ~f.queued THEN "vanished"
    ELSE IF f.over THEN "cancelled" ELSE "running"
Judged(f, ended) ==
    IF f.exit # NoExit THEN IF f.exit = "ok" THEN "ok" ELSE "failed"
    ELSE IF f.claim = Fenced THEN "cancelled"
    ELSE IF f.claim \in Gens THEN IF f.claim \in ended THEN "vanished" ELSE "running"
    ELSE IF ~f.queued THEN "vanished"
    ELSE IF f.over THEN "cancelled" ELSE "running"

\* The allocations PBS says ended: one it cannot find is none of them, and
\* what it claimed stays in flight.
Ended == {g \in Gens : pbs[g] = "over"}
Back(c) ==
    /\ ask' = [ask EXCEPT ![c] = "idle"]
    /\ on' = [on EXCEPT ![c] = None]
    /\ facts' = [facts EXCEPT ![c] = NoFacts]

JudgeState(c) ==
    /\ c \in Passes /\ ask[c] = "judge"
    /\ Back(c)
    /\ LET word == Judged(facts[c], Ended) IN
       said' = [said EXCEPT ![on[c]] =
                    IF @ = NotSaid /\ word # "running" THEN word ELSE @]
    /\ UNCHANGED <<answered, spool, node, submitting>>

(***************************************************************************)
(* Held.cancel: Remote.fence, one line of its shell at a time, and for a   *)
(* claimed entry a poll of states until it runs no more.                   *)
(***************************************************************************)
AskCancel(c) ==
    /\ c \in Cancellers /\ ask[c] = "idle"
    /\ \E h \in Entries :
        /\ sub[h] = "bound"
        /\ IF exits[h] # NoExit
           THEN answered' = answered \cup {h} /\ UNCHANGED <<ask, on>>
           ELSE /\ on' = [on EXCEPT ![c] = h]
                /\ ask' = [ask EXCEPT ![c] = "tomb"]
                /\ UNCHANGED answered
    /\ UNCHANGED <<facts, said, spool, node, submitting>>

SetTomb(c) ==
    /\ ask[c] = "tomb"
    /\ ask' = [ask EXCEPT ![c] = "fence"]
    /\ tomb' = tomb \cup {on[c]}
    /\ UNCHANGED <<inbox, claims, exits, stop, line, lapsed>>
    /\ UNCHANGED <<on, facts, said, answered, node, submitting>>

TombIsEnough(c) ==                  \* mutant: a claimed entry is not waited for
    /\ ask[c] = "fence"
    /\ answered' = answered \cup {on[c]}
    /\ claims' = [claims EXCEPT ![on[c]] = IF @ = Free THEN Fenced ELSE @]
    /\ Back(c)
    /\ UNCHANGED <<inbox, tomb, exits, stop, line, lapsed, said, node, submitting>>

\* claim_cancelled: 0 fenced, 1 an allocation was first.
FenceEntry(c) ==
    /\ ask[c] = "fence"
    /\ IF claims[on[c]] = Free
       THEN /\ claims' = [claims EXCEPT ![on[c]] = Fenced]
            /\ answered' = answered \cup {on[c]}
            /\ Back(c)
       ELSE /\ ask' = [ask EXCEPT ![c] = "facts"]
            /\ UNCHANGED <<claims, answered, on, facts>>
    /\ UNCHANGED <<inbox, tomb, exits, stop, line, lapsed, said, node, submitting>>

PollCancel(c) ==
    /\ c \in Cancellers /\ ask[c] = "judge"
    /\ IF Judged(facts[c], Ended) # "running"
       THEN answered' = answered \cup {on[c]} /\ Back(c)
       ELSE /\ ask' = [ask EXCEPT ![c] = "facts"]
            /\ UNCHANGED <<answered, on, facts>>
    /\ UNCHANGED <<said, spool, node, submitting>>

\* Still running after _CANCEL_SECONDS: raised, not answered.
CancelTimesOut(c) ==
    /\ c \in Cancellers /\ ask[c] = "facts"
    /\ Back(c)
    /\ UNCHANGED <<said, answered, spool, node, submitting>>

CallerActs(c) ==
    \/ AskStates(c) \/ ReadFacts(c) \/ JudgeState(c)
    \/ AskCancel(c) \/ SetTomb(c) \/ FenceEntry(c) \/ PollCancel(c)
    \/ CancelTimesOut(c)
==============================================================================
