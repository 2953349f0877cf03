---------------------------- MODULE RegistryClients ----------------------------
(***************************************************************************)
(* The run registry under any sequence of calls by any number of           *)
(* processes, in any order: nothing is assumed of the callers except that  *)
(* they never resolve or report a row as an intent (`prepared`,            *)
(* `submitting`), and that a held line is no provider: what is queued on   *)
(* one asks for nothing a rental asks for.                                 *)
(***************************************************************************)
EXTENDS RunRegistry

CONSTANTS
    Lines,     \* the identities of jobs queued on a held line
    Said,      \* the verdicts callers resolve and report
    Statuses   \* the delivery statuses callers record

ASSUME ClientsAssumption ==
    /\ \A r \in Lines, s \in Runs \ Lines : Request[r] # Request[s]
    /\ Said \subseteq Words \ Pending
    /\ Statuses \subseteq Deliveries

Call(r) ==
    \/ \E word \in Said, isStop \in BOOLEAN : Resolve(r, isStop, word)
    \/ \E status \in Statuses : Delivery(r, status)
    \/ \E word \in Said : Report(r, word)
    \/ Relet(r)
    \/ Record(r)
    \/ Hold(r)
    \/ Forget(r)
    \/ r \in Lines /\ RecordIntent(r)
    \/ r \notin Lines /\ Reserve(r, "not_started")
    \/ \E word \in Words, withLease \in BOOLEAN : Prepared(r, word, withLease)
    \/ Reopen(r)
    \/ Bind(r)

RegistryNext == \E r \in Runs : Call(r)

RegistrySpec == RegistryInit /\ [][RegistryNext]_registry

\* A settled verdict never moves, whatever is resolved, reported or bound
\* afterwards: a late probe cannot rewrite an outcome.  (A placeholder's row
\* is replaced as a whole when its request is held again.)
SettledRowIsFinal ==
    [][\A r \in Runs \ Placeholders : IsSettled(r) => verdict'[r] = verdict[r]]_registry

\* At most one unresolved creation stands for a rental's request, however
\* reserves, declines and binds interleave: a retry never rents a second
\* machine while the first may still exist.  (A held line's intents are
\* recorded without looking, so two of them may stand for one request.)
OneCreationPerRequest ==
    \A r, s \in Runs \ Lines :
        Uncreated(r) /\ Uncreated(s) /\ Request[r] = Request[s] => r = s

\* An intent never comes back once its machine's handle was recorded: what a
\* provider may bill for is never offered for creation again.
BoundIsNoIntent == \A r \in Runs : bound[r] => ~Uncreated(r)
==============================================================================
