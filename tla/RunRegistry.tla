----------------------------- MODULE RunRegistry -----------------------------
(***************************************************************************)
(* The run registry (dispatch/state/registry.py, dispatch/state/cache.py)  *)
(* and the verdict vocabulary its rows move along                          *)
(* (dispatch/jobs/vocabulary.py).                                          *)
(*                                                                         *)
(* The registry is an append-only log read through a view that keeps the   *)
(* last record of each identity; every read-then-append holds              *)
(* `registry.lock`, so each operation below is one atomic step on the      *)
(* current record.  A record's fields are kept in one function each:       *)
(*                                                                         *)
(*   verdict   the lifecycle word, NoRow when no row exists, Unresolved    *)
(*             for a row never resolved (None in the source)               *)
(*   stopped   whether `state` reads `cancelled`, the one value of `state` *)
(*             any decision reads                                          *)
(*   reported  the verdict last surfaced, Nothing before                   *)
(*   evidence  the delivery status                                         *)
(*   leased    whether the row carries a lease                             *)
(*   bound     whether the provider's handle replaced the creation label   *)
(***************************************************************************)
CONSTANTS
    Runs,         \* identities rows are recorded under
    Placeholders, \* the identities that are quota-held placeholders
    Request       \* Request[r]: the (target, script, digest) that r asks for

ASSUME RegistryAssumption ==
    /\ Placeholders \subseteq Runs
    /\ DOMAIN Request = Runs

VARIABLES verdict, stopped, reported, evidence, leased, bound

registry == <<verdict, stopped, reported, evidence, leased, bound>>

(***************************************************************************)
(* The vocabulary.                                                         *)
(***************************************************************************)
Words ==
    {"prepared", "submitting", "held", "queued", "running", "ok", "failed",
     "vanished", "unknown", "timeout", "cancelled", "skipped"}

NoRow == "no row"
Unresolved == "unresolved"
Nothing == "nothing"

\* _MOVES: the moves a recorded verdict may make.
Moves ==
    [w \in Words |->
        CASE w = "prepared"   -> {"submitting", "failed", "cancelled"}
          [] w = "submitting" -> {"prepared", "queued", "running"}
          [] w = "held"       -> {"queued", "running", "failed", "vanished",
                                  "cancelled"}
          [] w = "queued"     -> {"running", "ok", "failed", "timeout",
                                  "vanished", "unknown", "cancelled"}
          [] w = "running"    -> {"queued", "ok", "failed", "vanished",
                                  "unknown", "timeout", "cancelled"}
          [] OTHER            -> {}]

\* Word.settled: the words that move nowhere.
Settled == {w \in Words : Moves[w] = {}}

\* The intents of Creations.reserve: recorded before a machine exists.
Pending == {"prepared", "submitting"}

Deliveries ==
    {"unset", "not_started", "pending", "copied", "verified", "unverified"}

\* COPIED: the delivery statuses that say a run's evidence already arrived.
Copied == {"copied", "verified"}

\* Log._reaches: never resolved, the same verdict again, or a declared move.
AnyMove(current, word) == TRUE      \* mutant: nothing is refused
Reaches(current, word) ==
    \/ current = Unresolved
    \/ current = word
    \/ current \in Words /\ word \in Moves[current]

(***************************************************************************)
(* Listings.                                                               *)
(***************************************************************************)
Exists(r) == verdict[r] # NoRow
IsSettled(r) == verdict[r] \in Settled
\* Settled and reported: the row every durable sweep is done with.
Closed(r) == IsSettled(r) /\ reported[r] = verdict[r]
\* cache._tracked: a sweep still owes the run its outcome.
Tracked(r) == Exists(r) /\ ~Closed(r)
\* sweep.uncreated: a provider creation with no confirmed handle.
Uncreated(r) == verdict[r] \in Pending

(***************************************************************************)
(* Cache: the writers any process may call on a registered identity.       *)
(* resolve, delivery and report all go through Cache._change, which raises *)
(* on an unknown identity and leaves the whole record alone when the       *)
(* verdict cannot move.                                                    *)
(***************************************************************************)
Resolve(r, isStop, word) ==
    /\ Exists(r)
    /\ IF Reaches(verdict[r], word)
       THEN /\ verdict' = [verdict EXCEPT ![r] = word]
            /\ stopped' = [stopped EXCEPT ![r] = isStop]
       ELSE UNCHANGED <<verdict, stopped>>
    /\ UNCHANGED <<reported, evidence, leased, bound>>

Delivery(r, status) ==
    /\ Exists(r)
    /\ evidence' = [evidence EXCEPT ![r] = status]
    /\ UNCHANGED <<verdict, stopped, reported, leased, bound>>

ReportRow(r, word) ==               \* mutant: the row's verdict, None and all
    /\ Exists(r)
    /\ reported' = [reported EXCEPT ![r] = verdict[r]]
    /\ UNCHANGED <<verdict, stopped, evidence, leased, bound>>

Report(r, word) ==
    /\ Exists(r)
    /\ reported' = [reported EXCEPT ![r] = word]
    /\ UNCHANGED <<verdict, stopped, evidence, leased, bound>>

Relet(r) ==
    /\ Exists(r)
    /\ leased' = [leased EXCEPT ![r] = TRUE]
    /\ UNCHANGED <<verdict, stopped, reported, evidence, bound>>

\* The fields of row r replaced as a whole, as one appended record does.
Row(r, word, rep, ev, ls, bd) ==
    /\ verdict' = [verdict EXCEPT ![r] = word]
    /\ stopped' = [stopped EXCEPT ![r] = (word = "cancelled")]
    /\ reported' = [reported EXCEPT ![r] = rep]
    /\ evidence' = [evidence EXCEPT ![r] = ev]
    /\ leased' = [leased EXCEPT ![r] = ls]
    /\ bound' = [bound EXCEPT ![r] = bd]

\* Cache.record of a job a scheduler just took: a fresh identity.
Record(r) ==
    /\ ~Exists(r)
    /\ r \notin Placeholders
    /\ Row(r, Unresolved, Nothing, "unset", FALSE, TRUE)

\* Cache.record of a job queued on a held line, as an intent that no other
\* intent is compared with.
RecordIntent(r) ==
    /\ ~Exists(r)
    /\ r \notin Placeholders
    /\ Row(r, "prepared", Nothing, "unset", FALSE, FALSE)

\* Dispatcher.hold: the placeholder's row is written whatever it said before.
Hold(r) ==
    /\ r \in Placeholders
    /\ Row(r, "held", Nothing, "unset", FALSE, FALSE)

\* Cache.forget: the placeholder goes once its request went through.
Forget(r) ==
    /\ r \in Placeholders
    /\ Exists(r)
    /\ Row(r, NoRow, Nothing, "unset", FALSE, FALSE)

(***************************************************************************)
(* Creations: provider requests before their machine exists.               *)
(***************************************************************************)
Unreserved(r) == TRUE               \* mutant: reserve does not look
\* No other unresolved creation asks for the same thing.
Reservable(r) ==
    \A s \in Runs : Uncreated(s) => Request[s] # Request[r]

Reserve(r, ev) ==
    /\ ~Exists(r)
    /\ r \notin Placeholders
    /\ Reservable(r)
    /\ Row(r, "prepared", Nothing, ev, FALSE, FALSE)

IsPending(r) == verdict[r] \in Pending     \* mutant: `submitting` is let through
\* Creations.prepared: raises unless the row is still prepared.
IsPrepared(r) == verdict[r] = "prepared"
Prepared(r, word, withLease) ==
    /\ IsPrepared(r)
    /\ Reaches("prepared", word)
    /\ Row(r, word, IF word \in Settled THEN word ELSE Nothing,
           evidence[r], withLease, bound[r])

IsSubmitting(r) == verdict[r] = "submitting"
ReopenAny(r) ==                     \* mutant: a late refusal reopens any row
    /\ Exists(r)
    /\ Row(r, "prepared", reported[r], evidence[r], FALSE, bound[r])

\* Creations.reopen: the provider declined, so nothing was allocated.
Reopen(r) ==
    /\ IsSubmitting(r)
    /\ Row(r, "prepared", reported[r], evidence[r], FALSE, bound[r])

\* Creations.bind: the label's row is dropped and the handle's appended in
\* one commit.
Bind(r) ==
    /\ IsSubmitting(r)
    /\ Row(r, "queued", reported[r], evidence[r], leased[r], TRUE)

(***************************************************************************)
(* Every field has its type; a new workspace has no rows.                  *)
(***************************************************************************)
RegistryTypeOK ==
    /\ verdict \in [Runs -> Words \cup {NoRow, Unresolved}]
    /\ stopped \in [Runs -> BOOLEAN]
    /\ reported \in [Runs -> Words \cup {Nothing}]
    /\ evidence \in [Runs -> Deliveries]
    /\ leased \in [Runs -> BOOLEAN]
    /\ bound \in [Runs -> BOOLEAN]

RegistryInit ==
    /\ verdict = [r \in Runs |-> NoRow]
    /\ stopped = [r \in Runs |-> FALSE]
    /\ reported = [r \in Runs |-> Nothing]
    /\ evidence = [r \in Runs |-> "unset"]
    /\ leased = [r \in Runs |-> FALSE]
    /\ bound = [r \in Runs |-> FALSE]
==============================================================================
