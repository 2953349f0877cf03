-------------------------------- MODULE Outbox --------------------------------
(***************************************************************************)
(* The memory's outbox (memory/outbox.py): a keep is written to a spool    *)
(* before it is delivered, and a receipt replaces it once it is.           *)
(*                                                                         *)
(* Calls of `Memory.keep`, delivering passes (`Memory.drain`, on its own   *)
(* or inside a find, a status or a keep) and readers (`Outbox.waiting`     *)
(* alone, as the status and the drain child call it) are processes over    *)
(* one directory.  A pass delivers under `drain.lock`; a writer locks the  *)
(* line it writes; a reader locks nothing.  Any process may die at any     *)
(* step, and the system then frees its locks.                              *)
(*                                                                         *)
(*   line[k]     the spool line of k: none, empty, torn by a writer that   *)
(*               died, or written                                          *)
(*   writer[k]   who holds the lock of the file that is the line of k now; *)
(*               a writer whose file was moved away holds another          *)
(*   blob[k]     whether the copy of the file k keeps is beside its line   *)
(*   receipt[k]  whether k has a receipt                                   *)
(*   aside[k]    whether a line of k was set aside as `.refused`           *)
(*   sent[k]     how many times the upstream took k                        *)
(*   denied[k]   whether the upstream ever refused k                       *)
(*   lock        who delivers                                              *)
(*   at[p]       where process p stands                                    *)
(*   mine[p]     the keep p was called with; known[p], whether it had a    *)
(*               receipt when the call began; said[p], what p answered     *)
(*   left[p]     the lines p has still to read; found[p], the keeps it     *)
(*               read; cur[p], the one in hand                             *)
(***************************************************************************)
EXTENDS Naturals

CONSTANTS
    Keys,      \* the keeps, by key
    Files,     \* those that keep a file, copied beside the line
    Keepers,   \* processes that call Memory.keep
    Passes,    \* processes that only deliver
    Readers,   \* processes that only read what waits
    Mortal,    \* those of them that may be killed
    MaxSent,   \* how far the deliveries of a keep are counted
    None

ASSUME OutboxAssumption ==
    /\ Files \subseteq Keys
    /\ MaxSent \in Nat
    /\ None \notin Keepers \cup Passes \cup Readers
    /\ Keepers \cap Passes = {} /\ Keepers \cap Readers = {} /\ Passes \cap Readers = {}
    /\ Mortal \subseteq Keepers \cup Passes \cup Readers

VARIABLES line, writer, blob, receipt, aside, sent, denied, lock,
          at, mine, known, said, left, found, cur

Procs == Keepers \cup Passes \cup Readers
spool == <<line, writer, blob, aside>>
calls == <<mine, known, said>>
scans == <<left, found, cur>>
vars == <<spool, receipt, sent, denied, lock, at, calls, scans>>

Writing == {"look", "copy", "write"}
Delivering == {"send", "receipt", "unline", "unblob", "refuse"}

Init ==
    /\ line = [k \in Keys |-> "none"]
    /\ writer = [k \in Keys |-> None]
    /\ blob = [k \in Keys |-> FALSE]
    /\ receipt = [k \in Keys |-> FALSE]
    /\ aside = [k \in Keys |-> FALSE]
    /\ sent = [k \in Keys |-> 0]
    /\ denied = [k \in Keys |-> FALSE]
    /\ lock = None
    /\ at = [p \in Procs |-> "idle"]
    /\ mine = [p \in Procs |-> None]
    /\ known = [p \in Procs |-> FALSE]
    /\ said = [p \in Procs |-> None]
    /\ left = [p \in Procs |-> {}]
    /\ found = [p \in Procs |-> {}]
    /\ cur = [p \in Procs |-> None]

\* The state is well formed: the delivery lock is held by the one pass that
\* reads to deliver or delivers, a line's by a writer at work on that line.
TypeOK ==
    /\ line \in [Keys -> {"none", "empty", "torn", "written"}]
    /\ writer \in [Keys -> Keepers \cup {None}]
    /\ \A k \in Keys : writer[k] # None =>
           line[k] # "none" /\ at[writer[k]] \in Writing /\ mine[writer[k]] = k
    /\ \A f \in {blob, receipt, aside, denied} : f \in [Keys -> BOOLEAN]
    /\ sent \in [Keys -> 0..MaxSent]
    /\ at \in [Procs -> {"idle", "append", "open", "drain", "list", "read", "judge",
                         "ask", "waits"} \cup Writing \cup Delivering]
    /\ \A p \in Procs : (lock = p) <=>
           at[p] \in Delivering \/ (p \notin Readers /\ at[p] \in {"list", "read", "judge"})
    /\ mine \in [Procs -> Keys \cup {None}]
    /\ known \in [Procs -> BOOLEAN]
    /\ said \in [Procs -> {None, "kept", "known", "queued", "refused"}]
    /\ left \in [Procs -> SUBSET Keys] /\ found \in [Procs -> SUBSET Keys]
    /\ cur \in [Procs -> Keys \cup {None}]

Go(p, from, to) == at[p] = from /\ at' = [at EXCEPT ![p] = to]

(***************************************************************************)
(* Memory.keep and Outbox.append.                                          *)
(***************************************************************************)
Keep(p, k) ==
    /\ Go(p, "idle", "append")
    /\ mine' = [mine EXCEPT ![p] = k]
    /\ known' = [known EXCEPT ![p] = receipt[k]]
    /\ said' = [said EXCEPT ![p] = None]
    /\ UNCHANGED <<spool, receipt, sent, denied, lock, scans>>

\* A keep with a receipt is not spooled.
Append(p) ==
    /\ Go(p, "append", IF receipt[mine[p]] THEN "drain" ELSE "open")
    /\ UNCHANGED <<spool, receipt, sent, denied, lock, calls, scans>>

Close(p) == writer' = [k \in Keys |-> IF writer[k] = p THEN None ELSE writer[k]]

\* EventSpool: the line is created, or cut of what a dead writer left of one,
\* and locked; a second writer of it is refused, which ends the call.
Open(p) ==
    LET k == mine[p] IN
    /\ Go(p, "open", "look")
    /\ writer[k] = None
    /\ writer' = [writer EXCEPT ![k] = p]
    /\ line' = [line EXCEPT ![k] = IF @ = "written" THEN @ ELSE "empty"]
    /\ UNCHANGED <<blob, aside, receipt, sent, denied, lock, calls, scans>>
OpenRefused(p) ==
    /\ Go(p, "open", "idle")
    /\ writer[mine[p]] # None
    /\ UNCHANGED <<spool, receipt, sent, denied, lock, calls, scans>>

\* What the path holds now: a written line is left, and a path that is gone
\* raises.
Look(p) ==
    LET k == mine[p] IN
    /\ Go(p, "look", IF line[k] = "none" THEN "idle"
                     ELSE IF line[k] = "written" THEN "drain"
                     ELSE IF k \in Files THEN "copy" ELSE "write")
    /\ IF line[k] \in {"none", "written"} THEN Close(p) ELSE UNCHANGED writer
    /\ UNCHANGED <<line, blob, aside, receipt, sent, denied, lock, calls, scans>>

CopyLate(p) ==                      \* mutant: the copy is left for later
    /\ Go(p, "copy", "write")
    /\ UNCHANGED <<spool, receipt, sent, denied, lock, calls, scans>>
Copy(p) ==
    /\ Go(p, "copy", "write")
    /\ blob' = [blob EXCEPT ![mine[p]] = TRUE]
    /\ UNCHANGED <<line, writer, aside, receipt, sent, denied, lock, calls, scans>>

\* The file changed under the copy, which is removed; the call raises.
CopyChanged(p) ==
    /\ Go(p, "copy", "idle")
    /\ blob' = [blob EXCEPT ![mine[p]] = FALSE]
    /\ Close(p)
    /\ UNCHANGED <<line, aside, receipt, sent, denied, lock, calls, scans>>

\* Into the file p opened, whether or not the path still leads to it.
Write(p) ==
    LET k == mine[p] IN
    /\ Go(p, "write", "drain")
    /\ line' = [line EXCEPT ![k] = IF writer[k] = p THEN "written" ELSE @]
    /\ Close(p)
    /\ UNCHANGED <<blob, aside, receipt, sent, denied, lock, calls, scans>>

(***************************************************************************)
(* Outbox.waiting: each line there is, then the copy beside it.  Lines are *)
(* read in any order: a pass delivers the oldest first, and no property    *)
(* tells the orders apart.                                                 *)
(***************************************************************************)
Wait(p) ==
    /\ p \in Readers
    /\ Go(p, "idle", "list")
    /\ UNCHANGED <<spool, receipt, sent, denied, lock, calls, scans>>

List(p) ==
    /\ Go(p, "list", "read")
    /\ left' = [left EXCEPT ![p] = {k \in Keys : line[k] # "none"}]
    /\ found' = [found EXCEPT ![p] = {}]
    /\ UNCHANGED <<spool, receipt, sent, denied, lock, calls, cur>>

\* A line that is gone, or not written yet, is passed over.
Read(p, k) ==
    /\ k \in left[p]
    /\ Go(p, "read", IF line[k] = "written" THEN "judge" ELSE "read")
    /\ left' = [left EXCEPT ![p] = @ \ {k}]
    /\ cur' = [cur EXCEPT ![p] = IF line[k] = "written" THEN k ELSE None]
    /\ UNCHANGED <<spool, receipt, sent, denied, lock, calls, found>>

\* Outbox._refused: the line is renamed, with whatever file it now is.
SetAside(k) ==
    /\ aside' = [aside EXCEPT ![k] = TRUE]
    /\ line' = [line EXCEPT ![k] = "none"]
    /\ writer' = [writer EXCEPT ![k] = None]

HasCopy(k) == k \in Files => blob[k]
Judge(p) ==
    LET k == cur[p] IN
    /\ Go(p, "judge", "read")
    /\ \/ HasCopy(k) /\ found' = [found EXCEPT ![p] = @ \cup {k}] /\ UNCHANGED spool
       \/ ~HasCopy(k) /\ line[k] # "none" /\ SetAside(k) /\ UNCHANGED <<blob, found>>
    /\ cur' = [cur EXCEPT ![p] = None]
    /\ UNCHANGED <<receipt, sent, denied, lock, calls, left>>

\* What ends a process early: its locks are freed, and what it wrote stays.
Stop(p) ==
    /\ at' = [at EXCEPT ![p] = "idle"]
    /\ lock' = IF lock = p THEN None ELSE lock
    /\ Close(p)
    /\ left' = [left EXCEPT ![p] = {}]
    /\ found' = [found EXCEPT ![p] = {}]
    /\ cur' = [cur EXCEPT ![p] = None]
    /\ UNCHANGED <<blob, aside, receipt, sent, denied, calls>>

\* The rename of a line that is gone raises out of the pass.
JudgeRaises(p) ==
    /\ at[p] = "judge"
    /\ ~HasCopy(cur[p]) /\ line[cur[p]] = "none"
    /\ Stop(p) /\ UNCHANGED line

(***************************************************************************)
(* Memory.drain.                                                           *)
(***************************************************************************)

\* What follows a drain: the answer of a keep, or nothing.
After(p) == IF p \in Keepers THEN "ask" ELSE "idle"

Drain(p) ==
    /\ lock = None
    /\ \/ p \in Keepers /\ Go(p, "drain", "list")
       \/ p \in Passes /\ Go(p, "idle", "list")
    /\ lock' = p
    /\ UNCHANGED <<spool, receipt, sent, denied, calls, scans>>
\* Another pass delivers, so this one sends nothing.
DrainBusy(p) ==
    /\ lock # None
    /\ p \in Keepers /\ Go(p, "drain", "ask")
    /\ UNCHANGED <<spool, receipt, sent, denied, lock, calls, scans>>

Send(p, k) ==
    /\ p \notin Readers
    /\ k \in found[p] /\ left[p] = {}
    /\ Go(p, "read", "send")
    /\ cur' = [cur EXCEPT ![p] = k]
    /\ found' = [found EXCEPT ![p] = @ \ {k}]
    /\ UNCHANGED <<spool, receipt, sent, denied, lock, calls, left>>

\* The upstream has k, once more; counted up to MaxSent.
Arrives(k) == sent' = [sent EXCEPT ![k] = IF @ < MaxSent THEN @ + 1 ELSE @]

\* Upstream.keep answers: it took the keep, or it never will.
Taken(p) ==
    LET k == cur[p] IN
    /\ HasCopy(k)
    /\ Go(p, "send", "receipt")
    /\ Arrives(k)
    /\ UNCHANGED <<spool, receipt, denied, lock, calls, scans>>
Denied(p) ==
    /\ Go(p, "send", "refuse")
    /\ denied' = [denied EXCEPT ![cur[p]] = TRUE]
    /\ UNCHANGED <<spool, receipt, sent, lock, calls, scans>>

\* No answer, taken or not, or no copy to upload: the pass stops, and a keep
\* goes on to answer for itself.
StopDraining(p) ==
    /\ at' = [at EXCEPT ![p] = After(p)]
    /\ lock' = None
    /\ left' = [left EXCEPT ![p] = {}]
    /\ found' = [found EXCEPT ![p] = {}]
    /\ cur' = [cur EXCEPT ![p] = None]
    /\ UNCHANGED <<spool, receipt, denied, calls>>
Unreachable(p) ==
    /\ at[p] = "send"
    /\ UNCHANGED sent \/ (HasCopy(cur[p]) /\ Arrives(cur[p]))
    /\ StopDraining(p)
UploadRaises(p) ==
    /\ at[p] = "send" /\ ~HasCopy(cur[p])
    /\ Stop(p) /\ UNCHANGED line

\* Outbox.settled: the receipt, then the line, then the copy.
Receipted(p) ==
    /\ Go(p, "receipt", "unline")
    /\ receipt' = [receipt EXCEPT ![cur[p]] = TRUE]
    /\ UNCHANGED <<spool, sent, denied, lock, calls, scans>>
DropLine(p) ==
    /\ Go(p, "unline", "unblob")
    /\ line' = [line EXCEPT ![cur[p]] = "none"]
    /\ writer' = [writer EXCEPT ![cur[p]] = None]
    /\ UNCHANGED <<blob, aside, receipt, sent, denied, lock, calls, scans>>
DropBlob(p) ==
    /\ Go(p, "unblob", "read")
    /\ blob' = [blob EXCEPT ![cur[p]] = FALSE]
    /\ cur' = [cur EXCEPT ![p] = None]
    /\ UNCHANGED <<line, writer, aside, receipt, sent, denied, lock, calls, left, found>>

\* Outbox.refused: a refused keep is set aside, and the pass goes on.
DropRefused(p) ==                   \* mutant: a refused line is deleted
    /\ Go(p, "refuse", "read")
    /\ line' = [line EXCEPT ![cur[p]] = "none"]
    /\ writer' = [writer EXCEPT ![cur[p]] = None]
    /\ cur' = [cur EXCEPT ![p] = None]
    /\ UNCHANGED <<blob, aside, receipt, sent, denied, lock, calls, left, found>>
RetryRefused(p) ==                  \* mutant: a refused line is left for the next pass
    /\ Go(p, "refuse", "read")
    /\ cur' = [cur EXCEPT ![p] = None]
    /\ UNCHANGED <<spool, receipt, sent, denied, lock, calls, left, found>>
Refuse(p) ==
    /\ Go(p, "refuse", "read")
    /\ line[cur[p]] # "none" /\ SetAside(cur[p])
    /\ cur' = [cur EXCEPT ![p] = None]
    /\ UNCHANGED <<blob, receipt, sent, denied, lock, calls, left, found>>
RefuseRaises(p) ==
    /\ at[p] = "refuse" /\ line[cur[p]] = "none"
    /\ Stop(p) /\ UNCHANGED line

\* Every line read and every keep found dealt with.
Drained(p) ==
    /\ at[p] = "read" /\ left[p] = {}
    /\ IF p \in Readers THEN TRUE ELSE found[p] = {}
    /\ at' = [at EXCEPT ![p] = After(p)]
    /\ lock' = IF lock = p THEN None ELSE lock
    /\ found' = [found EXCEPT ![p] = {}]
    /\ UNCHANGED <<spool, receipt, sent, denied, calls, left, cur>>

(***************************************************************************)
(* Memory._outcome: the receipt is read first, and the line after.         *)
(***************************************************************************)
Ask(p) ==
    LET k == mine[p]
        settled == known[p] \/ receipt[k] IN
    /\ Go(p, "ask", IF settled THEN "idle" ELSE "waits")
    /\ said' = [said EXCEPT ![p] =
          IF ~settled THEN None ELSE IF known[p] THEN "known" ELSE "kept"]
    /\ UNCHANGED <<spool, receipt, sent, denied, lock, mine, known, scans>>
Waits(p) ==
    /\ Go(p, "waits", "idle")
    /\ said' = [said EXCEPT ![p] = IF line[mine[p]] # "none" THEN "queued" ELSE "refused"]
    /\ UNCHANGED <<spool, receipt, sent, denied, lock, mine, known, scans>>

\* A process that dies while it writes may leave part of a line.
Die(p) ==
    /\ Stop(p)
    /\ \/ UNCHANGED line
       \/ /\ at[p] = "write" /\ writer[mine[p]] = p
          /\ line' = [line EXCEPT ![mine[p]] = "torn"]

(***************************************************************************)
(* The specification.                                                      *)
(***************************************************************************)
Writes(p) == Append(p) \/ Open(p) \/ OpenRefused(p) \/ Look(p) \/ Copy(p) \/ Write(p)
Reads(p) ==
    List(p) \/ (\E k \in Keys : Read(p, k)) \/ Judge(p) \/ JudgeRaises(p) \/ Drained(p)
Delivers(p) ==
    (\E k \in Keys : Send(p, k)) \/ UploadRaises(p)
    \/ Receipted(p) \/ DropLine(p) \/ DropBlob(p) \/ Refuse(p) \/ RefuseRaises(p)
Hears(p) == Taken(p) \/ Denied(p) \/ Unreachable(p)
Answers(p) == Ask(p) \/ Waits(p)

Next ==
    \/ \E p \in Keepers :
        (\E k \in Keys : Keep(p, k)) \/ Writes(p) \/ CopyChanged(p) \/ Answers(p)
    \/ \E p \in Procs :
        \/ Wait(p) \/ Reads(p) \/ Drain(p) \/ DrainBusy(p) \/ Delivers(p)
        \/ Hears(p)
    \/ \E p \in Mortal : at[p] # "idle" /\ Die(p)

Spec == Init /\ [][Next]_vars

(***************************************************************************)
(* Properties.                                                             *)
(***************************************************************************)

\* A keep a call answered for is never lost, whoever died since: it is in the
\* spool, has its receipt, or was set aside.
NeverLost ==
    \A p \in Keepers : said[p] # None =>
        LET k == mine[p] IN line[k] = "written" \/ receipt[k] \/ aside[k]

\* Only a keep the upstream refused is set aside, or one that has its receipt
\* all the same: no order of copying, writing, delivering and dying leaves a
\* line whose file is gone.
SetAsideIsRefused == \A k \in Keys : aside[k] => denied[k] \/ receipt[k]

\* A process that is not killed goes on until it ends, its calls of the
\* upstream being bounded; the drain child runs again and again and gets its
\* turn, and the upstream answers for each keep in the end.
Fairness ==
    /\ \A p \in Procs :
           WF_vars(Writes(p) \/ Reads(p) \/ Delivers(p) \/ Hears(p) \/ Answers(p))
    /\ \A p \in Passes :
           /\ SF_vars(Drain(p))
           /\ \A k \in Keys : SF_vars(cur[p] = k /\ (Taken(p) \/ Denied(p)))
FairSpec == Spec /\ Fairness

\* A written keep is delivered or set aside in the end.
SpooledIsSettled == \A k \in Keys : line[k] = "written" ~> line[k] # "written"

\* memory/outbox.py:134: a keep is spooled "unless it is spooled or delivered
\* already".
DeliveredIsNotSpooled ==
    [][\A k \in Keys : receipt[k] /\ line[k] # "written" => line'[k] # "written"]_vars

\* verbs/evidence/memory.py:55: "Each item goes to the local spool first and is
\* delivered once".
DeliveredOnce == \A k \in Keys : sent[k] <= 1

\* memory/outbox.py:255: a call answers "what each one came to".
RefusedWasRefused ==
    \A p \in Keepers : said[p] = "refused" => denied[mine[p]] \/ aside[mine[p]]
===============================================================================
