----------------------------- MODULE EventCollect -----------------------------
(***************************************************************************)
(* Spooled events on their way to the telemetry sink: EventSpool           *)
(* (core/events/spool.py), the collect pass (serve/events/collect.py) and  *)
(* the drain, which delivers through it (serve/events/drain.py).           *)
(*                                                                         *)
(* One spool file name is modelled; a pass treats its files one after      *)
(* another, and each has its own entry in the ledger.  Offsets count lines *)
(* where the source counts bytes.  A file is an inode: it can be deleted   *)
(* while a writer has it open, and another made under its name.            *)
(*                                                                         *)
(*   inode, made  the file the name leads to, 0 for none; how many were    *)
(*                made                                                     *)
(*   file         its events                                               *)
(*   born         how many events were spooled so far                      *)
(*   pen, open    where each writer stands; the inode it opened            *)
(*   ledger       the offset delivered up to, as `collected.json` has it   *)
(*   taken, lake  how often the sink accepted each event; the events its   *)
(*                lake shows, which it buffers first                       *)
(*   lock         the pass that delivers                                   *)
(*   at, offset   where each pass stands; the offset it has in memory      *)
(*   page, upto   the events it read and has yet to post, in the order     *)
(*                they were spooled; where they end                        *)
(*   cuts         how many passes were killed, or refused by the sink       *)
(***************************************************************************)
EXTENDS Naturals, Sequences

CONSTANTS
    Writers,    \* processes that spool events
    Passes,     \* collect and drain passes
    MaxEvents,  \* how many events are spooled
    MaxFiles,   \* how many files are made under the name
    MaxCuts,    \* how many passes may be killed, or refused by the sink
    None

ASSUME CollectAssumption ==
    /\ MaxEvents \in Nat /\ MaxFiles \in Nat /\ MaxCuts \in Nat
    /\ None \notin Passes

VARIABLES inode, made, file, born, pen, open, ledger, taken, lake, lock,
          at, offset, page, upto, cuts

spool == <<inode, made, file>>
writers == <<born, pen, open>>
sink == <<taken, lake>>
passes == <<lock, at, offset, page, upto>>
vars == <<spool, writers, ledger, sink, passes, cuts>>

Events == 1..MaxEvents
Locked == {"read", "post", "retire", "keep"}

Init ==
    /\ inode = 0 /\ made = 0 /\ file = <<>>
    /\ born = 0
    /\ pen = [w \in Writers |-> "idle"]
    /\ open = [w \in Writers |-> 0]
    /\ ledger = 0
    /\ taken = [e \in Events |-> 0]
    /\ lake = {}
    /\ lock = None
    /\ at = [p \in Passes |-> "idle"]
    /\ offset = [p \in Passes |-> 0]
    /\ page = [p \in Passes |-> {}]
    /\ upto = [p \in Passes |-> 0]
    /\ cuts = 0

\* Well formed: a writer that is not idle has a file open, one writer has the
\* lock of a file, and the delivery lock is with the pass that works under it.
TypeOK ==
    /\ inode \in 0..made /\ made \in 0..MaxFiles
    /\ file \in Seq(Events) /\ (inode = 0 => file = <<>>)
    /\ born \in 0..MaxEvents
    /\ pen \in [Writers -> {"idle", "opened", "writing"}]
    /\ open \in [Writers -> 0..made]
    /\ \A w \in Writers : pen[w] = "idle" <=> open[w] = 0
    /\ \A v, w \in Writers :
           pen[v] = "writing" /\ pen[w] = "writing" /\ open[v] = open[w] => v = w
    /\ ledger \in 0..MaxEvents
    /\ taken \in [Events -> 0..MaxCuts + 2] /\ lake \subseteq Events
    /\ at \in [Passes -> {"idle", "found"} \cup Locked]
    /\ \A p \in Passes : (lock = p) <=> at[p] \in Locked
    /\ offset \in [Passes -> 0..MaxEvents]
    /\ page \in [Passes -> SUBSET Events]
    /\ upto \in [Passes -> 0..MaxEvents]
    /\ cuts \in 0..MaxCuts

(***************************************************************************)
(* EventSpool.                                                             *)
(***************************************************************************)

\* The file is opened, or made; its lock is another step.
Open(w) ==
    /\ pen[w] = "idle"
    /\ inode = 0 => made < MaxFiles
    /\ pen' = [pen EXCEPT ![w] = "opened"]
    /\ made' = IF inode = 0 THEN made + 1 ELSE made
    /\ inode' = IF inode = 0 THEN made + 1 ELSE inode
    /\ open' = [open EXCEPT ![w] = inode']
    /\ UNCHANGED <<file, born, ledger, sink, passes>>

\* A second writer is refused, and a name that leads nowhere raises.
Busy(w) == \E v \in Writers : pen[v] = "writing" /\ open[v] = open[w]
Lock(w) ==
    /\ pen[w] = "opened"
    /\ pen' = [pen EXCEPT ![w] = IF Busy(w) \/ inode = 0 THEN "idle" ELSE "writing"]
    /\ open' = [open EXCEPT ![w] = IF pen'[w] = "idle" THEN 0 ELSE @]
    /\ UNCHANGED <<spool, born, ledger, sink, passes>>

Append_(w) ==
    /\ pen[w] = "writing"
    /\ born < MaxEvents
    /\ born' = born + 1
    /\ file' = IF open[w] = inode THEN Append(file, born + 1) ELSE file
    /\ UNCHANGED <<inode, made, pen, open, ledger, sink, passes>>

Close(w) ==
    /\ pen[w] = "writing"
    /\ pen' = [pen EXCEPT ![w] = "idle"]
    /\ open' = [open EXCEPT ![w] = 0]
    /\ UNCHANGED <<spool, born, ledger, sink, passes>>

(***************************************************************************)
(* Collector.collect.                                                      *)
(***************************************************************************)
Go(p, from, to) == at[p] = from /\ at' = [at EXCEPT ![p] = to]
Aside == UNCHANGED <<offset, page, upto>>

\* The files are listed before the lock is asked for, without waiting.
Find(p) ==
    /\ inode # 0
    /\ Go(p, "idle", "found")
    /\ UNCHANGED <<spool, writers, ledger, sink, lock>> /\ Aside
Acquire(p) ==
    /\ Go(p, "found", IF lock = None THEN "read" ELSE "idle")
    /\ lock' = IF lock = None THEN p ELSE lock
    /\ UNCHANGED <<spool, writers, ledger, sink>> /\ Aside

\* _page and held: the events past the ledger's offset but those the lake
\* shows.  A file another pass deleted meanwhile raises, and the ledger is kept.
NoOffset(p) ==                      \* mutant: every pass reads the file whole
    /\ Go(p, "read", "post")
    /\ offset' = [offset EXCEPT ![p] = 0]
    /\ page' = [page EXCEPT ![p] = {file[i] : i \in DOMAIN file} \ lake]
    /\ upto' = [upto EXCEPT ![p] = Len(file)]
    /\ UNCHANGED <<spool, writers, ledger, sink, lock>>
Read(p) ==
    /\ Go(p, "read", IF inode = 0 THEN "keep" ELSE "post")
    /\ offset' = [offset EXCEPT ![p] = ledger]
    /\ page' = [page EXCEPT ![p] =
          {file[i] : i \in {j \in DOMAIN file : j > ledger}} \ lake]
    /\ upto' = [upto EXCEPT ![p] = IF ledger < Len(file) THEN Len(file) ELSE ledger]
    /\ UNCHANGED <<spool, writers, ledger, sink, lock>>

\* A pass ends before its time, which is counted, and bounded.
CutShort == cuts < MaxCuts /\ cuts' = cuts + 1

\* The next of a pass's events: the one spooled before the others.
IsNext(p, e) == e \in page[p] /\ \A f \in page[p] : e <= f

\* _post, one request a line; a refusal ends the pass with the offset it had.
SkipsRefused(p) ==                  \* mutant: a refused line is passed over
    /\ CutShort
    /\ Go(p, "post", "post")
    /\ \E e \in page[p] : IsNext(p, e) /\ page' = [page EXCEPT ![p] = @ \ {e}]
    /\ UNCHANGED <<spool, writers, ledger, sink, lock, offset, upto>>
Post(p) ==
    /\ Go(p, "post", "post")
    /\ \E e \in page[p] :
          /\ IsNext(p, e)
          /\ taken' = [taken EXCEPT ![e] = IF @ < MaxCuts + 2 THEN @ + 1 ELSE @]
          /\ page' = [page EXCEPT ![p] = @ \ {e}]
    /\ UNCHANGED <<spool, writers, ledger, lake, lock, offset, upto>>
PostRefused(p) ==
    /\ page[p] # {}
    /\ CutShort
    /\ Go(p, "post", "keep")
    /\ page' = [page EXCEPT ![p] = {}]
    /\ UNCHANGED <<spool, writers, ledger, sink, lock, offset, upto>>

\* _delivered: the new offset, then the size; whole, the file is deleted under
\* its own lock unless a writer has it.
Stat(p) ==
    /\ page[p] = {}
    /\ Go(p, "post", IF inode # 0 /\ upto[p] = Len(file) THEN "retire" ELSE "keep")
    /\ offset' = [offset EXCEPT ![p] = upto[p]]
    /\ UNCHANGED <<spool, writers, ledger, sink, lock, page, upto>>
RetiresHeld(p) ==                   \* mutant: deleted under its writer
    /\ Go(p, "retire", "keep")
    /\ inode' = 0 /\ file' = <<>> /\ offset' = [offset EXCEPT ![p] = 0]
    /\ UNCHANGED <<made, writers, ledger, sink, lock, page, upto>>
Retire(p) ==
    /\ Go(p, "retire", "keep")
    /\ IF \E w \in Writers : pen[w] = "writing" /\ open[w] = inode
       THEN UNCHANGED <<spool, offset>>
       ELSE /\ inode' = 0 /\ file' = <<>> /\ UNCHANGED made
            /\ offset' = [offset EXCEPT ![p] = 0]
    /\ UNCHANGED <<writers, ledger, sink, lock, page, upto>>

\* _sent: the ledger is kept however the sending ended.
Keep(p) ==
    /\ Go(p, "keep", "idle")
    /\ ledger' = offset[p]
    /\ lock' = None
    /\ UNCHANGED <<spool, writers, sink>> /\ Aside

Die(p) ==
    /\ at[p] # "idle"
    /\ CutShort
    /\ at' = [at EXCEPT ![p] = "idle"]
    /\ lock' = IF lock = p THEN None ELSE lock
    /\ page' = [page EXCEPT ![p] = {}]
    /\ UNCHANGED <<spool, writers, ledger, sink, offset, upto>>

\* The sink stores what it buffered.
Flush ==
    /\ \E e \in Events : taken[e] > 0 /\ e \notin lake /\ lake' = lake \cup {e}
    /\ UNCHANGED <<spool, writers, ledger, taken, passes>>

Writes(w) == Open(w) \/ Lock(w) \/ Append_(w) \/ Close(w)
Delivers(p) ==
    Find(p) \/ Acquire(p) \/ Read(p) \/ Post(p) \/ Stat(p) \/ Retire(p) \/ Keep(p)

Next ==
    \/ \E w \in Writers : Writes(w) /\ UNCHANGED cuts
    \/ \E p \in Passes : (Delivers(p) /\ UNCHANGED cuts) \/ PostRefused(p) \/ Die(p)
    \/ Flush /\ UNCHANGED cuts

Spec == Init /\ [][Next]_vars

(***************************************************************************)
(* Properties.                                                             *)
(***************************************************************************)

\* The sink is sent an event once, and once more at most for each pass that was
\* cut short, however a collect, a drain and the writers overlap: the offset,
\* the lock and the lake together keep every other pass from sending it again.
ResentOnlyIfCut == \A e \in Events : taken[e] <= 1 + cuts

\* The inductive invariant behind it.  An event nobody was cut short over is
\* not sent yet; a file holds what was spooled to it, once and in order; and
\* whatever lies past the point the next read will start from, and whatever a
\* pass still has to post, was not sent since the last cut.
Unsent(e) == taken[e] <= cuts
UnsentPast(n) == \A i \in DOMAIN file : i > n => Unsent(file[i])

FileInv ==
    /\ Len(file) <= born
    /\ \A i \in DOMAIN file : file[i] <= born
    /\ \A i, j \in DOMAIN file : i < j => file[i] < file[j]
    /\ \A e \in Events : e > born => taken[e] = 0

DeliveryInv(p) ==
    /\ at[p] = "read" => UnsentPast(ledger)
    /\ at[p] = "post" =>
          /\ UnsentPast(upto[p])
          /\ \A e \in page[p] :
                Unsent(e) /\ \E i \in DOMAIN file : i <= upto[p] /\ file[i] = e
    /\ at[p] \in {"retire", "keep"} => UnsentPast(offset[p])

IInv ==
    /\ TypeOK
    /\ FileInv
    /\ lock = None => UnsentPast(ledger)
    /\ \A p \in Passes : DeliveryInv(p)
    /\ ResentOnlyIfCut

\* Between passes, a spooled event the sink has not accepted is past the offset
\* the next pass will read from, whatever pass was killed or refused before.
\* This and SpooledIsSent hold over a writer that keeps its file open: one that
\* lets go of it may lose its last events to the pass that deletes the file.
EventIsKept ==
    lock = None => \A e \in 1..born : taken[e] = 0 =>
        \E i \in DOMAIN file : file[i] = e /\ i > ledger

\* Passes are run again and again, and one that is not cut short goes on.
Fairness == \A p \in Passes : WF_vars(Delivers(p) /\ UNCHANGED cuts)
FairSpec == Spec /\ Fairness

\* Every spooled event reaches the sink.
SpooledIsSent == \A e \in Events : born >= e ~> taken[e] > 0

(***************************************************************************)
(* What comments of the code say, which the code does not do.              *)
(***************************************************************************)

\* serve/events/drain.py:7: "draining twice stores each event once".  When a
\* pass was cut short that rests on the lake alone, which does not show what
\* the sink still buffers.
StoredOnce == \A e \in Events : taken[e] <= 1

\* state/telemetry.py:224: the ledger is "the byte offset it delivered each
\* spool file up to".
OffsetWasDelivered ==
    lock = None => \A i \in DOMAIN file : i <= ledger => taken[file[i]] > 0
===============================================================================
