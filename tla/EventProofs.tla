----------------------------- MODULE EventProofs -----------------------------
(***************************************************************************)
(* Spooled events are sent once per uncut pass, and none is lost over a    *)
(* writer that holds its file, for any writers, passes and bounds.         *)
(*                                                                         *)
(* The first half is about every behaviour of Spec: whoever delivers holds *)
(* the lock, so the file it read only grows under it, and what lies past   *)
(* the point it read to was not sent since the last cut.  The second half  *)
(* is about the cast of one writer that never lets go.                     *)
(***************************************************************************)
EXTENDS MCEventCollect, TLAPS

(***************************************************************************)
(* One pass at a time.                                                     *)
(***************************************************************************)
\* Two passes never deliver together: both would hold the lock.
LEMMA OneDelivers ==
    ASSUME TypeOK, NEW p \in Passes, NEW q \in Passes,
           at[p] \in Locked, at[q] \in Locked
    PROVE  p = q
  BY DEF TypeOK

\* What a pass that moves leaves of the others.
LEMMA GoOthers ==
    ASSUME TypeOK, NEW p \in Passes, NEW from, NEW to, Go(p, from, to)
    PROVE  /\ at[p] = from /\ at'[p] = to
           /\ at' \in [Passes -> {to} \cup {"idle", "found"} \cup Locked]
           /\ \A q \in Passes \ {p} : at'[q] = at[q]
  BY DEF Go, TypeOK

(***************************************************************************)
(* The inductive invariant.                                                *)
(***************************************************************************)
\* A new workspace: nothing spooled, nothing sent.
LEMMA InitInv == Init => IInv
  BY CollectAssumption
     DEF Init, IInv, TypeOK, FileInv, DeliveryInv, UnsentPast, Unsent, ResentOnlyIfCut,
         Locked, Events

\* A writer's step is seen by no pass, except that the file may grow.
LEMMA WriterType ==
    ASSUME TypeOK, FileInv, NEW w \in Writers, Writes(w), UNCHANGED cuts
    PROVE  TypeOK'
<1> USE CollectAssumption DEF TypeOK, spool, sink, passes, writers, Events
<1>1. CASE Open(w)
  BY <1>1 DEF Open
<1>2. CASE Lock(w)
  BY <1>2 DEF Lock, Busy
<1>3. CASE Append_(w)
  <2>1. born' \in Events /\ born' \in 0..MaxEvents
    BY <1>3 DEF Append_
  <2>2. Append(file, born + 1) \in Seq(Events)
    <3>1. file \in Seq(Events) /\ born + 1 \in Events
      BY <1>3, <2>1 DEF Append_
    <3> HIDE DEF Events
    <3> QED BY <3>1
  <2>3. file' \in Seq(Events)
    BY <1>3, <2>2 DEF Append_
  <2>4. inode = 0 => file' = <<>>
    BY <1>3 DEF Append_
  <2> QED BY <1>3, <2>1, <2>3, <2>4 DEF Append_
<1>4. CASE Close(w)
  BY <1>4 DEF Close
<1> QED BY <1>1, <1>2, <1>3, <1>4 DEF Writes

\* The delivery lock follows the pass that works under it.
LEMMA LockType ==
    ASSUME TypeOK, NEW p \in Passes, NEW to,
           at' = [at EXCEPT ![p] = to], to \in {"idle", "found"} \cup Locked,
           \/ lock' = lock /\ (at[p] \in Locked <=> to \in Locked)
           \/ lock' = None /\ lock \in {p, None} /\ to \notin Locked
           \/ lock = None /\ lock' = p /\ to \in Locked
    PROVE  /\ at' \in [Passes -> {"idle", "found"} \cup Locked]
           /\ \A q \in Passes : (lock' = q) <=> at'[q] \in Locked
  BY CollectAssumption DEF TypeOK

LEMMA PassType ==
    ASSUME TypeOK, FileInv, NEW p \in Passes,
           (Delivers(p) /\ UNCHANGED cuts) \/ PostRefused(p) \/ Die(p)
    PROVE  TypeOK'
<1> DEFINE Others ==
             /\ inode' \in 0..made' /\ made' \in 0..MaxFiles
             /\ file' \in Seq(Events) /\ (inode' = 0 => file' = <<>>)
             /\ ledger' \in 0..MaxEvents
             /\ taken' \in [Events -> 0..MaxCuts + 2] /\ lake' \subseteq Events
             /\ offset' \in [Passes -> 0..MaxEvents]
             /\ page' \in [Passes -> SUBSET Events]
             /\ upto' \in [Passes -> 0..MaxEvents]
             /\ cuts' \in 0..MaxCuts
           Standing ==
             /\ at' \in [Passes -> {"idle", "found"} \cup Locked]
             /\ \A q \in Passes : (lock' = q) <=> at'[q] \in Locked
<1>w. UNCHANGED <<made, writers>>
  BY DEF Delivers, Find, Acquire, Read, Post, Stat, Retire, Keep, PostRefused, Die, spool
<1> SUFFICES Others /\ Standing
  BY <1>w DEF TypeOK, writers
<1> USE CollectAssumption DEF spool, sink, Events, Aside
<1>1. CASE Find(p) /\ UNCHANGED cuts
  <2>1. Standing
    BY <1>1, LockType DEF Find, Go, Locked
  <2> QED BY <1>1, <2>1 DEF Find, TypeOK
<1>2. CASE Acquire(p) /\ UNCHANGED cuts
  <2>1. Standing
    BY <1>2, LockType DEF Acquire, Go, Locked
  <2> QED BY <1>2, <2>1 DEF Acquire, TypeOK
<1>3. CASE Read(p) /\ UNCHANGED cuts
  <2>1. Standing
    BY <1>3, LockType DEF Read, Go, Locked
  <2>2. \A i \in DOMAIN file : file[i] \in Events
    BY DEF TypeOK
  <2>3. page' \in [Passes -> SUBSET Events]
    BY <1>3, <2>2 DEF Read, TypeOK
  <2>4. upto' \in [Passes -> 0..MaxEvents]
    BY <1>3 DEF Read, TypeOK, FileInv
  <2> QED BY <1>3, <2>1, <2>3, <2>4 DEF Read, TypeOK
<1>4. CASE Post(p) /\ UNCHANGED cuts
  <2>1. Standing
    BY <1>4, LockType DEF Post, Go, Locked
  <2>2. PICK e \in page[p] :
           /\ taken' = [taken EXCEPT ![e] = IF @ < MaxCuts + 2 THEN @ + 1 ELSE @]
           /\ page' = [page EXCEPT ![p] = @ \ {e}]
    BY <1>4 DEF Post
  <2>3. e \in Events /\ taken[e] \in 0..MaxCuts + 2
    BY DEF TypeOK
  <2>4. page' \in [Passes -> SUBSET Events]
    BY <2>2 DEF TypeOK
  <2>5. (IF taken[e] < MaxCuts + 2 THEN taken[e] + 1 ELSE taken[e]) \in 0..MaxCuts + 2
    BY <2>3
  <2>6. taken' \in [Events -> 0..MaxCuts + 2]
    BY <2>2, <2>5 DEF TypeOK
  <2> QED BY <1>4, <2>1, <2>4, <2>6 DEF Post, TypeOK
<1>5. CASE Stat(p) /\ UNCHANGED cuts
  <2>1. Standing
    BY <1>5, LockType DEF Stat, Go, Locked
  <2> QED BY <1>5, <2>1 DEF Stat, TypeOK
<1>6. CASE Retire(p) /\ UNCHANGED cuts
  <2>1. Standing
    BY <1>6, LockType DEF Retire, Go, Locked
  <2>2. \/ UNCHANGED <<spool, offset>>
        \/ inode' = 0 /\ file' = <<>> /\ made' = made /\ offset' = [offset EXCEPT ![p] = 0]
    BY <1>6 DEF Retire
  <2>3. CASE UNCHANGED <<spool, offset>>
    BY <1>6, <2>1, <2>3 DEF Retire, TypeOK
  <2>4. CASE inode' = 0 /\ file' = <<>> /\ made' = made /\ offset' = [offset EXCEPT ![p] = 0]
    <3>1. file' \in Seq(Events)
      <4> HIDE DEF Events
      <4> QED BY <2>4
    <3>2. offset' \in [Passes -> 0..MaxEvents] /\ inode' \in 0..made' /\ made' \in 0..MaxFiles
      BY <2>4 DEF TypeOK
    <3> QED BY <1>6, <2>1, <2>4, <3>1, <3>2 DEF Retire, TypeOK
  <2> QED BY <2>2, <2>3, <2>4
<1>7. CASE Keep(p) /\ UNCHANGED cuts
  <2>1. Standing
    BY <1>7, LockType DEF Keep, Go, Locked, TypeOK
  <2> QED BY <1>7, <2>1 DEF Keep, TypeOK
<1>8. CASE PostRefused(p)
  <2>1. Standing
    BY <1>8, LockType DEF PostRefused, Go, Locked
  <2>2. page' \in [Passes -> SUBSET Events] /\ cuts' \in 0..MaxCuts
    BY <1>8 DEF PostRefused, CutShort, TypeOK
  <2> QED BY <1>8, <2>1, <2>2 DEF PostRefused, TypeOK
<1>9. CASE Die(p)
  <2>1. lock = p <=> at[p] \in Locked
    BY DEF TypeOK
  <2>2. Standing
    BY <1>9, <2>1, LockType DEF Die, Locked
  <2>3. page' \in [Passes -> SUBSET Events] /\ cuts' \in 0..MaxCuts
    BY <1>9 DEF Die, CutShort, TypeOK
  <2> QED BY <1>9, <2>2, <2>3 DEF Die, TypeOK
<1> QED BY <1>1, <1>2, <1>3, <1>4, <1>5, <1>6, <1>7, <1>8, <1>9 DEF Delivers

LEMMA TypeStep ==
    ASSUME TypeOK, FileInv, [Next]_vars
    PROVE  TypeOK'
<1>1. CASE Flush /\ UNCHANGED cuts
  BY <1>1 DEF Flush, TypeOK, spool, writers, passes, Events
<1>2. CASE UNCHANGED vars
  BY <1>2 DEF vars, TypeOK, spool, writers, sink, passes
<1> QED BY <1>1, <1>2, WriterType, PassType DEF Next

\* What the invariant says of deliveries, without the types.
SentInv ==
    /\ FileInv
    /\ lock = None => UnsentPast(ledger)
    /\ \A p \in Passes : DeliveryInv(p)
    /\ ResentOnlyIfCut

\* An event appended to a file: it comes after the others and was never sent.
LEMMA AppendedFile ==
    ASSUME TypeOK, FileInv, born < MaxEvents, born' = born + 1,
           file' = Append(file, born + 1) \/ file' = file, UNCHANGED <<taken, cuts>>
    PROVE  /\ FileInv'
           /\ \A i \in DOMAIN file : i \in DOMAIN file' /\ file'[i] = file[i]
           /\ \A i \in DOMAIN file' : i \in DOMAIN file \/ taken'[file'[i]] = 0
<1>0. /\ file \in Seq(Events) /\ born \in Nat /\ born + 1 \in Events
      /\ DOMAIN file = 1..Len(file) /\ Len(file) \in Nat
      /\ \A i \in DOMAIN file : file[i] \in Nat /\ file[i] <= born
      /\ \A e \in Events : e \in Nat
  <2>1. file \in Seq(Events) /\ born \in Nat /\ born + 1 \in Events
    BY CollectAssumption DEF TypeOK, Events
  <2>2. \A i \in DOMAIN file : file[i] \in Events
    BY <2>1
  <2> QED BY <2>1, <2>2, CollectAssumption DEF FileInv, Events
<1>1. CASE file' = file
  BY <1>0, <1>1 DEF FileInv
<1>2. CASE file' = Append(file, born + 1)
  <2>1. /\ DOMAIN file' = 1..Len(file) + 1 /\ Len(file') = Len(file) + 1
        /\ \A i \in 1..Len(file) : file'[i] = file[i]
        /\ file'[Len(file) + 1] = born + 1
    BY <1>2, <1>0
  <2>2. taken[born + 1] = 0
    BY <1>0 DEF FileInv
  <2>3. \A i \in DOMAIN file' : i \in DOMAIN file \/ i = Len(file) + 1
    BY <1>0, <2>1
  <2>4. \A i, j \in DOMAIN file' : i < j => file'[i] < file'[j]
    <3> SUFFICES ASSUME NEW i \in DOMAIN file', NEW j \in DOMAIN file', i < j
                 PROVE  file'[i] < file'[j]
      OBVIOUS
    <3>1. i \in DOMAIN file /\ file'[i] = file[i]
      BY <1>0, <2>1, <2>3
    <3>2. CASE j \in DOMAIN file
      BY <1>0, <2>1, <3>1, <3>2 DEF FileInv
    <3>3. CASE j = Len(file) + 1
      BY <1>0, <2>1, <3>1, <3>3
    <3> QED BY <2>3, <3>2, <3>3
  <2>5. /\ Len(file') <= born' /\ \A i \in DOMAIN file' : file'[i] <= born'
        /\ \A e \in Events : e > born' => taken'[e] = 0
    BY <1>0, <2>1, <2>3 DEF FileInv
  <2>6. FileInv'
    BY <2>4, <2>5 DEF FileInv, Events
  <2> QED BY <1>0, <2>1, <2>2, <2>3, <2>6
<1> QED BY <1>1, <1>2

\* Writers send nothing, and what they spool lies past every offset in use.
LEMMA WriterSent ==
    ASSUME TypeOK, SentInv, NEW w \in Writers, Writes(w), UNCHANGED cuts
    PROVE  SentInv'
<1> USE DEF spool, sink, passes, SentInv
<1>1. CASE Append_(w)
  <2>1. /\ FileInv'
        /\ \A i \in DOMAIN file : i \in DOMAIN file' /\ file'[i] = file[i]
        /\ \A i \in DOMAIN file' : i \in DOMAIN file \/ taken'[file'[i]] = 0
    BY <1>1, AppendedFile DEF Append_
  <2>2. UNCHANGED <<at, upto, offset, page, ledger, taken, lock>> /\ 0 <= cuts
    BY <1>1 DEF Append_, TypeOK
  <2>3. ASSUME NEW n, \A i \in DOMAIN file : i > n => taken[file[i]] <= cuts
        PROVE  \A i \in DOMAIN file' : i > n => taken[file'[i]] <= cuts
    BY <2>1, <2>2, <2>3
  <2>4. lock' = None => UnsentPast(ledger)'
    BY <2>2, <2>3 DEF UnsentPast, Unsent
  <2>5. ASSUME NEW p \in Passes PROVE DeliveryInv(p)'
    <3>1. \A e \in page[p] :
             (\E i \in DOMAIN file : i <= upto[p] /\ file[i] = e)
                => \E i \in DOMAIN file' : i <= upto[p] /\ file'[i] = e
      BY <2>1
    <3> QED BY <2>2, <2>3, <3>1 DEF DeliveryInv, UnsentPast, Unsent
  <2>6. ResentOnlyIfCut'
    BY <1>1 DEF Append_, ResentOnlyIfCut
  <2> QED BY <2>1, <2>4, <2>5, <2>6
<1>2. CASE Open(w) \/ Lock(w) \/ Close(w)
  <2>1. UNCHANGED <<file, born, ledger, taken, lock, at, upto, offset, page>>
    BY <1>2 DEF Open, Lock, Close
  <2> QED BY <2>1 DEF FileInv, DeliveryInv, UnsentPast, Unsent, ResentOnlyIfCut
<1> QED BY <1>1, <1>2 DEF Writes

\* A pass that neither moves into the lock nor acts under it.
LEMMA PassRests ==
    ASSUME TypeOK, NEW p \in Passes, DeliveryInv(p),
           UNCHANGED <<file, ledger, offset, upto, page, taken, cuts>>,
           at'[p] = at[p] \/ at'[p] \notin Locked
    PROVE  DeliveryInv(p)'
  BY DEF DeliveryInv, UnsentPast, Unsent, Locked

\* No pass but the one that holds the lock acts under it.
LEMMA OthersRest ==
    ASSUME TypeOK, NEW p \in Passes, lock = p \/ lock = None,
           NEW q \in Passes \ {p}, at'[q] = at[q]
    PROVE  at'[q] \notin Locked /\ DeliveryInv(q)'
  BY CollectAssumption DEF TypeOK, DeliveryInv, Locked

\* What every step of a pass under the lock leaves to show.
LEMMA HolderSent ==
    ASSUME TypeOK, SentInv, NEW p \in Passes, lock = p \/ lock = None,
           \A q \in Passes \ {p} : at'[q] = at[q],
           FileInv', lock' = None => UnsentPast(ledger)', DeliveryInv(p)',
           ResentOnlyIfCut'
    PROVE  SentInv'
  BY OthersRest DEF SentInv

\* A cut pays for one more sending of every event.
LEMMA CutPays ==
    ASSUME TypeOK, ResentOnlyIfCut, FileInv, CutShort, UNCHANGED <<file, born, taken>>
    PROVE  /\ ResentOnlyIfCut' /\ FileInv'
           /\ \A i \in DOMAIN file' : taken'[file'[i]] <= cuts'
<1>1. cuts \in Nat /\ cuts' = cuts + 1 /\ \A e \in Events : taken[e] \in Nat
  BY CollectAssumption DEF CutShort, TypeOK
<1>2. \A i \in DOMAIN file : file[i] \in Events
  BY DEF TypeOK
<1> QED BY <1>1, <1>2 DEF ResentOnlyIfCut, FileInv

\* A pass reads past the ledger, posts what it read, and keeps an offset it got
\* to; nothing it is about to post was sent since the last cut.
LEMMA PassSent ==
    ASSUME TypeOK, SentInv, NEW p \in Passes,
           (Delivers(p) /\ UNCHANGED cuts) \/ PostRefused(p) \/ Die(p)
    PROVE  SentInv'
<1> USE DEF spool, sink, writers, Aside
<1>t. /\ at \in [Passes -> {"idle", "found"} \cup Locked]
      /\ \A q \in Passes : (lock = q) <=> at[q] \in Locked
      /\ page \in [Passes -> SUBSET Events] /\ upto \in [Passes -> 0..MaxEvents]
      /\ offset \in [Passes -> 0..MaxEvents]
      /\ \A i \in DOMAIN file : file[i] \in Events
      /\ None \notin Passes /\ MaxEvents \in Nat
  BY CollectAssumption DEF TypeOK
<1>s. FileInv /\ ResentOnlyIfCut /\ DeliveryInv(p)
  BY DEF SentInv
<1>1. CASE Find(p) /\ UNCHANGED cuts
  <2>1. /\ UNCHANGED <<file, born, ledger, taken, offset, page, upto, lock, cuts>>
        /\ \A q \in Passes : at'[q] = at[q] \/ at'[q] \notin Locked
    BY <1>1, <1>t DEF Find, Go, Locked
  <2> QED BY <2>1, PassRests
         DEF SentInv, FileInv, UnsentPast, Unsent, ResentOnlyIfCut
<1>2. CASE Acquire(p) /\ UNCHANGED cuts
  <2>1. /\ UNCHANGED <<file, born, ledger, taken, offset, page, upto, cuts>>
        /\ FileInv' /\ ResentOnlyIfCut' /\ (UnsentPast(ledger) <=> UnsentPast(ledger)')
    BY <1>2, <1>s DEF Acquire, FileInv, UnsentPast, Unsent, ResentOnlyIfCut
  <2>2. CASE lock = None
    <3>1. at'[p] = "read" /\ lock' = p /\ \A q \in Passes \ {p} : at'[q] = at[q]
      BY <1>2, <1>t, <2>2 DEF Acquire, Go
    <3>2. DeliveryInv(p)'
      BY <2>1, <2>2, <3>1 DEF SentInv, DeliveryInv
    <3> QED BY <1>t, <2>1, <2>2, <3>1, <3>2, HolderSent
  <2>3. CASE lock # None
    <3>1. lock' = lock /\ \A q \in Passes : at'[q] = at[q] \/ at'[q] \notin Locked
      BY <1>2, <1>t, <2>3 DEF Acquire, Go, Locked
    <3> QED BY <2>1, <2>3, <3>1, PassRests DEF SentInv
  <2> QED BY <2>2, <2>3
<1>3. CASE Read(p) /\ UNCHANGED cuts
  <2>1. /\ at[p] = "read" /\ lock = p /\ lock' = p
        /\ \A q \in Passes \ {p} : at'[q] = at[q]
        /\ UNCHANGED <<file, born, ledger, taken, cuts>>
    BY <1>3, <1>t DEF Read, Go, Locked
  <2>2. FileInv' /\ ResentOnlyIfCut'
    BY <1>s, <2>1 DEF FileInv, ResentOnlyIfCut
  <2>3. /\ offset'[p] = ledger
        /\ page'[p] = {file[i] : i \in {j \in DOMAIN file : j > ledger}} \ lake
        /\ upto'[p] = IF ledger < Len(file) THEN Len(file) ELSE ledger
        /\ at'[p] = IF inode = 0 THEN "keep" ELSE "post"
    BY <1>3, <1>t DEF Read, Go
  <2>4. UnsentPast(ledger)
    BY <1>s, <2>1 DEF DeliveryInv
  <2>5. \A i \in DOMAIN file : i <= upto'[p] /\ ~(i > upto'[p])
    BY <2>3 DEF TypeOK
  <2>6. DeliveryInv(p)'
    <3>1. UnsentPast(upto[p])'
      BY <2>1, <2>5, <1>t DEF UnsentPast, Unsent, TypeOK
    <3>2. ASSUME NEW e \in page'[p]
          PROVE  taken'[e] <= cuts' /\ \E i \in DOMAIN file' : i <= upto'[p] /\ file'[i] = e
      BY <2>1, <2>3, <2>4, <2>5 DEF UnsentPast, Unsent
    <3>3. UnsentPast(offset[p])'
      BY <2>1, <2>3, <2>4 DEF UnsentPast, Unsent
    <3> QED BY <2>3, <3>1, <3>2, <3>3 DEF DeliveryInv, Unsent
  <2> QED BY <1>t, <2>1, <2>2, <2>6, HolderSent
<1>4. CASE Post(p) /\ UNCHANGED cuts
  <2>1. /\ at[p] = "post" /\ at'[p] = "post" /\ lock = p /\ lock' = p
        /\ \A q \in Passes \ {p} : at'[q] = at[q]
        /\ UNCHANGED <<file, born, ledger, upto, cuts>>
    BY <1>4, <1>t DEF Post, Go, Locked
  <2>2. PICK e \in page[p] :
           /\ taken' = [taken EXCEPT ![e] = IF @ < MaxCuts + 2 THEN @ + 1 ELSE @]
           /\ page' = [page EXCEPT ![p] = @ \ {e}]
    BY <1>4 DEF Post
  <2>3. /\ e \in Events /\ Unsent(e)
        /\ \E i \in DOMAIN file : i <= upto[p] /\ file[i] = e
    BY <1>s, <1>t, <2>1, <2>2 DEF DeliveryInv
  <2>4. /\ page'[p] = page[p] \ {e}
        /\ taken[e] \in Nat /\ cuts \in Nat /\ taken'[e] <= 1 + cuts
        /\ \A f \in Events \ {e} : taken'[f] = taken[f]
    <3>1. taken \in [Events -> 0..MaxCuts + 2] /\ cuts \in Nat /\ MaxCuts \in Nat
      BY CollectAssumption DEF TypeOK
    <3>2. taken[e] \in Nat /\ taken[e] <= cuts
      BY <2>3, <3>1 DEF Unsent
    <3> QED BY <1>t, <2>2, <2>3, <3>1, <3>2
  <2>5. FileInv'
    <3>1. e <= born
      BY <1>s, <2>3 DEF FileInv
    <3>2. \A f \in Events : f > born => f # e
      BY <1>t, <2>3, <3>1, CollectAssumption DEF Events, TypeOK
    <3> QED BY <1>s, <2>1, <2>4, <3>2 DEF FileInv
  <2>6. ResentOnlyIfCut'
    BY <1>s, <2>1, <2>4 DEF ResentOnlyIfCut
  <2>7. DeliveryInv(p)'
    <3>1. \A i \in DOMAIN file : i > upto[p] => file[i] # e
      <4>1. PICK j \in DOMAIN file : j <= upto[p] /\ file[j] = e
        BY <2>3
      <4>2. \A i \in DOMAIN file : i > upto[p] => j < i
        BY <1>t, <4>1 DEF TypeOK
      <4>3. e \in Nat /\ \A i \in DOMAIN file : file[i] \in Nat
        BY <1>t, <2>3 DEF Events
      <4> QED BY <1>s, <4>1, <4>2, <4>3 DEF FileInv
    <3>2. UnsentPast(upto[p])'
      BY <1>s, <1>t, <2>1, <2>4, <3>1 DEF DeliveryInv, UnsentPast, Unsent
    <3>3. \A f \in page'[p] :
             taken'[f] <= cuts /\ \E i \in DOMAIN file : i <= upto[p] /\ file[i] = f
      BY <1>s, <1>t, <2>1, <2>4 DEF DeliveryInv, Unsent
    <3> QED BY <2>1, <3>2, <3>3 DEF DeliveryInv, Unsent
  <2> QED BY <1>t, <2>1, <2>5, <2>6, <2>7, HolderSent
<1>5. CASE Stat(p) /\ UNCHANGED cuts
  <2>1. /\ at[p] = "post" /\ at'[p] \in {"retire", "keep"} /\ lock = p /\ lock' = p
        /\ \A q \in Passes \ {p} : at'[q] = at[q]
        /\ offset'[p] = upto[p]
        /\ UNCHANGED <<file, born, taken, cuts>>
    BY <1>5, <1>t DEF Stat, Go, Locked
  <2>2. FileInv' /\ ResentOnlyIfCut'
    BY <1>s, <2>1 DEF FileInv, ResentOnlyIfCut
  <2>3. DeliveryInv(p)'
    BY <1>s, <2>1 DEF DeliveryInv, UnsentPast, Unsent
  <2> QED BY <1>t, <2>1, <2>2, <2>3, HolderSent
<1>6. CASE Retire(p) /\ UNCHANGED cuts
  <2>1. /\ at[p] = "retire" /\ at'[p] = "keep" /\ lock = p /\ lock' = p
        /\ \A q \in Passes \ {p} : at'[q] = at[q]
        /\ UNCHANGED <<born, taken, cuts>>
        /\ file' = <<>> \/ UNCHANGED <<file, offset>>
    BY <1>6, <1>t DEF Retire, Go, Locked
  <2>2. ResentOnlyIfCut'
    BY <1>s, <2>1 DEF ResentOnlyIfCut
  <2>3. CASE file' = <<>>
    <3>1. DOMAIN file' = {} /\ Len(file') = 0 /\ born \in Nat
      BY <2>3 DEF TypeOK
    <3>2. FileInv' /\ DeliveryInv(p)'
      BY <1>s, <2>1, <3>1 DEF FileInv, DeliveryInv, UnsentPast
    <3> QED BY <1>t, <2>1, <2>2, <3>2, HolderSent
  <2>4. CASE UNCHANGED <<file, offset>>
    <3>1. FileInv' /\ DeliveryInv(p)'
      BY <1>s, <2>1, <2>4 DEF FileInv, DeliveryInv, UnsentPast, Unsent
    <3> QED BY <1>t, <2>1, <2>2, <3>1, HolderSent
  <2> QED BY <2>1, <2>3, <2>4
<1>7. CASE Keep(p) /\ UNCHANGED cuts
  <2>1. /\ at[p] = "keep" /\ at'[p] = "idle" /\ lock = p
        /\ \A q \in Passes \ {p} : at'[q] = at[q]
        /\ ledger' = offset[p]
        /\ UNCHANGED <<file, born, taken, cuts>>
    BY <1>7, <1>t DEF Keep, Go, Locked
  <2>2. FileInv' /\ ResentOnlyIfCut'
    BY <1>s, <2>1 DEF FileInv, ResentOnlyIfCut
  <2>3. UnsentPast(ledger)' /\ DeliveryInv(p)'
    BY <1>s, <2>1 DEF DeliveryInv, UnsentPast, Unsent
  <2> QED BY <2>1, <2>2, <2>3, HolderSent
<1>8. CASE PostRefused(p)
  <2>1. /\ at[p] = "post" /\ at'[p] = "keep" /\ lock = p /\ lock' = p
        /\ \A q \in Passes \ {p} : at'[q] = at[q]
        /\ UNCHANGED <<file, born, taken>>
    BY <1>8, <1>t DEF PostRefused, Go, Locked
  <2>2. /\ FileInv' /\ ResentOnlyIfCut'
        /\ \A i \in DOMAIN file' : taken'[file'[i]] <= cuts'
    BY <1>s, <1>8, <2>1, CutPays DEF PostRefused
  <2>3. DeliveryInv(p)'
    BY <2>1, <2>2 DEF DeliveryInv, UnsentPast, Unsent
  <2> QED BY <1>t, <2>1, <2>2, <2>3, HolderSent
<1>9. CASE Die(p)
  <2>1. /\ at'[p] = "idle" /\ \A q \in Passes \ {p} : at'[q] = at[q]
        /\ UNCHANGED <<file, born, taken, ledger, upto, offset>>
        /\ \A q \in Passes \ {p} : page'[q] = page[q]
    BY <1>9, <1>t DEF Die
  <2>2. /\ FileInv' /\ ResentOnlyIfCut'
        /\ \A i \in DOMAIN file' : taken'[file'[i]] <= cuts'
    BY <1>s, <1>9, <2>1, CutPays DEF Die
  <2>3. UnsentPast(ledger)'
    BY <2>2 DEF UnsentPast, Unsent
  <2>4. cuts \in Nat /\ cuts' = cuts + 1 /\ \A e \in Events : taken[e] \in Nat
    BY <1>9, CollectAssumption DEF Die, CutShort, TypeOK
  <2>5. ASSUME NEW q \in Passes PROVE DeliveryInv(q)'
    <3>1. CASE q = p
      BY <2>1, <3>1 DEF DeliveryInv
    <3>2. CASE q # p
      BY <1>t, <2>1, <2>2, <2>4, <3>2 DEF SentInv, DeliveryInv, UnsentPast, Unsent
    <3> QED BY <3>1, <3>2
  <2> QED BY <2>2, <2>3, <2>5 DEF SentInv
<1> QED BY <1>1, <1>2, <1>3, <1>4, <1>5, <1>6, <1>7, <1>8, <1>9 DEF Delivers

\* The invariant is inductive.
LEMMA StepInv == IInv /\ [Next]_vars => IInv'
<1> SUFFICES ASSUME TypeOK, SentInv, [Next]_vars PROVE TypeOK' /\ SentInv'
  BY DEF IInv, SentInv
<1>1. TypeOK'
  BY TypeStep DEF SentInv
<1>2. CASE (Flush /\ UNCHANGED cuts) \/ UNCHANGED vars
  <2>1. UNCHANGED <<file, born, ledger, taken, lock, at, offset, page, upto, cuts>>
    BY <1>2 DEF Flush, vars, spool, writers, sink, passes
  <2>2. FileInv' /\ ResentOnlyIfCut' /\ (lock' = None => UnsentPast(ledger)')
    BY <2>1 DEF SentInv, FileInv, UnsentPast, Unsent, ResentOnlyIfCut
  <2>3. \A p \in Passes : DeliveryInv(p)'
    BY <2>1, PassRests DEF SentInv
  <2> QED BY <1>1, <2>2, <2>3 DEF SentInv
<1>3. ASSUME NEW w \in Writers, Writes(w), UNCHANGED cuts PROVE SentInv'
  BY <1>3, WriterSent
<1>4. ASSUME NEW p \in Passes,
             (Delivers(p) /\ UNCHANGED cuts) \/ PostRefused(p) \/ Die(p)
      PROVE  SentInv'
  BY <1>4, PassSent
<1> QED BY <1>1, <1>2, <1>3, <1>4 DEF Next

LEMMA InvHolds == Spec => []IInv
  BY InitInv, StepInv, PTL DEF Spec

\* Every variable keeps its type; the delivery lock is with the pass under it.
THEOREM EventsTyped == Spec => []TypeOK
<1>1. IInv => TypeOK
  BY DEF IInv
<1> QED BY <1>1, InvHolds, PTL

\* An event is sent once, and once more at most for each pass that was cut
\* short (Collector._sent keeps the ledger, `held` skips what the lake shows).
THEOREM EventsResent == Spec => []ResentOnlyIfCut
<1>1. IInv => ResentOnlyIfCut
  BY DEF IInv
<1> QED BY <1>1, InvHolds, PTL

(***************************************************************************)
(* One writer that holds on to its file.                                   *)
(***************************************************************************)
CastVars == <<vars, cast>>

\* A step of the cast is a step of the specification, or stutters.
LEMMA CastStep ==
    ASSUME [CastNext]_CastVars
    PROVE  [Next]_vars /\ cast' = cast
  BY DEF CastVars, CastNext

LEMMA CastInvHolds == CastSpec => []IInv
<1>1. CastInit => IInv
  BY InitInv DEF CastInit
<1>2. IInv /\ [CastNext]_<<vars, cast>> => IInv'
  BY StepInv, CastStep DEF CastVars
<1> QED BY <1>1, <1>2, PTL DEF CastSpec

LEMMA InitHeld == CastInit => HeldInv
<1> SUFFICES ASSUME Init PROVE HolderInv /\ InPlaceInv
  BY DEF CastInit, HeldInv
<1> QED BY CollectAssumption DEF Init, HolderInv, InPlaceInv, Delivered, Locked, Events

\* Only the holder makes files, and it keeps the lock of the one it wrote to.
LEMMA HolderStep ==
    ASSUME TypeOK, HolderInv, Next, cast = Held, Around
    PROVE  HolderInv'
<1> USE CollectAssumption DEF spool, sink, passes, writers
<1>t. /\ inode \in 0..made /\ made \in Nat /\ born \in Nat
      /\ pen \in [Writers -> {"idle", "opened", "writing"}]
      /\ open \in [Writers -> 0..made]
      /\ \A w \in Writers : pen[w] = "idle" <=> open[w] = 0
  BY DEF TypeOK
<1>a. \A w \in Writers \ {writer1} : open'[w] = 0
  BY DEF Around
<1>1. ASSUME NEW w \in Writers, Writes(w) PROVE HolderInv'
  <2>1. CASE Open(w)
    <3>1. open'[w] # 0 /\ pen[w] = "idle" /\ born' = born
      BY <1>t, <2>1 DEF Open
    <3>2. w = writer1
      BY <1>a, <3>1
    <3>3. born = 0
      BY <1>t, <3>1, <3>2 DEF HolderInv
    <3> QED BY <1>t, <1>a, <2>1, <3>1, <3>2, <3>3 DEF Open, HolderInv
  <2>2. CASE Lock(w)
    <3>1. w = writer1 /\ pen[w] = "opened"
      BY <1>t, <2>2 DEF Lock, HolderInv
    <3>2. born = 0 /\ born' = born
      BY <1>t, <2>2, <3>1 DEF Lock, HolderInv
    <3> QED BY <1>t, <1>a, <2>2, <3>1, <3>2 DEF Lock, HolderInv
  <2>3. CASE Append_(w)
    <3>1. w = writer1 /\ pen[w] = "writing"
      BY <1>t, <2>3 DEF Append_, HolderInv
    <3> QED BY <1>t, <1>a, <2>3, <3>1 DEF Append_, HolderInv
  <2>4. CASE Close(w)
    <3>1. w = writer1 /\ pen[w] = "writing" /\ pen'[w] = "idle"
      BY <1>t, <2>4 DEF Close, HolderInv
    <3> QED BY <3>1 DEF Around
  <2> QED BY <1>1, <2>1, <2>2, <2>3, <2>4 DEF Writes
<1>2. ASSUME NEW p \in Passes, Retire(p) PROVE HolderInv'
  <2>1. UNCHANGED <<born, pen, open>>
    BY <1>2 DEF Retire
  <2>2. CASE inode' = inode
    BY <2>1, <2>2 DEF HolderInv
  <2>3. CASE inode' # inode
    <3>1. inode' = 0 /\ \A w \in Writers : ~(pen[w] = "writing" /\ open[w] = inode)
      BY <1>2, <2>3 DEF Retire
    <3> QED BY <2>1, <3>1 DEF HolderInv
  <2> QED BY <2>2, <2>3
<1>3. CASE UNCHANGED <<inode, born, pen, open>>
  BY <1>3 DEF HolderInv
<1>4. ASSUME NEW p \in Passes,
             \/ Find(p) \/ Acquire(p) \/ Read(p) \/ Post(p) \/ Stat(p) \/ Keep(p)
             \/ PostRefused(p) \/ Die(p)
      PROVE  UNCHANGED <<inode, born, pen, open>>
  BY <1>4 DEF Find, Acquire, Read, Post, Stat, Keep, PostRefused, Die
<1>5. Flush => UNCHANGED <<inode, born, pen, open>>
  BY DEF Flush
<1> QED BY <1>1, <1>2, <1>3, <1>4, <1>5 DEF Next, Delivers

\* While the holder has its file, every event is in its place there, and every
\* offset in use was delivered.
LEMMA InPlaceStep ==
    ASSUME TypeOK, HolderInv, InPlaceInv, Next
    PROVE  InPlaceInv'
<1> USE CollectAssumption DEF spool, sink, passes, writers, Aside
<1>t. /\ born \in Nat /\ file \in Seq(Events) /\ ledger \in Nat
      /\ DOMAIN file = 1..Len(file) /\ Len(file) = born
      /\ at \in [Passes -> {"idle", "found"} \cup Locked]
      /\ page \in [Passes -> SUBSET Events] /\ upto \in [Passes -> 0..MaxEvents]
      /\ offset \in [Passes -> 0..MaxEvents]
      /\ taken \in [Events -> 0..MaxCuts + 2] /\ lake \subseteq Events
      /\ MaxEvents \in Nat /\ MaxCuts \in Nat
      /\ \A e \in 1..born : e \in Events
  BY DEF TypeOK, InPlaceInv, Events
<1>i. /\ \A i \in DOMAIN file : file[i] = i
      /\ \A e \in lake : taken[e] > 0
      /\ Delivered(ledger)
  BY DEF InPlaceInv
<1>1. ASSUME NEW w \in Writers, Writes(w) PROVE InPlaceInv'
  <2>1. CASE Append_(w)
    <3>1. w = writer1 /\ open[w] = inode
      BY <2>1 DEF Append_, TypeOK, HolderInv
    <3>2. file' = Append(file, born + 1) /\ born' = born + 1 /\ born + 1 \in Events
      BY <1>t, <2>1, <3>1 DEF Append_, Events
    <3>3. Len(file') = born' /\ \A i \in DOMAIN file' : file'[i] = i
      BY <1>t, <1>i, <3>2
    <3>4. UNCHANGED <<taken, lake, ledger, at, upto, page, offset>>
      BY <2>1 DEF Append_
    <3> QED BY <1>t, <1>i, <3>2, <3>3, <3>4 DEF InPlaceInv, Delivered
  <2>2. CASE Open(w) \/ Lock(w) \/ Close(w)
    <3>1. UNCHANGED <<file, born, taken, lake, ledger, at, upto, page, offset>>
      BY <2>2 DEF Open, Lock, Close
    <3> QED BY <3>1 DEF InPlaceInv, Delivered
  <2> QED BY <1>1, <2>1, <2>2 DEF Writes
<1>2. ASSUME NEW p \in Passes, Read(p) PROVE InPlaceInv'
  <2>1. /\ offset' = [offset EXCEPT ![p] = ledger]
        /\ page'[p] = {file[i] : i \in {j \in DOMAIN file : j > ledger}} \ lake
        /\ upto'[p] = IF ledger < Len(file) THEN Len(file) ELSE ledger
        /\ \A q \in Passes \ {p} :
              at'[q] = at[q] /\ page'[q] = page[q] /\ upto'[q] = upto[q]
        /\ UNCHANGED <<file, born, taken, lake, ledger>>
    BY <1>2, <1>t DEF Read, Go
  <2>2. upto'[p] = born
    BY <1>t, <1>i, <2>1 DEF Delivered
  <2>3. ASSUME NEW e \in 1..born PROVE taken[e] > 0 \/ e \in page'[p]
    <3>1. e \in DOMAIN file /\ file[e] = e
      BY <1>t, <1>i
    <3>2. CASE e <= ledger
      BY <1>t, <1>i, <3>2 DEF Delivered
    <3>3. CASE e > ledger
      BY <1>i, <2>1, <3>1, <3>3
    <3> QED BY <1>t, <3>2, <3>3
  <2>4. Delivered(offset[p])'
    BY <1>t, <1>i, <2>1 DEF Delivered
  <2> QED BY <1>t, <1>i, <2>1, <2>2, <2>3, <2>4 DEF InPlaceInv, Delivered
<1>3. ASSUME NEW p \in Passes, Post(p) PROVE InPlaceInv'
  <2>1. PICK e \in page[p] :
           /\ taken' = [taken EXCEPT ![e] = IF @ < MaxCuts + 2 THEN @ + 1 ELSE @]
           /\ page' = [page EXCEPT ![p] = @ \ {e}]
    BY <1>3 DEF Post
  <2>2. UNCHANGED <<file, born, lake, ledger, offset, upto, at>> /\ e \in Events
    BY <1>3, <1>t DEF Post, Go
  <2>3. taken'[e] > 0 /\ \A f \in Events : taken[f] > 0 => taken'[f] > 0
    <3>1. taken[e] \in 0..MaxCuts + 2
      BY <1>t, <2>2
    <3> QED BY <1>t, <2>1, <2>2, <3>1
  <2>4. \A q \in Passes, f \in Events : f \in page[q] => f \in page'[q] \/ taken'[f] > 0
    BY <1>t, <2>1, <2>3
  <2>5. ASSUME NEW n \in Nat, Delivered(n) PROVE \A f \in 1..n : n <= born /\ taken'[f] > 0
    BY <1>t, <2>3, <2>5 DEF Delivered
  <2> QED BY <1>t, <1>i, <2>2, <2>3, <2>4, <2>5 DEF InPlaceInv, Delivered
<1>4. ASSUME NEW p \in Passes, Stat(p) PROVE InPlaceInv'
  <2>1. /\ at[p] = "post" /\ page[p] = {} /\ offset' = [offset EXCEPT ![p] = upto[p]]
        /\ \A q \in Passes \ {p} : at'[q] = at[q]
        /\ at'[p] # "post"
        /\ UNCHANGED <<file, born, taken, lake, ledger, page, upto>>
    BY <1>4, <1>t DEF Stat, Go
  <2>2. Delivered(offset[p])'
    BY <1>t, <2>1 DEF InPlaceInv, Delivered
  <2> QED BY <1>t, <1>i, <2>1, <2>2 DEF InPlaceInv, Delivered
<1>5. ASSUME NEW p \in Passes, Retire(p) PROVE InPlaceInv'
  <2>1. /\ at[p] = "retire" /\ at' = [at EXCEPT ![p] = "keep"]
        /\ UNCHANGED <<born, taken, lake, ledger, page, upto>>
    BY <1>5 DEF Retire, Go
  <2>2. CASE UNCHANGED <<file, offset>>
    BY <1>t, <1>i, <2>1, <2>2 DEF InPlaceInv, Delivered, Locked
  <2>3. CASE /\ file' = <<>> /\ offset' = [offset EXCEPT ![p] = 0]
             /\ \A w \in Writers : ~(pen[w] = "writing" /\ open[w] = inode)
    <3>1. born = 0
      BY <1>t, <2>3 DEF HolderInv
    <3>2. Len(file') = born' /\ DOMAIN file' = {}
      BY <2>1, <2>3, <3>1
    <3> QED BY <1>t, <1>i, <2>1, <2>3, <3>1, <3>2 DEF InPlaceInv, Delivered, Locked
  <2> QED BY <1>5, <2>2, <2>3 DEF Retire
<1>6. ASSUME NEW p \in Passes, Keep(p) PROVE InPlaceInv'
  <2>1. /\ at[p] = "keep" /\ at' = [at EXCEPT ![p] = "idle"] /\ ledger' = offset[p]
        /\ UNCHANGED <<file, born, taken, lake, page, upto, offset>>
    BY <1>6 DEF Keep, Go
  <2>2. Delivered(ledger)'
    BY <2>1 DEF InPlaceInv, Delivered, Locked
  <2> QED BY <1>t, <1>i, <2>1, <2>2 DEF InPlaceInv, Delivered, Locked
<1>7. ASSUME NEW p \in Passes, Find(p) \/ Acquire(p) \/ Die(p) PROVE InPlaceInv'
  <2>1. /\ at'[p] \in {"idle", "found", "read"} /\ \A q \in Passes \ {p} : at'[q] = at[q]
        /\ \A q \in Passes \ {p} : page'[q] = page[q]
        /\ UNCHANGED <<file, born, taken, lake, ledger, upto, offset>>
    BY <1>7, <1>t DEF Find, Acquire, Die, Go
  <2> QED BY <1>t, <1>i, <2>1 DEF InPlaceInv, Delivered, Locked
<1>8. ASSUME NEW p \in Passes, PostRefused(p) PROVE InPlaceInv'
  <2>1. /\ at[p] = "post" /\ at'[p] = "keep" /\ \A q \in Passes \ {p} : at'[q] = at[q]
        /\ \A q \in Passes \ {p} : page'[q] = page[q]
        /\ UNCHANGED <<file, born, taken, lake, ledger, upto, offset>>
    BY <1>8, <1>t DEF PostRefused, Go
  <2> QED BY <1>t, <1>i, <2>1 DEF InPlaceInv, Delivered, Locked
<1>9. CASE Flush
  <2>1. /\ UNCHANGED <<file, born, taken, ledger, at, page, upto, offset>>
        /\ \A e \in lake' : e \in lake \/ taken[e] > 0
    BY <1>9 DEF Flush
  <2> QED BY <1>t, <1>i, <2>1 DEF InPlaceInv, Delivered
<1> QED BY <1>1, <1>2, <1>3, <1>4, <1>5, <1>6, <1>7, <1>8, <1>9 DEF Next, Delivers

LEMMA StepHeld ==
    IInv /\ HeldInv /\ [CastNext]_<<vars, cast>> => HeldInv'
<1> SUFFICES ASSUME TypeOK, cast = Held, HolderInv, InPlaceInv, [CastNext]_<<vars, cast>>
             PROVE  HolderInv' /\ InPlaceInv'
  BY CastStep DEF IInv, HeldInv, CastVars
<1>1. CASE CastNext
  BY <1>1, HolderStep, InPlaceStep DEF CastNext
<1>2. CASE UNCHANGED <<vars, cast>>
  BY <1>2 DEF vars, spool, writers, sink, passes, HolderInv, InPlaceInv, Delivered
<1> QED BY <1>1, <1>2

LEMMA HeldHolds == CastSpec => []HeldInv
  BY CastInvHolds, InitHeld, StepHeld, PTL DEF CastSpec

\* Over a writer that keeps its file open no event is lost: between passes one
\* the sink has not accepted lies past the ledger's offset (Collector._retired
\* spares a file whose lock is held).
THEOREM EventsKept == CastSpec => []KeptWhileHeld
<1>1. ASSUME IInv, HeldInv PROVE KeptWhileHeld
  <2> SUFFICES ASSUME cast = Held, NEW e \in 1..born, taken[e] = 0
               PROVE  \E i \in DOMAIN file : file[i] = e /\ i > ledger
    BY DEF KeptWhileHeld, EventIsKept
  <2>1. born \in Nat /\ ledger \in Nat /\ file \in Seq(Events)
    BY <1>1, CollectAssumption DEF IInv, TypeOK
  <2>2. InPlaceInv
    BY <1>1 DEF HeldInv
  <2>3. e \in DOMAIN file /\ file[e] = e
    BY <2>1, <2>2 DEF InPlaceInv
  <2>4. ~(e \in 1..ledger)
    BY <2>2 DEF InPlaceInv, Delivered
  <2>5. e > ledger
    BY <2>1, <2>4
  <2> QED BY <2>3, <2>5
<1> QED BY <1>1, CastInvHolds, HeldHolds, PTL

\* And then the ledger is what its documentation says it is, the offset its
\* file was delivered up to (state/telemetry.py), whenever no pass delivers.
THEOREM EventsOffset == CastSpec => [](cast = Held => OffsetWasDelivered)
<1>1. ASSUME IInv, HeldInv, cast = Held PROVE OffsetWasDelivered
  BY <1>1 DEF OffsetWasDelivered, HeldInv, InPlaceInv, Delivered, IInv, TypeOK
<1>2. IInv /\ HeldInv => (cast = Held => OffsetWasDelivered)
  BY <1>1
<1> QED BY <1>2, CastInvHolds, HeldHolds, PTL
=============================================================================
