------------------------------ MODULE HoldsProofs ------------------------------
(***************************************************************************)
(* Two promises of a hold, for any lifetimes and any number of callers: a  *)
(* machine that is up can be found, and a hold handed back in time is kept.*)
(***************************************************************************)
EXTENDS Holds, TLAPS

(***************************************************************************)
(* The vocabulary.                                                         *)
(***************************************************************************)
\* The settled words are the seven that move nowhere (Word.settled).
LEMMA SettledWords ==
    Settled = {"ok", "failed", "vanished", "unknown", "timeout", "cancelled",
               "skipped"}
  BY DEF Settled, Moves, Words

(***************************************************************************)
(* The types the argument needs.                                           *)
(***************************************************************************)
Typed ==
    /\ verdict \in [Runs -> Words]
    /\ reported \in [Runs -> Words \cup {Nothing}]
    /\ leased \in [Runs -> BOOLEAN]
    /\ machine \in {"up", "gone"}
    /\ now \in Nat /\ lease \in Nat /\ due \in Nat /\ ready \in Nat
    /\ overran \in BOOLEAN /\ asked \in BOOLEAN
    /\ ending \in [Enders -> {"idle", "cancel", "forget"}]

(***************************************************************************)
(* Found: nothing is written about the row's outcome before the machine is *)
(* gone, although the deadline pass writes it in steps of its own.         *)
(***************************************************************************)
Found ==
    /\ machine = "up" =>
          verdict[run] = "queued" /\ reported[run] = Nothing /\ leased[run] = TRUE
    /\ swept \in {"cancelled", "closed", "reported"} => machine = "gone"

(***************************************************************************)
(* Kept: whoever has set out to end the machine was asked to, or had a     *)
(* deadline that had passed, and the hold notices that when it counts its  *)
(* own (RecordReady) or moves the lease (MoveLease).                       *)
(***************************************************************************)
Leaving ==
    \/ machine = "gone"
    \/ swept \in {"seen", "noted"}
    \/ \E e \in Enders : ending[e] # "idle"

Past ==
    /\ at = "rented" => now >= lease
    /\ at \in {"setup", "parked"} => now >= lease \/ now >= due \/ due = NotHeld
    /\ at \in {"recorded", "delivered"} => now >= lease \/ now >= ready
    /\ at = "held" => now >= ready

Counted ==
    /\ at \in {"rented", "setup", "parked"} => overran = FALSE
    /\ at = "rented" => due = NotHeld
    /\ at \in {"recorded", "delivered", "held"} => due \in {ready, NotHeld}
    /\ at = "held" => lease = ready

Kept ==
    /\ Counted
    /\ Leaving => asked \/ overran \/ Past

HoldInv == Typed /\ Found /\ Kept
\* Every step keeps the types.
LEMMA TypedStep ==
    ASSUME HoldInv, [Next]_vars
    PROVE  Typed'
<1> USE HoldAssumption DEF HoldInv
<1>w. {"timeout", "vanished", "cancelled"} \subseteq Words
  BY DEF Words
<1>1. CASE Tick
  BY <1>1 DEF Tick, hold, pass, registry, Typed
<1>2. CASE Draft
  BY <1>2 DEF Draft, To, pass, registry, Typed, Least
<1>3. CASE SetUp
  BY <1>3 DEF SetUp, To, pass, Idle, registry, Typed
<1>4. CASE RecordReady
  BY <1>4 DEF RecordReady, To, pass, registry, Typed, Least
<1>5. CASE DeliverPending
  BY <1>5 DEF DeliverPending, To, pass, Delivery, Typed
<1>6. CASE MoveLease
  BY <1>6 DEF MoveLease, To, pass, Relet, Typed
<1>7. CASE Abandon
  BY <1>7, <1>w DEF Abandon, To, pass, CancelRental, Book, registry, Typed
<1>8. CASE AbandonForgets
  BY <1>8 DEF AbandonForgets, To, pass, registry, Typed, NotHeld
<1>9. CASE Fails
  BY <1>9 DEF Fails, To, pass, Idle, registry, Typed
<1>10. CASE Dies
  BY <1>10 DEF Dies, To, pass, Idle, registry, Typed
<1>11. CASE AbandonRefused
  BY <1>11 DEF AbandonRefused, To, pass, RefuseRental, Delivery, Typed
<1>12. CASE SeeExpired
  BY <1>12 DEF SeeExpired, Pass, clock, hold, registry, Typed
<1>13. CASE NoteEvidence
  BY <1>13 DEF NoteEvidence, Pass, clock, hold, Delivery, Typed
<1>14. CASE CancelDue
  BY <1>14 DEF CancelDue, Pass, clock, hold, registry, Typed
<1>15. CASE CloseTimeout
  BY <1>15, <1>w DEF CloseTimeout, Pass, clock, hold, Resolve, Typed
<1>16. CASE CloseEvidence
  BY <1>16 DEF CloseEvidence, Pass, clock, hold, Delivery, Typed
<1>17. CASE CloseReport
  BY <1>17 DEF CloseReport, Pass, clock, hold, Report, Typed
<1>18. CASE CancelRefused
  BY <1>18 DEF CancelRefused, Pass, clock, hold, registry, Typed
<1>19. CASE PassDies
  BY <1>19 DEF PassDies, Pass, clock, hold, registry, Typed
<1>20. CASE TakenBack
  BY <1>20 DEF TakenBack, clock, hold, pass, registry, Typed
<1>21. CASE Settles
  BY <1>21, <1>w DEF Settles, clock, hold, pass, Book, Typed
<1>22. CASE \E e \in Enders : Release(e)
  BY <1>22 DEF Release, Ending, Keeper, clock, pass, registry, Typed
<1>23. CASE \E e \in Enders : EndCancels(e)
  BY <1>23, <1>w DEF EndCancels, Ending, Keeper, clock, pass, CancelRental,
     Book, registry, Typed
<1>24. CASE \E e \in Enders : EndForgets(e)
  BY <1>24 DEF EndForgets, Ending, Keeper, clock, pass, registry, Typed,
     NotHeld
<1>25. CASE \E e \in Enders : EndRefused(e)
  BY <1>25 DEF EndRefused, Ending, Keeper, clock, pass, RefuseRental,
     Delivery, Typed
<1>26. CASE UNCHANGED vars
  BY <1>26 DEF vars, registry, clock, hold, pass, Typed
<1> QED
  BY <1>1, <1>2, <1>3, <1>4, <1>5, <1>6, <1>7, <1>8, <1>9, <1>10, <1>11,
     <1>12, <1>13, <1>14, <1>15, <1>16, <1>17, <1>18, <1>19, <1>20, <1>21,
     <1>22, <1>23, <1>24, <1>25, <1>26 DEF Next, Keeps, Sweeps, Ends

\* Every step keeps the row open as long as the machine is up.
LEMMA FoundStep ==
    ASSUME HoldInv, [Next]_vars
    PROVE  Found'
<1> USE HoldAssumption DEF HoldInv
<1>1. CASE Tick
  BY <1>1 DEF Tick, hold, pass, registry, Typed, Found
<1>2. CASE Draft
  BY <1>2 DEF Draft, To, pass, registry, Typed, Found
<1>3. CASE SetUp
  BY <1>3 DEF SetUp, To, pass, Idle, registry, Typed, Found
<1>4. CASE RecordReady
  BY <1>4 DEF RecordReady, To, pass, registry, Typed, Found
<1>5. CASE DeliverPending
  BY <1>5 DEF DeliverPending, To, pass, Delivery, Typed, Found
<1>6. CASE MoveLease
  BY <1>6 DEF MoveLease, To, pass, Relet, Typed, Found
<1>7. CASE Abandon
  BY <1>7, SettledWords DEF Abandon, To, pass, CancelRental, Book, registry,
     Typed, Found, Closed, IsSettled
<1>8. CASE AbandonForgets
  BY <1>8 DEF AbandonForgets, To, pass, registry, Typed, Found
<1>9. CASE Fails
  BY <1>9 DEF Fails, To, pass, Idle, registry, Typed, Found
<1>10. CASE Dies
  BY <1>10 DEF Dies, To, pass, Idle, registry, Typed, Found
<1>11. CASE AbandonRefused
  BY <1>11 DEF AbandonRefused, To, pass, RefuseRental, Delivery, Typed, Found
<1>12. CASE SeeExpired
  BY <1>12 DEF SeeExpired, Pass, clock, hold, registry, Typed, Found
<1>13. CASE NoteEvidence
  BY <1>13 DEF NoteEvidence, Pass, clock, hold, Delivery, Typed, Found
<1>14. CASE CancelDue
  BY <1>14 DEF CancelDue, Pass, clock, hold, registry, Typed, Found
<1>15. CASE CloseTimeout
  BY <1>15 DEF CloseTimeout, Pass, clock, hold, Resolve, Typed, Found
<1>16. CASE CloseEvidence
  BY <1>16 DEF CloseEvidence, Pass, clock, hold, Delivery, Typed, Found
<1>17. CASE CloseReport
  BY <1>17 DEF CloseReport, Pass, clock, hold, Report, Typed, Found
<1>18. CASE CancelRefused
  BY <1>18 DEF CancelRefused, Pass, clock, hold, registry, Typed, Found
<1>19. CASE PassDies
  BY <1>19 DEF PassDies, Pass, clock, hold, registry, Typed, Found
<1>20. CASE TakenBack
  BY <1>20 DEF TakenBack, clock, hold, pass, registry, Typed, Found
<1>21. CASE Settles
  BY <1>21 DEF Settles, clock, hold, pass, Book, Typed, Found
<1>22. CASE \E e \in Enders : Release(e)
  BY <1>22 DEF Release, Ending, Keeper, clock, pass, registry, Typed, Found
<1>23. CASE \E e \in Enders : EndCancels(e)
  BY <1>23, SettledWords DEF EndCancels, Ending, Keeper, clock, pass,
     CancelRental, Book, registry, Typed, Found, Closed, IsSettled
<1>24. CASE \E e \in Enders : EndForgets(e)
  BY <1>24 DEF EndForgets, Ending, Keeper, clock, pass, registry, Typed, Found
<1>25. CASE \E e \in Enders : EndRefused(e)
  BY <1>25 DEF EndRefused, Ending, Keeper, clock, pass, RefuseRental,
     Delivery, Typed, Found
<1>26. CASE UNCHANGED vars
  BY <1>26 DEF vars, registry, clock, hold, pass, Typed, Found
<1> QED
  BY <1>1, <1>2, <1>3, <1>4, <1>5, <1>6, <1>7, <1>8, <1>9, <1>10, <1>11,
     <1>12, <1>13, <1>14, <1>15, <1>16, <1>17, <1>18, <1>19, <1>20, <1>21,
     <1>22, <1>23, <1>24, <1>25, <1>26 DEF Next, Keeps, Sweeps, Ends

\* Every step keeps the account of who may be ending the machine.
LEMMA KeptStep ==
    ASSUME HoldInv, [Next]_vars
    PROVE  Kept'
<1> USE HoldAssumption DEF HoldInv
<1>1. CASE Tick
  BY <1>1 DEF Tick, hold, pass, registry, Typed, Kept, Counted, Leaving, Past
<1>2. CASE Draft
  BY <1>2 DEF Draft, To, pass, registry, Typed, Kept, Counted, Leaving, Past
<1>3. CASE SetUp
  BY <1>3 DEF SetUp, To, pass, Idle, registry, Typed, Kept, Counted, Leaving,
     Past
<1>4. CASE RecordReady
  <2>1. Leaving' => Leaving
    BY <1>4 DEF RecordReady, To, pass, Leaving
  <2>2. Leaving => asked' \/ overran'
    BY <1>4 DEF RecordReady, To, pass, Typed, Kept, Counted, Past
  <2>3. Counted'
    BY <1>4 DEF RecordReady, To, Counted
  <2> QED BY <2>1, <2>2, <2>3 DEF Kept
<1>5. CASE DeliverPending
  BY <1>5 DEF DeliverPending, To, pass, Typed, Kept, Counted, Leaving, Past
<1>6. CASE MoveLease
  BY <1>6 DEF MoveLease, To, pass, Typed, Kept, Counted, Leaving, Past
<1>7. CASE Abandon
  BY <1>7 DEF Abandon, To, pass, CancelRental, registry, Typed, Kept, Counted,
     Leaving, Past
<1>8. CASE AbandonForgets
  BY <1>8 DEF AbandonForgets, To, pass, registry, Typed, Kept, Counted,
     Leaving, Past
<1>9. CASE Fails
  BY <1>9 DEF Fails, To, pass, Idle, registry, Typed, Kept, Counted, Leaving,
     Past
<1>10. CASE Dies
  BY <1>10 DEF Dies, To, pass, Idle, registry, Typed, Kept, Counted, Leaving,
     Past
<1>11. CASE AbandonRefused
  BY <1>11 DEF AbandonRefused, To, pass, RefuseRental, Typed, Kept, Counted,
     Leaving, Past
<1>12. CASE SeeExpired
  BY <1>12 DEF SeeExpired, Pass, clock, hold, registry, Typed, Kept, Counted,
     Leaving, Past
<1>13. CASE NoteEvidence
  BY <1>13 DEF NoteEvidence, Pass, clock, hold, Typed, Kept, Counted, Leaving,
     Past
<1>14. CASE CancelDue
  BY <1>14 DEF CancelDue, Pass, clock, hold, registry, Typed, Kept, Counted,
     Leaving, Past
<1>15. CASE CloseTimeout
  BY <1>15 DEF CloseTimeout, Pass, clock, hold, Typed, Kept, Counted, Leaving,
     Past
<1>16. CASE CloseEvidence
  BY <1>16 DEF CloseEvidence, Pass, clock, hold, Typed, Kept, Counted,
     Leaving, Past
<1>17. CASE CloseReport
  BY <1>17 DEF CloseReport, Pass, clock, hold, Typed, Kept, Counted, Leaving,
     Past
<1>18. CASE CancelRefused
  BY <1>18 DEF CancelRefused, Pass, clock, hold, registry, Typed, Kept,
     Counted, Leaving, Past
<1>19. CASE PassDies
  BY <1>19 DEF PassDies, Pass, clock, hold, registry, Typed, Kept, Counted,
     Leaving, Past
<1>20. CASE TakenBack
  BY <1>20 DEF TakenBack, clock, hold, pass, registry, Typed, Kept, Counted,
     Leaving, Past
<1>21. CASE Settles
  BY <1>21 DEF Settles, clock, hold, pass, Typed, Kept, Counted, Leaving, Past
<1>22. CASE \E e \in Enders : Release(e)
  BY <1>22, SettledWords DEF Release, Ending, Keeper, clock, pass, registry,
     Typed, Found, Kept, Counted, Leaving, Past, Expired, IsSettled
<1>23. CASE \E e \in Enders : EndCancels(e)
  BY <1>23 DEF EndCancels, Ending, Keeper, clock, pass, CancelRental,
     registry, Typed, Kept, Counted, Leaving, Past
<1>24. CASE \E e \in Enders : EndForgets(e)
  BY <1>24 DEF EndForgets, Ending, Keeper, clock, pass, registry, Typed, Kept,
     Counted, Leaving, Past
<1>25. CASE \E e \in Enders : EndRefused(e)
  BY <1>25 DEF EndRefused, Ending, Keeper, clock, pass, RefuseRental, Typed,
     Kept, Counted, Leaving, Past
<1>26. CASE UNCHANGED vars
  BY <1>26 DEF vars, registry, clock, hold, pass, Typed, Kept, Counted,
     Leaving, Past
<1> QED
  BY <1>1, <1>2, <1>3, <1>4, <1>5, <1>6, <1>7, <1>8, <1>9, <1>10, <1>11,
     <1>12, <1>13, <1>14, <1>15, <1>16, <1>17, <1>18, <1>19, <1>20, <1>21,
     <1>22, <1>23, <1>24, <1>25, <1>26 DEF Next, Keeps, Sweeps, Ends

\* The invariant is inductive.
LEMMA HoldInvariant == Spec => []HoldInv
<1>1. Init => HoldInv
  <2> SUFFICES ASSUME Init PROVE HoldInv
    OBVIOUS
  <2> USE HoldAssumption DEF Init
  <2>w. "queued" \in Words
    BY DEF Words
  <2>f. /\ verdict \in [Runs -> Words] /\ reported \in [Runs -> Words \cup {Nothing}]
        /\ leased \in [Runs -> BOOLEAN]
    BY <2>w
  <2>t. now \in Nat /\ lease \in Nat /\ due \in Nat /\ ready \in Nat
    BY DEF NotHeld
  <2>e. ending \in [Enders -> {"idle", "cancel", "forget"}]
    OBVIOUS
  <2>1. Typed
    BY <2>f, <2>t, <2>e, Zenon DEF Typed
  <2>2. Found
    BY DEF Found
  <2>3. Kept
    BY DEF Kept, Counted, Leaving
  <2> QED BY <2>1, <2>2, <2>3 DEF HoldInv
<1>2. HoldInv /\ [Next]_vars => HoldInv'
  BY TypedStep, FoundStep, KeptStep DEF HoldInv
<1> QED BY <1>1, <1>2, PTL DEF Spec

\* Whoever of the holder, the callers of release and expire, the deadline pass
\* and the settling pass fails or dies between two writes, a machine that is up
\* is on a row a sweep still lists, under a lease.
THEOREM HoldTracked == Spec => []UpIsTracked
<1>1. HoldInv => UpIsTracked
  BY HoldAssumption, SettledWords DEF HoldInv, Found, UpIsTracked, Tracked, Exists,
     Closed, IsSettled, NoRow
<1> QED BY <1>1, HoldInvariant, PTL

\* A hold handed back whose set-up did not overrun is kept until it is due,
\* whatever the lifetimes of the lease and the hold, though its lease moves in
\* two writes and the deadline pass and expire act on what they read before.
THEOREM HoldKept == Spec => []KeptUntilDue
<1>1. HoldInv => KeptUntilDue
  BY DEF HoldInv, Typed, Kept, Leaving, Past, KeptUntilDue
<1> QED BY <1>1, HoldInvariant, PTL
================================================================================
