------------------------------ MODULE OutboxProofs ------------------------------
(***************************************************************************)
(* What the outbox promises of a keep, for any number of keeps, calls,     *)
(* passes and readers, any of which may die at any step: one that a call   *)
(* answered for is never lost, and only what the upstream refused, or took *)
(* already, is set aside.                                                  *)
(***************************************************************************)
EXTENDS Outbox, TLAPS

\* The line of k was dealt with, by a receipt or by setting it aside.  Both
\* are for ever.
Gone(k) == receipt[k] \/ aside[k]

\* k is where a later pass or reader finds it.
Safe(k) == line[k] = "written" \/ Gone(k)

\* Where a call stands once its keep is on disk.
Spooled == {"drain", "list", "read", "judge", "ask", "waits"} \cup Delivering

(***************************************************************************)
(* What a call relies on: past the spool its keep is safe, and what it     *)
(* remembers of the receipt is true.                                       *)
(***************************************************************************)
CallInv ==
    \A p \in Keepers :
        /\ at[p] # "idle" => mine[p] \in Keys
        /\ known[p] => mine[p] \in Keys /\ receipt[mine[p]]
        /\ said[p] # None => mine[p] \in Keys /\ Safe(mine[p])
        /\ at[p] \in Spooled => Safe(mine[p])

(***************************************************************************)
(* What a writer relies on: it holds the lock of the line its path leads   *)
(* to, and has copied the file before it writes, unless the line was dealt *)
(* with and removed under it.                                              *)
(***************************************************************************)
WriterInv ==
    \A p \in Keepers : at[p] \in Writing =>
        \/ Gone(mine[p])
        \/ /\ writer[mine[p]] = p
           /\ line[mine[p]] \in {"empty", "written"}
           /\ at[p] # "look" => line[mine[p]] = "empty"
           /\ at[p] = "write" => HasCopy(mine[p])

\* A written line has its copy, until it is dealt with.
CopyInv == \A k \in Keys : line[k] = "written" => HasCopy(k) \/ Gone(k)

(***************************************************************************)
(* What a pass relies on: what it read was written, what it refuses was    *)
(* refused, and it removes only what has its receipt.                      *)
(***************************************************************************)
PassInv ==
    \A p \in Procs :
        /\ at[p] \in Writing => p \in Keepers
        /\ at[p] \in Delivering => p \notin Readers
        /\ at[p] \in Delivering \cup {"judge"} => cur[p] \in Keys
        /\ at[p] = "judge" => Safe(cur[p])
        /\ at[p] = "refuse" => denied[cur[p]]
        /\ at[p] \in {"unline", "unblob"} => receipt[cur[p]]

OutboxInv ==
    TypeOK /\ CallInv /\ WriterInv /\ CopyInv /\ PassInv /\ SetAsideIsRefused

\* Every step keeps the state well formed, the delivery lock with the one pass
\* that delivers and a line's with a writer at work on it.
LEMMA OutboxTyped ==
    ASSUME OutboxInv, Next
    PROVE  TypeOK'
<1> DEFINE Goal == TypeOK'
<1> SUFFICES Goal  OBVIOUS
<1> USE OutboxAssumption
        DEF OutboxInv, CallInv, PassInv, TypeOK, Procs, Writing, Delivering, HasCopy,
            spool, calls, scans
<1>1. ASSUME NEW p \in Keepers, NEW k \in Keys, Keep(p, k)  PROVE Goal
  BY <1>1 DEF Keep, Go
<1>2. ASSUME NEW p \in Keepers, Append(p)  PROVE Goal
  BY <1>2 DEF Append, Go
<1>3. ASSUME NEW p \in Keepers, Open(p)  PROVE Goal
  BY <1>3 DEF Open, Go
<1>4. ASSUME NEW p \in Keepers, OpenRefused(p)  PROVE Goal
  BY <1>4 DEF OpenRefused, Go
<1>5. ASSUME NEW p \in Keepers, Look(p)  PROVE Goal
  BY <1>5 DEF Look, Go, Close
<1>6. ASSUME NEW p \in Keepers, Copy(p)  PROVE Goal
  BY <1>6 DEF Copy, Go
<1>7. ASSUME NEW p \in Keepers, Write(p)  PROVE Goal
  BY <1>7 DEF Write, Go, Close
<1>8. ASSUME NEW p \in Keepers, CopyChanged(p)  PROVE Goal
  BY <1>8 DEF CopyChanged, Go, Close
<1>9. ASSUME NEW p \in Keepers, Ask(p)  PROVE Goal
  BY <1>9 DEF Ask, Go
<1>10. ASSUME NEW p \in Keepers, Waits(p)  PROVE Goal
  BY <1>10 DEF Waits, Go
<1>11. ASSUME NEW p \in Procs, Wait(p)  PROVE Goal
  BY <1>11 DEF Wait, Go
<1>12. ASSUME NEW p \in Procs, List(p)  PROVE Goal
  BY <1>12 DEF List, Go
<1>13. ASSUME NEW p \in Procs, NEW k \in Keys, Read(p, k)  PROVE Goal
  BY <1>13 DEF Read, Go
<1>14. ASSUME NEW p \in Procs, Judge(p)  PROVE Goal
  <2>1. CASE HasCopy(cur[p])  BY <1>14, <2>1 DEF Judge, Go
  <2>2. CASE ~HasCopy(cur[p])
    <3>1. /\ at[p] = "judge" /\ at' = [at EXCEPT ![p] = "read"]
          /\ SetAside(cur[p]) /\ UNCHANGED <<blob, found>>
          /\ cur' = [cur EXCEPT ![p] = None]
          /\ UNCHANGED <<receipt, sent, denied, lock, calls, left>>
      BY <1>14, <2>2 DEF Judge, Go
    <3>2. aside' \in [Keys -> BOOLEAN]
      <4>1. aside \in [Keys -> BOOLEAN] /\ cur[p] \in Keys  BY <3>1
      <4> QED  BY <3>1, <4>1 DEF SetAside
    <3>3. line' \in [Keys -> {"none", "empty", "torn", "written"}]
          /\ writer' \in [Keys -> Keepers \cup {None}]
      BY <3>1 DEF SetAside
    <3>4. \A k \in Keys : writer'[k] # None =>
              line'[k] # "none" /\ at'[writer'[k]] \in Writing /\ mine'[writer'[k]] = k
      BY <3>1 DEF SetAside
    <3>5. \A q \in Procs : (lock' = q) <=>
              at'[q] \in Delivering \/ (q \notin Readers /\ at'[q] \in {"list", "read", "judge"})
      BY <3>1
    <3> QED  BY <3>1, <3>2, <3>3, <3>4, <3>5
  <2> QED  BY <2>1, <2>2
<1>15. ASSUME NEW p \in Procs, JudgeRaises(p)  PROVE Goal
  BY <1>15 DEF JudgeRaises, Stop, Close
<1>16. ASSUME NEW p \in Procs, Drained(p)  PROVE Goal
  BY <1>16 DEF Drained, After
<1>17. ASSUME NEW p \in Procs, Drain(p)  PROVE Goal
  BY <1>17 DEF Drain, Go
<1>18. ASSUME NEW p \in Procs, DrainBusy(p)  PROVE Goal
  BY <1>18 DEF DrainBusy, Go
<1>19. ASSUME NEW p \in Procs, NEW k \in Keys, Send(p, k)  PROVE Goal
  BY <1>19 DEF Send, Go
<1>20. ASSUME NEW p \in Procs, UploadRaises(p)  PROVE Goal
  BY <1>20 DEF UploadRaises, Stop, Close
<1>21. ASSUME NEW p \in Procs, Receipted(p)  PROVE Goal
  BY <1>21 DEF Receipted, Go
<1>22. ASSUME NEW p \in Procs, DropLine(p)  PROVE Goal
  BY <1>22 DEF DropLine, Go
<1>23. ASSUME NEW p \in Procs, DropBlob(p)  PROVE Goal
  BY <1>23 DEF DropBlob, Go
<1>24. ASSUME NEW p \in Procs, Refuse(p)  PROVE Goal
  BY <1>24 DEF Refuse, Go, SetAside
<1>25. ASSUME NEW p \in Procs, RefuseRaises(p)  PROVE Goal
  BY <1>25 DEF RefuseRaises, Stop, Close
<1>26. ASSUME NEW p \in Procs, Taken(p)  PROVE Goal
  BY <1>26 DEF Taken, Go, Arrives
<1>27. ASSUME NEW p \in Procs, Denied(p)  PROVE Goal
  BY <1>27 DEF Denied, Go
<1>28. ASSUME NEW p \in Procs, Unreachable(p)  PROVE Goal
  BY <1>28 DEF Unreachable, StopDraining, Arrives, After
<1>29. ASSUME NEW p \in Mortal, at[p] # "idle", Die(p)  PROVE Goal
  BY <1>29 DEF Die, Stop, Close
<1> HIDE DEF Goal
<1> QED
  BY <1>1, <1>2, <1>3, <1>4, <1>5, <1>6, <1>7, <1>8, <1>9, <1>10, <1>11,
     <1>12, <1>13, <1>14, <1>15, <1>16, <1>17, <1>18, <1>19, <1>20, <1>21,
     <1>22, <1>23, <1>24, <1>25, <1>26, <1>27, <1>28, <1>29
     DEF Next, Writes, Reads, Delivers, Hears, Answers

\* Nothing that was dealt with is ever undone, and no keep stops being safe.
Lasting(k) ==
    /\ receipt[k] => receipt'[k]
    /\ aside[k] => aside'[k]
    /\ denied[k] => denied'[k]
    /\ Safe(k) => Safe(k)'

\* A keep that is safe stays so: a line goes only with its receipt, or aside.
LEMMA OutboxLasts ==
    ASSUME OutboxInv, Next
    PROVE  \A key \in Keys : Lasting(key)
<1> DEFINE Goal == \A key \in Keys : Lasting(key)
<1> SUFFICES Goal  OBVIOUS
<1> USE OutboxAssumption
        DEF OutboxInv, TypeOK, CallInv, WriterInv, PassInv, Lasting, Procs, Writing, Delivering,
            HasCopy, Gone, Safe, spool, calls, scans
<1>1. ASSUME NEW p \in Keepers, NEW k \in Keys, Keep(p, k)  PROVE Goal
  BY <1>1 DEF Keep, Go
<1>2. ASSUME NEW p \in Keepers, Append(p)  PROVE Goal
  BY <1>2 DEF Append, Go
<1>3. ASSUME NEW p \in Keepers, Open(p)  PROVE Goal
  BY <1>3 DEF Open, Go
<1>4. ASSUME NEW p \in Keepers, OpenRefused(p)  PROVE Goal
  BY <1>4 DEF OpenRefused, Go
<1>5. ASSUME NEW p \in Keepers, Look(p)  PROVE Goal
  BY <1>5 DEF Look, Go, Close
<1>6. ASSUME NEW p \in Keepers, Copy(p)  PROVE Goal
  BY <1>6 DEF Copy, Go
<1>7. ASSUME NEW p \in Keepers, Write(p)  PROVE Goal
  BY <1>7 DEF Write, Go, Close
<1>8. ASSUME NEW p \in Keepers, CopyChanged(p)  PROVE Goal
  BY <1>8 DEF CopyChanged, Go, Close
<1>9. ASSUME NEW p \in Keepers, Ask(p)  PROVE Goal
  BY <1>9 DEF Ask, Go
<1>10. ASSUME NEW p \in Keepers, Waits(p)  PROVE Goal
  BY <1>10 DEF Waits, Go
<1>11. ASSUME NEW p \in Procs, Wait(p)  PROVE Goal
  BY <1>11 DEF Wait, Go
<1>12. ASSUME NEW p \in Procs, List(p)  PROVE Goal
  BY <1>12 DEF List, Go
<1>13. ASSUME NEW p \in Procs, NEW k \in Keys, Read(p, k)  PROVE Goal
  BY <1>13 DEF Read, Go
<1>14. ASSUME NEW p \in Procs, Judge(p)  PROVE Goal
  <2>1. CASE HasCopy(cur[p])  BY <1>14, <2>1 DEF Judge, Go
  <2>2. CASE ~HasCopy(cur[p])  BY <1>14, <2>2 DEF Judge, Go, SetAside
  <2> QED  BY <2>1, <2>2
<1>15. ASSUME NEW p \in Procs, JudgeRaises(p)  PROVE Goal
  BY <1>15 DEF JudgeRaises, Stop, Close
<1>16. ASSUME NEW p \in Procs, Drained(p)  PROVE Goal
  BY <1>16 DEF Drained, After
<1>17. ASSUME NEW p \in Procs, Drain(p)  PROVE Goal
  BY <1>17 DEF Drain, Go
<1>18. ASSUME NEW p \in Procs, DrainBusy(p)  PROVE Goal
  BY <1>18 DEF DrainBusy, Go
<1>19. ASSUME NEW p \in Procs, NEW k \in Keys, Send(p, k)  PROVE Goal
  BY <1>19 DEF Send, Go
<1>20. ASSUME NEW p \in Procs, UploadRaises(p)  PROVE Goal
  BY <1>20 DEF UploadRaises, Stop, Close
<1>21. ASSUME NEW p \in Procs, Receipted(p)  PROVE Goal
  BY <1>21 DEF Receipted, Go
<1>22. ASSUME NEW p \in Procs, DropLine(p)  PROVE Goal
  BY <1>22 DEF DropLine, Go
<1>23. ASSUME NEW p \in Procs, DropBlob(p)  PROVE Goal
  BY <1>23 DEF DropBlob, Go
<1>24. ASSUME NEW p \in Procs, Refuse(p)  PROVE Goal
  BY <1>24 DEF Refuse, Go, SetAside
<1>25. ASSUME NEW p \in Procs, RefuseRaises(p)  PROVE Goal
  BY <1>25 DEF RefuseRaises, Stop, Close
<1>26. ASSUME NEW p \in Procs, Taken(p)  PROVE Goal
  BY <1>26 DEF Taken, Go, Arrives
<1>27. ASSUME NEW p \in Procs, Denied(p)  PROVE Goal
  BY <1>27 DEF Denied, Go
<1>28. ASSUME NEW p \in Procs, Unreachable(p)  PROVE Goal
  BY <1>28 DEF Unreachable, StopDraining, Arrives, After
<1>29. ASSUME NEW p \in Mortal, at[p] # "idle", Die(p)  PROVE Goal
  BY <1>29 DEF Die, Stop, Close
<1> HIDE DEF Goal
<1> QED
  BY <1>1, <1>2, <1>3, <1>4, <1>5, <1>6, <1>7, <1>8, <1>9, <1>10, <1>11,
     <1>12, <1>13, <1>14, <1>15, <1>16, <1>17, <1>18, <1>19, <1>20, <1>21,
     <1>22, <1>23, <1>24, <1>25, <1>26, <1>27, <1>28, <1>29
     DEF Next, Writes, Reads, Delivers, Hears, Answers

\* What is set aside was refused or has its receipt: a reader that finds no
\* copy beside a line it read finds a line that was dealt with.
LEMMA SetAsideStep ==
    ASSUME OutboxInv, Next
    PROVE  SetAsideIsRefused'
<1> DEFINE Goal == SetAsideIsRefused'
<1> SUFFICES Goal  OBVIOUS
<1> USE OutboxAssumption
        DEF OutboxInv, TypeOK, PassInv, CopyInv, SetAsideIsRefused, Procs, Writing, Delivering,
            HasCopy, Gone, Safe, spool, calls, scans
<1>1. ASSUME NEW p \in Keepers, NEW k \in Keys, Keep(p, k)  PROVE Goal
  BY <1>1 DEF Keep, Go
<1>2. ASSUME NEW p \in Keepers, Append(p)  PROVE Goal
  BY <1>2 DEF Append, Go
<1>3. ASSUME NEW p \in Keepers, Open(p)  PROVE Goal
  BY <1>3 DEF Open, Go
<1>4. ASSUME NEW p \in Keepers, OpenRefused(p)  PROVE Goal
  BY <1>4 DEF OpenRefused, Go
<1>5. ASSUME NEW p \in Keepers, Look(p)  PROVE Goal
  BY <1>5 DEF Look, Go, Close
<1>6. ASSUME NEW p \in Keepers, Copy(p)  PROVE Goal
  BY <1>6 DEF Copy, Go
<1>7. ASSUME NEW p \in Keepers, Write(p)  PROVE Goal
  BY <1>7 DEF Write, Go, Close
<1>8. ASSUME NEW p \in Keepers, CopyChanged(p)  PROVE Goal
  BY <1>8 DEF CopyChanged, Go, Close
<1>9. ASSUME NEW p \in Keepers, Ask(p)  PROVE Goal
  BY <1>9 DEF Ask, Go
<1>10. ASSUME NEW p \in Keepers, Waits(p)  PROVE Goal
  BY <1>10 DEF Waits, Go
<1>11. ASSUME NEW p \in Procs, Wait(p)  PROVE Goal
  BY <1>11 DEF Wait, Go
<1>12. ASSUME NEW p \in Procs, List(p)  PROVE Goal
  BY <1>12 DEF List, Go
<1>13. ASSUME NEW p \in Procs, NEW k \in Keys, Read(p, k)  PROVE Goal
  BY <1>13 DEF Read, Go
<1>14. ASSUME NEW p \in Procs, Judge(p)  PROVE Goal
  <2>1. CASE HasCopy(cur[p])  BY <1>14, <2>1 DEF Judge, Go
  <2>2. CASE ~HasCopy(cur[p])  BY <1>14, <2>2 DEF Judge, Go, SetAside
  <2> QED  BY <2>1, <2>2
<1>15. ASSUME NEW p \in Procs, JudgeRaises(p)  PROVE Goal
  BY <1>15 DEF JudgeRaises, Stop, Close
<1>16. ASSUME NEW p \in Procs, Drained(p)  PROVE Goal
  BY <1>16 DEF Drained, After
<1>17. ASSUME NEW p \in Procs, Drain(p)  PROVE Goal
  BY <1>17 DEF Drain, Go
<1>18. ASSUME NEW p \in Procs, DrainBusy(p)  PROVE Goal
  BY <1>18 DEF DrainBusy, Go
<1>19. ASSUME NEW p \in Procs, NEW k \in Keys, Send(p, k)  PROVE Goal
  BY <1>19 DEF Send, Go
<1>20. ASSUME NEW p \in Procs, UploadRaises(p)  PROVE Goal
  BY <1>20 DEF UploadRaises, Stop, Close
<1>21. ASSUME NEW p \in Procs, Receipted(p)  PROVE Goal
  BY <1>21 DEF Receipted, Go
<1>22. ASSUME NEW p \in Procs, DropLine(p)  PROVE Goal
  BY <1>22 DEF DropLine, Go
<1>23. ASSUME NEW p \in Procs, DropBlob(p)  PROVE Goal
  BY <1>23 DEF DropBlob, Go
<1>24. ASSUME NEW p \in Procs, Refuse(p)  PROVE Goal
  BY <1>24 DEF Refuse, Go, SetAside
<1>25. ASSUME NEW p \in Procs, RefuseRaises(p)  PROVE Goal
  BY <1>25 DEF RefuseRaises, Stop, Close
<1>26. ASSUME NEW p \in Procs, Taken(p)  PROVE Goal
  BY <1>26 DEF Taken, Go, Arrives
<1>27. ASSUME NEW p \in Procs, Denied(p)  PROVE Goal
  BY <1>27 DEF Denied, Go
<1>28. ASSUME NEW p \in Procs, Unreachable(p)  PROVE Goal
  BY <1>28 DEF Unreachable, StopDraining, Arrives, After
<1>29. ASSUME NEW p \in Mortal, at[p] # "idle", Die(p)  PROVE Goal
  BY <1>29 DEF Die, Stop, Close
<1> HIDE DEF Goal
<1> QED
  BY <1>1, <1>2, <1>3, <1>4, <1>5, <1>6, <1>7, <1>8, <1>9, <1>10, <1>11,
     <1>12, <1>13, <1>14, <1>15, <1>16, <1>17, <1>18, <1>19, <1>20, <1>21,
     <1>22, <1>23, <1>24, <1>25, <1>26, <1>27, <1>28, <1>29
     DEF Next, Writes, Reads, Delivers, Hears, Answers

\* A written line keeps its copy until it is dealt with.
LEMMA CopyStep ==
    ASSUME OutboxInv, Next
    PROVE  CopyInv'
<1> DEFINE Goal == CopyInv'
<1> SUFFICES Goal  OBVIOUS
<1> USE OutboxAssumption
        DEF OutboxInv, TypeOK, CallInv, WriterInv, PassInv, CopyInv, Procs, Writing, Delivering,
            HasCopy, Gone, Safe, spool, calls, scans
<1>1. ASSUME NEW p \in Keepers, NEW k \in Keys, Keep(p, k)  PROVE Goal
  BY <1>1 DEF Keep, Go
<1>2. ASSUME NEW p \in Keepers, Append(p)  PROVE Goal
  BY <1>2 DEF Append, Go
<1>3. ASSUME NEW p \in Keepers, Open(p)  PROVE Goal
  BY <1>3 DEF Open, Go
<1>4. ASSUME NEW p \in Keepers, OpenRefused(p)  PROVE Goal
  BY <1>4 DEF OpenRefused, Go
<1>5. ASSUME NEW p \in Keepers, Look(p)  PROVE Goal
  BY <1>5 DEF Look, Go, Close
<1>6. ASSUME NEW p \in Keepers, Copy(p)  PROVE Goal
  BY <1>6 DEF Copy, Go
<1>7. ASSUME NEW p \in Keepers, Write(p)  PROVE Goal
  BY <1>7 DEF Write, Go, Close
<1>8. ASSUME NEW p \in Keepers, CopyChanged(p)  PROVE Goal
  BY <1>8 DEF CopyChanged, Go, Close
<1>9. ASSUME NEW p \in Keepers, Ask(p)  PROVE Goal
  BY <1>9 DEF Ask, Go
<1>10. ASSUME NEW p \in Keepers, Waits(p)  PROVE Goal
  BY <1>10 DEF Waits, Go
<1>11. ASSUME NEW p \in Procs, Wait(p)  PROVE Goal
  BY <1>11 DEF Wait, Go
<1>12. ASSUME NEW p \in Procs, List(p)  PROVE Goal
  BY <1>12 DEF List, Go
<1>13. ASSUME NEW p \in Procs, NEW k \in Keys, Read(p, k)  PROVE Goal
  BY <1>13 DEF Read, Go
<1>14. ASSUME NEW p \in Procs, Judge(p)  PROVE Goal
  <2>1. CASE HasCopy(cur[p])  BY <1>14, <2>1 DEF Judge, Go
  <2>2. CASE ~HasCopy(cur[p])  BY <1>14, <2>2 DEF Judge, Go, SetAside
  <2> QED  BY <2>1, <2>2
<1>15. ASSUME NEW p \in Procs, JudgeRaises(p)  PROVE Goal
  BY <1>15 DEF JudgeRaises, Stop, Close
<1>16. ASSUME NEW p \in Procs, Drained(p)  PROVE Goal
  BY <1>16 DEF Drained, After
<1>17. ASSUME NEW p \in Procs, Drain(p)  PROVE Goal
  BY <1>17 DEF Drain, Go
<1>18. ASSUME NEW p \in Procs, DrainBusy(p)  PROVE Goal
  BY <1>18 DEF DrainBusy, Go
<1>19. ASSUME NEW p \in Procs, NEW k \in Keys, Send(p, k)  PROVE Goal
  BY <1>19 DEF Send, Go
<1>20. ASSUME NEW p \in Procs, UploadRaises(p)  PROVE Goal
  BY <1>20 DEF UploadRaises, Stop, Close
<1>21. ASSUME NEW p \in Procs, Receipted(p)  PROVE Goal
  BY <1>21 DEF Receipted, Go
<1>22. ASSUME NEW p \in Procs, DropLine(p)  PROVE Goal
  BY <1>22 DEF DropLine, Go
<1>23. ASSUME NEW p \in Procs, DropBlob(p)  PROVE Goal
  BY <1>23 DEF DropBlob, Go
<1>24. ASSUME NEW p \in Procs, Refuse(p)  PROVE Goal
  BY <1>24 DEF Refuse, Go, SetAside
<1>25. ASSUME NEW p \in Procs, RefuseRaises(p)  PROVE Goal
  BY <1>25 DEF RefuseRaises, Stop, Close
<1>26. ASSUME NEW p \in Procs, Taken(p)  PROVE Goal
  BY <1>26 DEF Taken, Go, Arrives
<1>27. ASSUME NEW p \in Procs, Denied(p)  PROVE Goal
  BY <1>27 DEF Denied, Go
<1>28. ASSUME NEW p \in Procs, Unreachable(p)  PROVE Goal
  BY <1>28 DEF Unreachable, StopDraining, Arrives, After
<1>29. ASSUME NEW p \in Mortal, at[p] # "idle", Die(p)  PROVE Goal
  BY <1>29 DEF Die, Stop, Close
<1> HIDE DEF Goal
<1> QED
  BY <1>1, <1>2, <1>3, <1>4, <1>5, <1>6, <1>7, <1>8, <1>9, <1>10, <1>11,
     <1>12, <1>13, <1>14, <1>15, <1>16, <1>17, <1>18, <1>19, <1>20, <1>21,
     <1>22, <1>23, <1>24, <1>25, <1>26, <1>27, <1>28, <1>29
     DEF Next, Writes, Reads, Delivers, Hears, Answers

\* What a call relies on stays true.
LEMMA CallStep ==
    ASSUME OutboxInv, Next
    PROVE  CallInv'
<1> DEFINE Goal == CallInv'
<1> SUFFICES Goal  OBVIOUS
<1> USE OutboxAssumption
        DEF OutboxInv, TypeOK, CallInv, WriterInv, PassInv, Spooled, Procs, Writing, Delivering,
            HasCopy, Gone, Safe, spool, calls, scans
<1>1. ASSUME NEW p \in Keepers, NEW k \in Keys, Keep(p, k)  PROVE Goal
  BY <1>1 DEF Keep, Go
<1>2. ASSUME NEW p \in Keepers, Append(p)  PROVE Goal
  BY <1>2 DEF Append, Go
<1>3. ASSUME NEW p \in Keepers, Open(p)  PROVE Goal
  BY <1>3 DEF Open, Go
<1>4. ASSUME NEW p \in Keepers, OpenRefused(p)  PROVE Goal
  BY <1>4 DEF OpenRefused, Go
<1>5. ASSUME NEW p \in Keepers, Look(p)  PROVE Goal
  BY <1>5 DEF Look, Go, Close
<1>6. ASSUME NEW p \in Keepers, Copy(p)  PROVE Goal
  BY <1>6 DEF Copy, Go
<1>7. ASSUME NEW p \in Keepers, Write(p)  PROVE Goal
  BY <1>7 DEF Write, Go, Close
<1>8. ASSUME NEW p \in Keepers, CopyChanged(p)  PROVE Goal
  BY <1>8 DEF CopyChanged, Go, Close
<1>9. ASSUME NEW p \in Keepers, Ask(p)  PROVE Goal
  BY <1>9 DEF Ask, Go
<1>10. ASSUME NEW p \in Keepers, Waits(p)  PROVE Goal
  BY <1>10 DEF Waits, Go
<1>11. ASSUME NEW p \in Procs, Wait(p)  PROVE Goal
  BY <1>11 DEF Wait, Go
<1>12. ASSUME NEW p \in Procs, List(p)  PROVE Goal
  BY <1>12 DEF List, Go
<1>13. ASSUME NEW p \in Procs, NEW k \in Keys, Read(p, k)  PROVE Goal
  BY <1>13 DEF Read, Go
<1>14. ASSUME NEW p \in Procs, Judge(p)  PROVE Goal
  <2>1. CASE HasCopy(cur[p])  BY <1>14, <2>1 DEF Judge, Go
  <2>2. CASE ~HasCopy(cur[p])  BY <1>14, <2>2 DEF Judge, Go, SetAside
  <2> QED  BY <2>1, <2>2
<1>15. ASSUME NEW p \in Procs, JudgeRaises(p)  PROVE Goal
  BY <1>15 DEF JudgeRaises, Stop, Close
<1>16. ASSUME NEW p \in Procs, Drained(p)  PROVE Goal
  BY <1>16 DEF Drained, After
<1>17. ASSUME NEW p \in Procs, Drain(p)  PROVE Goal
  BY <1>17 DEF Drain, Go
<1>18. ASSUME NEW p \in Procs, DrainBusy(p)  PROVE Goal
  BY <1>18 DEF DrainBusy, Go
<1>19. ASSUME NEW p \in Procs, NEW k \in Keys, Send(p, k)  PROVE Goal
  BY <1>19 DEF Send, Go
<1>20. ASSUME NEW p \in Procs, UploadRaises(p)  PROVE Goal
  BY <1>20 DEF UploadRaises, Stop, Close
<1>21. ASSUME NEW p \in Procs, Receipted(p)  PROVE Goal
  BY <1>21 DEF Receipted, Go
<1>22. ASSUME NEW p \in Procs, DropLine(p)  PROVE Goal
  BY <1>22 DEF DropLine, Go
<1>23. ASSUME NEW p \in Procs, DropBlob(p)  PROVE Goal
  BY <1>23 DEF DropBlob, Go
<1>24. ASSUME NEW p \in Procs, Refuse(p)  PROVE Goal
  BY <1>24 DEF Refuse, Go, SetAside
<1>25. ASSUME NEW p \in Procs, RefuseRaises(p)  PROVE Goal
  BY <1>25 DEF RefuseRaises, Stop, Close
<1>26. ASSUME NEW p \in Procs, Taken(p)  PROVE Goal
  BY <1>26 DEF Taken, Go, Arrives
<1>27. ASSUME NEW p \in Procs, Denied(p)  PROVE Goal
  BY <1>27 DEF Denied, Go
<1>28. ASSUME NEW p \in Procs, Unreachable(p)  PROVE Goal
  BY <1>28 DEF Unreachable, StopDraining, Arrives, After
<1>29. ASSUME NEW p \in Mortal, at[p] # "idle", Die(p)  PROVE Goal
  BY <1>29 DEF Die, Stop, Close
<1> HIDE DEF Goal
<1> QED
  BY <1>1, <1>2, <1>3, <1>4, <1>5, <1>6, <1>7, <1>8, <1>9, <1>10, <1>11,
     <1>12, <1>13, <1>14, <1>15, <1>16, <1>17, <1>18, <1>19, <1>20, <1>21,
     <1>22, <1>23, <1>24, <1>25, <1>26, <1>27, <1>28, <1>29
     DEF Next, Writes, Reads, Delivers, Hears, Answers

\* What a writer relies on stays true, whoever deals with its line meanwhile.
LEMMA WriterStep ==
    ASSUME OutboxInv, Next
    PROVE  WriterInv'
<1> DEFINE Goal == WriterInv'
<1> SUFFICES Goal  OBVIOUS
<1> USE OutboxAssumption
        DEF OutboxInv, TypeOK, CallInv, WriterInv, PassInv, Procs, Writing, Delivering,
            HasCopy, Gone, Safe, spool, calls, scans
<1>1. ASSUME NEW p \in Keepers, NEW k \in Keys, Keep(p, k)  PROVE Goal
  BY <1>1 DEF Keep, Go
<1>2. ASSUME NEW p \in Keepers, Append(p)  PROVE Goal
  BY <1>2 DEF Append, Go
<1>3. ASSUME NEW p \in Keepers, Open(p)  PROVE Goal
  BY <1>3 DEF Open, Go
<1>4. ASSUME NEW p \in Keepers, OpenRefused(p)  PROVE Goal
  BY <1>4 DEF OpenRefused, Go
<1>5. ASSUME NEW p \in Keepers, Look(p)  PROVE Goal
  BY <1>5 DEF Look, Go, Close
<1>6. ASSUME NEW p \in Keepers, Copy(p)  PROVE Goal
  BY <1>6 DEF Copy, Go
<1>7. ASSUME NEW p \in Keepers, Write(p)  PROVE Goal
  BY <1>7 DEF Write, Go, Close
<1>8. ASSUME NEW p \in Keepers, CopyChanged(p)  PROVE Goal
  BY <1>8 DEF CopyChanged, Go, Close
<1>9. ASSUME NEW p \in Keepers, Ask(p)  PROVE Goal
  BY <1>9 DEF Ask, Go
<1>10. ASSUME NEW p \in Keepers, Waits(p)  PROVE Goal
  BY <1>10 DEF Waits, Go
<1>11. ASSUME NEW p \in Procs, Wait(p)  PROVE Goal
  BY <1>11 DEF Wait, Go
<1>12. ASSUME NEW p \in Procs, List(p)  PROVE Goal
  BY <1>12 DEF List, Go
<1>13. ASSUME NEW p \in Procs, NEW k \in Keys, Read(p, k)  PROVE Goal
  BY <1>13 DEF Read, Go
<1>14. ASSUME NEW p \in Procs, Judge(p)  PROVE Goal
  <2>1. CASE HasCopy(cur[p])  BY <1>14, <2>1 DEF Judge, Go
  <2>2. CASE ~HasCopy(cur[p])  BY <1>14, <2>2 DEF Judge, Go, SetAside
  <2> QED  BY <2>1, <2>2
<1>15. ASSUME NEW p \in Procs, JudgeRaises(p)  PROVE Goal
  BY <1>15 DEF JudgeRaises, Stop, Close
<1>16. ASSUME NEW p \in Procs, Drained(p)  PROVE Goal
  BY <1>16 DEF Drained, After
<1>17. ASSUME NEW p \in Procs, Drain(p)  PROVE Goal
  BY <1>17 DEF Drain, Go
<1>18. ASSUME NEW p \in Procs, DrainBusy(p)  PROVE Goal
  BY <1>18 DEF DrainBusy, Go
<1>19. ASSUME NEW p \in Procs, NEW k \in Keys, Send(p, k)  PROVE Goal
  BY <1>19 DEF Send, Go
<1>20. ASSUME NEW p \in Procs, UploadRaises(p)  PROVE Goal
  BY <1>20 DEF UploadRaises, Stop, Close
<1>21. ASSUME NEW p \in Procs, Receipted(p)  PROVE Goal
  BY <1>21 DEF Receipted, Go
<1>22. ASSUME NEW p \in Procs, DropLine(p)  PROVE Goal
  BY <1>22 DEF DropLine, Go
<1>23. ASSUME NEW p \in Procs, DropBlob(p)  PROVE Goal
  BY <1>23 DEF DropBlob, Go
<1>24. ASSUME NEW p \in Procs, Refuse(p)  PROVE Goal
  BY <1>24 DEF Refuse, Go, SetAside
<1>25. ASSUME NEW p \in Procs, RefuseRaises(p)  PROVE Goal
  BY <1>25 DEF RefuseRaises, Stop, Close
<1>26. ASSUME NEW p \in Procs, Taken(p)  PROVE Goal
  BY <1>26 DEF Taken, Go, Arrives
<1>27. ASSUME NEW p \in Procs, Denied(p)  PROVE Goal
  BY <1>27 DEF Denied, Go
<1>28. ASSUME NEW p \in Procs, Unreachable(p)  PROVE Goal
  BY <1>28 DEF Unreachable, StopDraining, Arrives, After
<1>29. ASSUME NEW p \in Mortal, at[p] # "idle", Die(p)  PROVE Goal
  BY <1>29 DEF Die, Stop, Close
<1> HIDE DEF Goal
<1> QED
  BY <1>1, <1>2, <1>3, <1>4, <1>5, <1>6, <1>7, <1>8, <1>9, <1>10, <1>11,
     <1>12, <1>13, <1>14, <1>15, <1>16, <1>17, <1>18, <1>19, <1>20, <1>21,
     <1>22, <1>23, <1>24, <1>25, <1>26, <1>27, <1>28, <1>29
     DEF Next, Writes, Reads, Delivers, Hears, Answers

\* What a pass relies on stays true.
LEMMA PassStep ==
    ASSUME OutboxInv, Next
    PROVE  PassInv'
<1> DEFINE Goal == PassInv'
<1> SUFFICES Goal  OBVIOUS
<1> USE OutboxAssumption
        DEF OutboxInv, TypeOK, CallInv, WriterInv, PassInv, Procs, Writing, Delivering,
            HasCopy, Gone, Safe, spool, calls, scans
<1>1. ASSUME NEW p \in Keepers, NEW k \in Keys, Keep(p, k)  PROVE Goal
  BY <1>1 DEF Keep, Go
<1>2. ASSUME NEW p \in Keepers, Append(p)  PROVE Goal
  BY <1>2 DEF Append, Go
<1>3. ASSUME NEW p \in Keepers, Open(p)  PROVE Goal
  BY <1>3 DEF Open, Go
<1>4. ASSUME NEW p \in Keepers, OpenRefused(p)  PROVE Goal
  BY <1>4 DEF OpenRefused, Go
<1>5. ASSUME NEW p \in Keepers, Look(p)  PROVE Goal
  BY <1>5 DEF Look, Go, Close
<1>6. ASSUME NEW p \in Keepers, Copy(p)  PROVE Goal
  BY <1>6 DEF Copy, Go
<1>7. ASSUME NEW p \in Keepers, Write(p)  PROVE Goal
  BY <1>7 DEF Write, Go, Close
<1>8. ASSUME NEW p \in Keepers, CopyChanged(p)  PROVE Goal
  BY <1>8 DEF CopyChanged, Go, Close
<1>9. ASSUME NEW p \in Keepers, Ask(p)  PROVE Goal
  BY <1>9 DEF Ask, Go
<1>10. ASSUME NEW p \in Keepers, Waits(p)  PROVE Goal
  BY <1>10 DEF Waits, Go
<1>11. ASSUME NEW p \in Procs, Wait(p)  PROVE Goal
  BY <1>11 DEF Wait, Go
<1>12. ASSUME NEW p \in Procs, List(p)  PROVE Goal
  BY <1>12 DEF List, Go
<1>13. ASSUME NEW p \in Procs, NEW k \in Keys, Read(p, k)  PROVE Goal
  BY <1>13 DEF Read, Go
<1>14. ASSUME NEW p \in Procs, Judge(p)  PROVE Goal
  <2>1. CASE HasCopy(cur[p])  BY <1>14, <2>1 DEF Judge, Go
  <2>2. CASE ~HasCopy(cur[p])  BY <1>14, <2>2 DEF Judge, Go, SetAside
  <2> QED  BY <2>1, <2>2
<1>15. ASSUME NEW p \in Procs, JudgeRaises(p)  PROVE Goal
  BY <1>15 DEF JudgeRaises, Stop, Close
<1>16. ASSUME NEW p \in Procs, Drained(p)  PROVE Goal
  BY <1>16 DEF Drained, After
<1>17. ASSUME NEW p \in Procs, Drain(p)  PROVE Goal
  BY <1>17 DEF Drain, Go
<1>18. ASSUME NEW p \in Procs, DrainBusy(p)  PROVE Goal
  BY <1>18 DEF DrainBusy, Go
<1>19. ASSUME NEW p \in Procs, NEW k \in Keys, Send(p, k)  PROVE Goal
  BY <1>19 DEF Send, Go
<1>20. ASSUME NEW p \in Procs, UploadRaises(p)  PROVE Goal
  BY <1>20 DEF UploadRaises, Stop, Close
<1>21. ASSUME NEW p \in Procs, Receipted(p)  PROVE Goal
  BY <1>21 DEF Receipted, Go
<1>22. ASSUME NEW p \in Procs, DropLine(p)  PROVE Goal
  BY <1>22 DEF DropLine, Go
<1>23. ASSUME NEW p \in Procs, DropBlob(p)  PROVE Goal
  BY <1>23 DEF DropBlob, Go
<1>24. ASSUME NEW p \in Procs, Refuse(p)  PROVE Goal
  BY <1>24 DEF Refuse, Go, SetAside
<1>25. ASSUME NEW p \in Procs, RefuseRaises(p)  PROVE Goal
  BY <1>25 DEF RefuseRaises, Stop, Close
<1>26. ASSUME NEW p \in Procs, Taken(p)  PROVE Goal
  BY <1>26 DEF Taken, Go, Arrives
<1>27. ASSUME NEW p \in Procs, Denied(p)  PROVE Goal
  BY <1>27 DEF Denied, Go
<1>28. ASSUME NEW p \in Procs, Unreachable(p)  PROVE Goal
  BY <1>28 DEF Unreachable, StopDraining, Arrives, After
<1>29. ASSUME NEW p \in Mortal, at[p] # "idle", Die(p)  PROVE Goal
  BY <1>29 DEF Die, Stop, Close
<1> HIDE DEF Goal
<1> QED
  BY <1>1, <1>2, <1>3, <1>4, <1>5, <1>6, <1>7, <1>8, <1>9, <1>10, <1>11,
     <1>12, <1>13, <1>14, <1>15, <1>16, <1>17, <1>18, <1>19, <1>20, <1>21,
     <1>22, <1>23, <1>24, <1>25, <1>26, <1>27, <1>28, <1>29
     DEF Next, Writes, Reads, Delivers, Hears, Answers

\* A step that changes nothing keeps everything.
LEMMA OutboxStutter ==
    ASSUME OutboxInv, UNCHANGED vars
    PROVE  OutboxInv'
<1> USE DEF vars, spool, calls, scans
<1>1. TypeOK'  BY DEF OutboxInv, TypeOK
<1>2. CallInv' /\ WriterInv'
  BY DEF OutboxInv, CallInv, WriterInv, Safe, Gone, HasCopy
<1>3. CopyInv' /\ PassInv' /\ SetAsideIsRefused'
  BY DEF OutboxInv, CopyInv, PassInv, SetAsideIsRefused, Safe, Gone, HasCopy
<1> QED  BY <1>1, <1>2, <1>3 DEF OutboxInv

\* The invariant holds of every state the outbox reaches.
LEMMA OutboxHolds == Spec => []OutboxInv
<1>1. Init => OutboxInv
  BY OutboxAssumption
     DEF Init, OutboxInv, TypeOK, CallInv, WriterInv, CopyInv, PassInv, SetAsideIsRefused,
         Procs, Writing, Delivering, Spooled
<1>2. OutboxInv /\ [Next]_vars => OutboxInv'
  BY OutboxTyped, CallStep, WriterStep, CopyStep, PassStep, SetAsideStep, OutboxStutter
     DEF OutboxInv
<1> QED  BY <1>1, <1>2, PTL DEF Spec

\* The outbox stays well formed: one pass delivers at a time, and a line's lock
\* is held by a writer at work on that line (Outbox.append, Memory.drain).
THEOREM OutboxType == Spec => []TypeOK
<1>1. OutboxInv => TypeOK  BY DEF OutboxInv
<1> QED  BY OutboxHolds, <1>1, PTL

\* A keep a call answered for is in the spool, has its receipt or was set
\* aside, for any number of calls, passes and deaths (Memory.keep).
THEOREM OutboxNeverLoses == Spec => []NeverLost
<1>1. OutboxInv => NeverLost
  BY DEF OutboxInv, CallInv, NeverLost, Safe, Gone
<1> QED  BY OutboxHolds, <1>1, PTL

\* Only a keep the upstream refused, or one with its receipt, is set aside: no
\* order of copying, writing and dying leaves a line whose copy is missing
\* (Outbox.append, Outbox.waiting).
THEOREM OutboxSetsAside == Spec => []SetAsideIsRefused
<1>1. OutboxInv => SetAsideIsRefused  BY DEF OutboxInv
<1> QED  BY OutboxHolds, <1>1, PTL

\* A receipt, a line set aside and a refusal are for ever, and a keep that is
\* safe is never unspooled but by one of them (Outbox.settled, Outbox.refused).
THEOREM OutboxLasting == Spec => [][\A k \in Keys : Lasting(k)]_vars
<1>1. OutboxInv /\ [Next]_vars => [\A k \in Keys : Lasting(k)]_vars
  BY OutboxLasts
<1> QED  BY OutboxHolds, <1>1, PTL DEF Spec
===============================================================================
