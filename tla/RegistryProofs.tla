---------------------------- MODULE RegistryProofs ----------------------------
(***************************************************************************)
(* The registry's guarantees for any set of runs and any sequence of       *)
(* calls.                                                                  *)
(***************************************************************************)
EXTENDS RegistryClients, TLAPS

(***************************************************************************)
(* The vocabulary.                                                         *)
(***************************************************************************)
\* The settled words are the seven that move nowhere (Word.settled).
LEMMA SettledWords ==
    Settled = {"ok", "failed", "vanished", "unknown", "timeout", "cancelled",
               "skipped"}
  BY DEF Settled, Moves, Words

\* From a settled word only the word itself is reached (Log._reaches).
LEMMA SettledReaches ==
    ASSUME NEW w \in Settled, NEW v, Reaches(w, v)
    PROVE  v = w
  BY DEF Reaches, Settled, Moves, Words, Unresolved

(***************************************************************************)
(* Types.                                                                  *)
(***************************************************************************)
\* A row written as a whole keeps every field's type.
LEMMA RowType ==
    ASSUME RegistryTypeOK, NEW r \in Runs,
           NEW word \in Words \cup {NoRow, Unresolved},
           NEW rep \in Words \cup {Nothing}, NEW ev \in Deliveries,
           NEW ls \in BOOLEAN, NEW bd \in BOOLEAN,
           Row(r, word, rep, ev, ls, bd)
    PROVE  RegistryTypeOK'
  BY DEF Row, RegistryTypeOK

\* Every call keeps the registry's types.
LEMMA CallType ==
    ASSUME RegistryTypeOK, NEW r \in Runs, Call(r)
    PROVE  RegistryTypeOK'
<1> USE ClientsAssumption
<1>w. /\ {"prepared", "submitting", "queued", "held"} \subseteq Words
      /\ {"unset", "not_started"} \subseteq Deliveries
  BY DEF Words, Deliveries
<1>f. /\ evidence[r] \in Deliveries /\ leased[r] \in BOOLEAN
      /\ bound[r] \in BOOLEAN /\ reported[r] \in Words \cup {Nothing}
  BY DEF RegistryTypeOK
<1>1. CASE \E word \in Said, isStop \in BOOLEAN : Resolve(r, isStop, word)
  BY <1>1 DEF Resolve, RegistryTypeOK
<1>2. CASE \E status \in Statuses : Delivery(r, status)
  BY <1>2 DEF Delivery, RegistryTypeOK
<1>3. CASE \E word \in Said : Report(r, word)
  BY <1>3 DEF Report, RegistryTypeOK
<1>4. CASE Relet(r)
  BY <1>4 DEF Relet, RegistryTypeOK
<1>5. CASE Record(r)
  BY <1>5, <1>w, RowType DEF Record
<1>6. CASE Hold(r)
  BY <1>6, <1>w, RowType DEF Hold
<1>7. CASE Forget(r)
  BY <1>7, <1>w, RowType DEF Forget
<1>8. CASE Reserve(r, "not_started") \/ RecordIntent(r)
  BY <1>8, <1>w, RowType DEF Reserve, RecordIntent
<1>9. CASE \E word \in Words, withLease \in BOOLEAN : Prepared(r, word, withLease)
  BY <1>9, <1>f, RowType DEF Prepared
<1>10. CASE Reopen(r)
  BY <1>10, <1>w, <1>f, RowType DEF Reopen
<1>11. CASE Bind(r)
  BY <1>11, <1>w, <1>f, RowType DEF Bind
<1> QED
  BY <1>1, <1>2, <1>3, <1>4, <1>5, <1>6, <1>7, <1>8, <1>9, <1>10, <1>11 DEF Call

\* Every field of every row has its type, for any runs and any calls.
THEOREM RegistryTyped == RegistrySpec => []RegistryTypeOK
<1>1. RegistryInit => RegistryTypeOK
  BY DEF RegistryInit, RegistryTypeOK, Deliveries
<1>2. RegistryTypeOK /\ [RegistryNext]_registry => RegistryTypeOK'
  <2>1. ASSUME RegistryTypeOK, RegistryNext PROVE RegistryTypeOK'
    BY <2>1, CallType DEF RegistryNext
  <2>2. ASSUME RegistryTypeOK, UNCHANGED registry PROVE RegistryTypeOK'
    BY <2>2 DEF RegistryTypeOK, registry
  <2> QED BY <2>1, <2>2
<1> QED BY <1>1, <1>2, PTL DEF RegistrySpec

(***************************************************************************)
(* Settled verdicts are final.                                             *)
(***************************************************************************)
\* A call leaves the verdict of every other row alone.
LEMMA CallFrame ==
    ASSUME RegistryTypeOK, NEW r \in Runs, Call(r), NEW s \in Runs, s # r
    PROVE  verdict'[s] = verdict[s] /\ bound'[s] = bound[s]
  BY DEF Call, RegistryTypeOK, Resolve, Delivery, Report, Relet, Record,
         RecordIntent, Hold, Forget, Reserve, Prepared, Reopen, Bind, Row

\* A call leaves a settled verdict alone, unless the row is a placeholder's.
LEMMA CallKeepsSettled ==
    ASSUME RegistryTypeOK, NEW r \in Runs, r \notin Placeholders,
           IsSettled(r), Call(r)
    PROVE  verdict'[r] = verdict[r]
<1>1. /\ Exists(r) /\ ~IsPrepared(r) /\ ~IsSubmitting(r)
  BY SettledWords DEF IsSettled, Exists, IsPrepared, IsSubmitting, NoRow
<1>2. CASE \E word \in Said, isStop \in BOOLEAN : Resolve(r, isStop, word)
  BY <1>2, SettledReaches DEF Resolve, IsSettled, RegistryTypeOK
<1>3. CASE (\E status \in Statuses : Delivery(r, status))
           \/ (\E word \in Said : Report(r, word)) \/ Relet(r)
  BY <1>3 DEF Delivery, Report, Relet
<1> QED
  BY <1>1, <1>2, <1>3
     DEF Call, Record, RecordIntent, Hold, Forget, Reserve, Prepared, Reopen, Bind

\* The registry's central promise: a late probe, a repeated cancel or a
\* second settlement never rewrites an outcome (Cache._change, Log._reaches).
THEOREM RegistryFinal == RegistrySpec => SettledRowIsFinal
<1>1. RegistryTypeOK /\ [RegistryNext]_registry =>
        [\A r \in Runs \ Placeholders :
            IsSettled(r) => verdict'[r] = verdict[r]]_registry
  <2>1. ASSUME RegistryTypeOK, NEW s \in Runs, Call(s),
               NEW r \in Runs \ Placeholders, IsSettled(r)
        PROVE  verdict'[r] = verdict[r]
    BY <2>1, CallFrame, CallKeepsSettled
  <2> QED BY <2>1 DEF RegistryNext
<1> QED BY <1>1, RegistryTyped, PTL DEF RegistrySpec, SettledRowIsFinal

(***************************************************************************)
(* One creation per request.                                               *)
(***************************************************************************)
CreationInv ==
    /\ RegistryTypeOK
    /\ OneCreationPerRequest
    /\ BoundIsNoIntent

\* What a call may do to its own row: it is an intent afterwards only if it
\* was one before, still unbound, a reserve just found no other, or it is a
\* held line's.
LEMMA CallIntent ==
    ASSUME CreationInv, NEW r \in Runs, Call(r)
    PROVE  /\ Uncreated(r)' => Uncreated(r) \/ Reservable(r) \/ r \in Lines
           /\ bound'[r] => ~Uncreated(r)'
<1> USE DEF CreationInv
<1>t. verdict[r] \in Words \cup {NoRow, Unresolved} /\ bound[r] \in BOOLEAN
  BY DEF RegistryTypeOK
<1>1. ASSUME NEW word \in Said, NEW isStop \in BOOLEAN, Resolve(r, isStop, word)
      PROVE  (Uncreated(r)' => Uncreated(r)) /\ (bound'[r] => ~Uncreated(r)')
  BY <1>1, ClientsAssumption DEF Resolve, Uncreated, RegistryTypeOK, BoundIsNoIntent
<1>2. ASSUME \/ \E status \in Statuses : Delivery(r, status)
             \/ \E word \in Said : Report(r, word)
             \/ Relet(r)
      PROVE  (Uncreated(r)' => Uncreated(r)) /\ (bound'[r] => ~Uncreated(r)')
  BY <1>2 DEF Delivery, Report, Relet, Uncreated, BoundIsNoIntent
<1>3. ASSUME Record(r) \/ Hold(r) \/ Forget(r)
      PROVE  ~Uncreated(r)'
  BY <1>3 DEF Record, Hold, Forget, Row, Uncreated, Pending, NoRow, Unresolved,
              RegistryTypeOK
<1>4. ASSUME Reserve(r, "not_started")
      PROVE  Reservable(r) /\ ~bound'[r]
  BY <1>4 DEF Reserve, Row, RegistryTypeOK
<1>8. ASSUME RecordIntent(r)
      PROVE  ~bound'[r]
  BY <1>8 DEF RecordIntent, Row, RegistryTypeOK
<1>5. ASSUME NEW word \in Words, NEW withLease \in BOOLEAN,
             Prepared(r, word, withLease)
      PROVE  Uncreated(r) /\ ~bound'[r]
  BY <1>5 DEF Prepared, IsPrepared, Row, Uncreated, Pending, RegistryTypeOK,
              BoundIsNoIntent
<1>6. ASSUME Reopen(r)
      PROVE  Uncreated(r) /\ ~bound'[r]
  BY <1>6 DEF Reopen, IsSubmitting, Row, Uncreated, Pending, RegistryTypeOK,
              BoundIsNoIntent
<1>7. ASSUME Bind(r)
      PROVE  ~Uncreated(r)'
  BY <1>7 DEF Bind, Row, Uncreated, Pending, RegistryTypeOK
<1> QED
  BY <1>1, <1>2, <1>3, <1>4, <1>5, <1>6, <1>7, <1>8 DEF Call

\* However reserves, declines and binds interleave, at most one unresolved
\* creation stands for a rental's request, and none for a machine already recorded.
THEOREM RegistryOneCreation ==
    RegistrySpec => [](OneCreationPerRequest /\ BoundIsNoIntent)
<1>1. RegistryInit => CreationInv
  <2>1. RegistryInit => RegistryTypeOK
    BY DEF RegistryInit, RegistryTypeOK, Deliveries
  <2>2. RegistryInit => \A r \in Runs : ~Uncreated(r)
    BY DEF RegistryInit, Uncreated, Pending, NoRow
  <2> QED BY <2>1, <2>2 DEF CreationInv, OneCreationPerRequest, BoundIsNoIntent
<1>2. CreationInv /\ [RegistryNext]_registry => CreationInv'
  <2>1. ASSUME CreationInv, NEW r \in Runs, Call(r) PROVE CreationInv'
    <3>1. RegistryTypeOK'
      BY <2>1, CallType DEF CreationInv
    <3>2. \A s \in Runs : s # r =>
            (Uncreated(s)' <=> Uncreated(s)) /\ (bound'[s] <=> bound[s])
      BY <2>1, CallFrame DEF CreationInv, Uncreated
    <3>3. /\ Uncreated(r)' => Uncreated(r) \/ Reservable(r) \/ r \in Lines
          /\ bound'[r] => ~Uncreated(r)'
      BY <2>1, CallIntent
    <3>4. OneCreationPerRequest'
      <4> SUFFICES ASSUME NEW s \in Runs \ Lines, NEW t \in Runs \ Lines, s # t,
                          Uncreated(s)', Uncreated(t)'
                   PROVE  Request[s] # Request[t]
        BY DEF OneCreationPerRequest, Uncreated
      <4>1. CASE s # r /\ t # r
        BY <2>1, <4>1, <3>2 DEF CreationInv, OneCreationPerRequest
      <4>2. CASE s = r
        BY <2>1, <4>2, <3>2, <3>3 DEF CreationInv, OneCreationPerRequest, Reservable
      <4>3. CASE t = r
        BY <2>1, <4>3, <3>2, <3>3 DEF CreationInv, OneCreationPerRequest, Reservable
      <4> QED BY <4>1, <4>2, <4>3
    <3>5. BoundIsNoIntent'
      BY <2>1, <3>2, <3>3 DEF CreationInv, BoundIsNoIntent, Uncreated
    <3> QED BY <3>1, <3>4, <3>5 DEF CreationInv
  <2>2. ASSUME CreationInv, UNCHANGED registry PROVE CreationInv'
    BY <2>2 DEF CreationInv, registry, RegistryTypeOK, OneCreationPerRequest,
                BoundIsNoIntent, Uncreated
  <2> QED BY <2>1, <2>2 DEF RegistryNext
<1>3. CreationInv => OneCreationPerRequest /\ BoundIsNoIntent
  BY DEF CreationInv
<1> QED BY <1>1, <1>2, <1>3, PTL DEF RegistrySpec

\* A late refusal, a bind or a reservation never turns a row whose machine has
\* its handle back into an intent, which a dispatch would create again.
THEOREM RegistryBound == RegistrySpec => []BoundIsNoIntent
  BY RegistryOneCreation, PTL
==============================================================================
