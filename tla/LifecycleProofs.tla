---------------------------- MODULE LifecycleProofs ----------------------------
(***************************************************************************)
(* The inductive invariant IInv of Lifecycle, for any sets of runs,        *)
(* passes, stoppers and reapers, and what follows from it.                 *)
(*                                                                         *)
(* The argument separates rows from processes.  RowsKept(X) says what a    *)
(* step does to rows and machines: types and RowInv hold afterwards, and   *)
(* nothing a process relies on is taken away (a bound row stays bound, a   *)
(* settled verdict stands, a machine that is gone stays gone; outside X an *)
(* intent is left alone).  Each write is shown to do so once; a process    *)
(* whose own variables do not change keeps its invariant under RowsKept.   *)
(***************************************************************************)
EXTENDS MCCasts, TLAPS

(***************************************************************************)
(* The vocabulary.                                                         *)
(***************************************************************************)
\* The settled words are the seven that move nowhere (Word.settled).
LEMMA SettledWords ==
    Settled = {"ok", "failed", "vanished", "unknown", "timeout", "cancelled",
               "skipped"}
  BY DEF Settled, Moves, Words

\* From a settled word only the word itself is reached (Log._reaches).
LEMMA SettledReaches ==
    ASSUME NEW w \in Settled, NEW v, Reaches(w, v)
    PROVE  v = w
  BY DEF Reaches, Settled, Moves, Words, Unresolved

\* A row in flight reaches every verdict a poll, a deadline or a stop settles
\* it on.
LEMMA FlightReaches ==
    ASSUME NEW w \in {"queued", "running"},
           NEW v \in {"ok", "failed", "vanished", "timeout", "cancelled"}
    PROVE  Reaches(w, v)
  BY DEF Reaches, Moves, Words

\* A row in flight never becomes an intent, a held request or unresolved.
LEMMA FlightMoves ==
    ASSUME NEW w \in {"queued", "running"}, NEW v, Reaches(w, v)
    PROVE  v \in Words /\ v \notin Pending \cup {"held"}
  BY DEF Reaches, Moves, Words, Pending, Unresolved

\* What Creations.prepared may write.
LEMMA PreparedMoves ==
    ASSUME NEW w, Reaches("prepared", w)
    PROVE  w \in {"prepared", "submitting", "failed", "cancelled"}
  BY DEF Reaches, Moves, Words, Unresolved

Machines == {"none", "asked", "up", "gone"}

WorldTypeOK ==
    /\ job \in [Runs -> {"idle", "running", "ok", "failed", "unlanded"}]
    /\ log \in [Runs -> {"unread", "partial", "full"}]
    /\ event \in [Runs -> {"none", "copied", "other"}]
    /\ term \in [Runs -> {"open", "due", "overdue"}]
    /\ young \in [Runs -> BOOLEAN]
    /\ lock \in {None} \cup Runs \cup Passes \cup Stoppers \cup Reapers

RowsOK ==
    /\ RegistryTypeOK
    /\ machine \in [Runs -> Machines]
    /\ declared \in BOOLEAN
    /\ \A r \in Runs : RowInv(r)

RowsKept(X) ==
    /\ RowsOK'
    /\ declared' => declared
    /\ \A r \in Runs :
          /\ bound[r] => bound'[r]
          /\ IsSettled(r) => verdict'[r] = verdict[r]
          /\ verdict[r] # NoRow => verdict'[r] # NoRow
          /\ Uncreated(r)' => Uncreated(r) \/ verdict[r] = NoRow
          /\ machine[r] = "gone" => machine'[r] = "gone"
          /\ machine[r] = "up" => machine'[r] \in {"up", "gone"}
    /\ \A r \in Runs \ X :
          /\ verdict[r] = NoRow => verdict'[r] = NoRow
          /\ verdict[r] = "submitting" /\ machine[r] = "none" =>
                verdict'[r] = "submitting" /\ machine'[r] = "none"

(***************************************************************************)
(* One lemma per write.                                                    *)
(***************************************************************************)
\* Nothing written.
LEMMA NoWrite ==
    ASSUME RowsOK, UNCHANGED <<registry, machine, declared>>
    PROVE  RowsKept({})
  BY DEF RowsOK, RowsKept, Uncreated, registry, RegistryTypeOK, RowInv, IsSettled, Closed

\* Cache.delivery touches the delivery status only.
LEMMA DeliveryWrite ==
    ASSUME RowsOK, NEW r \in Runs, NEW status \in Deliveries,
           Delivery(r, status), UNCHANGED <<machine, declared>>
    PROVE  RowsKept({})
  BY DEF Delivery, RowsOK, RowsKept, Uncreated, RegistryTypeOK, RowInv, IsSettled, Closed

\* Cache.report, of a settled row whose machine is gone or undeclared.
LEMMA ReportWrite ==
    ASSUME RowsOK, NEW r \in Runs, NEW word \in Words, Report(r, word),
           IsSettled(r), bound[r], machine[r] = "gone" \/ ~declared,
           UNCHANGED <<machine, declared>>
    PROVE  RowsKept({})
  BY DEF Report, RowsOK, RowsKept, Uncreated, RegistryTypeOK, RowInv, IsSettled, Closed

\* A bound row that has not settled is in flight.
LEMMA BoundInFlight ==
    ASSUME RowsOK, NEW r \in Runs, bound[r], ~IsSettled(r)
    PROVE  verdict[r] \in {"queued", "running"}
  BY SettledWords DEF RowsOK, RegistryTypeOK, RowInv, IsSettled, Pending, Words

\* Cache.resolve of a bound row: a settled verdict stands, one in flight
\* moves within flight or settles, with nothing reported yet.
LEMMA ResolveWrite ==
    ASSUME RowsOK, NEW r \in Runs, bound[r], NEW isStop \in BOOLEAN, NEW word,
           Resolve(r, isStop, word), UNCHANGED <<machine, declared>>
    PROVE  /\ RowsKept({})
           /\ word \in {"ok", "failed", "vanished", "timeout", "cancelled"}
                 => IsSettled(r)'
           /\ IsSettled(r) => IsSettled(r)'
<1>1. CASE IsSettled(r)
  <2>1. verdict' = verdict /\ stopped' \in [Runs -> BOOLEAN]
    BY <1>1, SettledReaches DEF Resolve, IsSettled, RowsOK, RegistryTypeOK
  <2> QED
    BY <1>1, <2>1
       DEF Resolve, RowsOK, RowsKept, Uncreated, RegistryTypeOK, RowInv, IsSettled, Closed
<1>2. CASE ~IsSettled(r)
  <2>1. verdict[r] \in {"queued", "running"}
    BY <1>2, BoundInFlight
  <2>2. /\ verdict'[r] \in Words /\ verdict'[r] \notin Pending \cup {"held"}
        /\ verdict' = [verdict EXCEPT ![r] = verdict'[r]]
        /\ stopped' \in [Runs -> BOOLEAN]
    BY <2>1, FlightMoves DEF Resolve, RowsOK, RegistryTypeOK, Words, Pending
  <2>3. verdict'[r] \notin {NoRow, Unresolved} /\ reported[r] = Nothing
    BY <1>2, <2>2 DEF Words, NoRow, Unresolved, RowsOK, RowInv
  <2>4. ~Closed(r)'
    BY <2>3, SettledWords DEF Resolve, Closed, IsSettled, Nothing
  <2>5. word \in {"ok", "failed", "vanished", "timeout", "cancelled"}
           => IsSettled(r)'
    BY <2>1, FlightReaches, SettledWords DEF Resolve, IsSettled, RowsOK, RegistryTypeOK
  <2>6. \A s \in Runs : RowInv(s)'
    <3> SUFFICES ASSUME NEW s \in Runs PROVE RowInv(s)'
      OBVIOUS
    <3>1. CASE s = r
      BY <3>1, <2>2, <2>3, <2>4 DEF Resolve, RowsOK, RowInv, RegistryTypeOK
    <3>2. CASE s # r
      BY <3>2, <2>2 DEF Resolve, RowsOK, RowInv, RegistryTypeOK, IsSettled, Closed
    <3> QED BY <3>1, <3>2
  <2>7. RowsKept({})
    BY <2>1, <2>2, <2>3, <2>6, <1>2
       DEF Resolve, RowsOK, RowsKept, Uncreated, Pending, RegistryTypeOK,
         IsSettled, NoRow
  <2> QED BY <1>2, <2>5, <2>7
<1> QED BY <1>1, <1>2

\* A bound row has a machine, up or gone.
LEMMA BoundMachine ==
    ASSUME RowsOK, NEW r \in Runs, bound[r]
    PROVE  machine[r] \in {"up", "gone"}
  BY DEF RowsOK, RowInv

\* ProviderBackend.cancel, or the provider itself, ends a machine.
LEMMA EndWrite ==
    ASSUME RowsOK, NEW r \in Runs, machine[r] \in {"up", "gone"}, EndMachine(r),
           UNCHANGED <<registry, declared>>
    PROVE  RowsKept({}) /\ machine'[r] = "gone"
  BY DEF EndMachine, registry, RowsOK, RowsKept, Uncreated, RegistryTypeOK, RowInv,
         IsSettled, Closed, Machines, Pending, NoRow

\* The manifest drops the target.
LEMMA UndeclareWrite ==
    ASSUME RowsOK, declared' = FALSE, declared, UNCHANGED <<registry, machine>>
    PROVE  RowsKept({})
  BY DEF registry, RowsOK, RowsKept, Uncreated, RegistryTypeOK, RowInv, IsSettled, Closed

\* Creations.bind, of a machine known to exist.
LEMMA BindWrite ==
    ASSUME RowsOK, NEW r \in Runs, Bind(r), machine[r] \in {"up", "gone"},
           UNCHANGED <<machine, declared>>
    PROVE  RowsKept({}) /\ bound'[r]
<1>1. ~Closed(r)' /\ ~IsSettled(r)'
  BY SettledWords DEF Bind, Row, RowsOK, RegistryTypeOK, Closed, IsSettled
<1>2. RegistryTypeOK' /\ verdict'[r] = "queued" /\ bound'[r]
  BY DEF Bind, Row, RowsOK, RegistryTypeOK, Words
<1>3. \A s \in Runs : RowInv(s)'
  <2> SUFFICES ASSUME NEW s \in Runs PROVE RowInv(s)'
    OBVIOUS
  <2>1. CASE s = r
    <3>1. ~IsSettled(r)
      BY SettledWords DEF Bind, IsSubmitting, IsSettled
    <3> QED
      BY <2>1, <3>1, <1>1, <1>2
         DEF Bind, Row, RowsOK, RowInv, RegistryTypeOK, Pending, NoRow, Unresolved
  <2>2. CASE s # r
    BY <2>2 DEF Bind, Row, RowsOK, RowInv, RegistryTypeOK, IsSettled, Closed
  <2> QED BY <2>1, <2>2
<1>4. ~IsSettled(r)
  BY SettledWords DEF Bind, IsSubmitting, IsSettled
<1> QED
  BY <1>2, <1>3, <1>4
     DEF Bind, IsSubmitting, Row, RowsOK, RowsKept, Uncreated, Pending, RegistryTypeOK,
         IsSettled, NoRow

\* Creations.prepared: sent, or given up before anything was sent.
LEMMA PreparedWrite ==
    ASSUME RowsOK, NEW r \in Runs, NEW word \in Words, NEW withLease \in BOOLEAN,
           Prepared(r, word, withLease), UNCHANGED <<machine, declared>>
    PROVE  RowsKept({}) /\ machine'[r] = "none" /\ verdict'[r] = word
<1>1. word \in {"prepared", "submitting", "failed", "cancelled"}
  BY PreparedMoves DEF Prepared
<1>2. verdict[r] = "prepared" /\ ~bound[r] /\ machine[r] = "none" /\ ~IsSettled(r)
  BY SettledWords DEF Prepared, IsPrepared, RowsOK, RowInv, RegistryTypeOK, Pending,
                      IsSettled
<1>3. /\ RegistryTypeOK' /\ verdict'[r] = word /\ ~bound'[r]
      /\ reported'[r] = IF word \in Settled THEN word ELSE Nothing
  BY <1>2 DEF Prepared, Row, RowsOK, RegistryTypeOK
<1>4. \A s \in Runs : RowInv(s)'
  <2> SUFFICES ASSUME NEW s \in Runs PROVE RowInv(s)'
    OBVIOUS
  <2>1. CASE s = r
    BY <2>1, <1>1, <1>2, <1>3, SettledWords
       DEF RowInv, Pending, NoRow, Unresolved, IsSettled, Closed
  <2>2. CASE s # r
    BY <2>2 DEF Prepared, Row, RowsOK, RowInv, RegistryTypeOK, IsSettled, Closed
  <2> QED BY <2>1, <2>2
<1> QED
  BY <1>1, <1>2, <1>3, <1>4
     DEF Prepared, Row, RowsOK, RowsKept, Uncreated, Pending, RegistryTypeOK,
         IsSettled, NoRow

\* Creations.reserve: a new row, with no machine.
LEMMA ReserveWrite ==
    ASSUME RowsOK, NEW r \in Runs, Reserve(r, "not_started"),
           UNCHANGED <<machine, declared>>
    PROVE  RowsKept({r})
<1>1. verdict[r] = NoRow /\ ~bound[r] /\ machine[r] = "none" /\ ~IsSettled(r)
  BY SettledWords
     DEF Reserve, Exists, RowsOK, RowInv, RegistryTypeOK, Pending, IsSettled, NoRow
<1>2. /\ RegistryTypeOK' /\ verdict'[r] = "prepared" /\ ~bound'[r]
      /\ reported'[r] = Nothing
  BY DEF Reserve, Row, RowsOK, RegistryTypeOK, Words, Deliveries
<1>3. \A s \in Runs : RowInv(s)'
  <2> SUFFICES ASSUME NEW s \in Runs PROVE RowInv(s)'
    OBVIOUS
  <2>1. CASE s = r
    BY <2>1, <1>1, <1>2, SettledWords
       DEF RowInv, Pending, NoRow, Unresolved, IsSettled, Closed
  <2>2. CASE s # r
    BY <2>2 DEF Reserve, Row, RowsOK, RowInv, RegistryTypeOK, IsSettled, Closed
  <2> QED BY <2>1, <2>2
<1> QED
  BY <1>1, <1>2, <1>3
     DEF Reserve, Row, RowsOK, RowsKept, Uncreated, RegistryTypeOK, IsSettled

\* Creations.reopen: the row stands as prepared again, with no machine.
LEMMA ReopenWrite ==
    ASSUME RowsOK, NEW r \in Runs, Reopen(r), machine[r] = "none",
           UNCHANGED <<machine, declared>>
    PROVE  RowsKept({r})
<1>1. verdict[r] = "submitting" /\ ~bound[r] /\ ~IsSettled(r) /\ reported[r] = Nothing
  BY SettledWords
     DEF Reopen, IsSubmitting, RowsOK, RowInv, RegistryTypeOK, Pending, IsSettled
<1>2. /\ RegistryTypeOK' /\ verdict'[r] = "prepared" /\ ~bound'[r]
      /\ reported'[r] = Nothing
  BY <1>1 DEF Reopen, Row, RowsOK, RegistryTypeOK, Words
<1>3. \A s \in Runs : RowInv(s)'
  <2> SUFFICES ASSUME NEW s \in Runs PROVE RowInv(s)'
    OBVIOUS
  <2>1. CASE s = r
    BY <2>1, <1>1, <1>2, SettledWords
       DEF RowInv, Pending, NoRow, Unresolved, IsSettled, Closed
  <2>2. CASE s # r
    BY <2>2 DEF Reopen, Row, RowsOK, RowInv, RegistryTypeOK, IsSettled, Closed
  <2> QED BY <2>1, <2>2
<1> QED
  BY <1>1, <1>2, <1>3
     DEF Reopen, Row, RowsOK, RowsKept, Uncreated, Pending, RegistryTypeOK,
         IsSettled, NoRow

\* A machine asked for, declined, or appearing, under a submitting row.
LEMMA MachineWrite ==
    ASSUME RowsOK, NEW r \in Runs, verdict[r] = "submitting", ~bound[r],
           machine[r] \in {"none", "asked"},
           NEW m \in {"none", "asked", "up"},
           machine' = [machine EXCEPT ![r] = m], UNCHANGED <<registry, declared>>
    PROVE  RowsKept({r}) /\ (machine[r] = "asked" => RowsKept({}))
<1>1. ~IsSettled(r)
  BY SettledWords DEF IsSettled
<1>2. machine' \in [Runs -> Machines] /\ machine'[r] = m
  BY DEF RowsOK, Machines
<1>3. \A s \in Runs : RowInv(s)'
  <2> SUFFICES ASSUME NEW s \in Runs PROVE RowInv(s)'
    OBVIOUS
  <2>1. CASE s = r
    BY <2>1, <1>1 DEF RowsOK, RowInv, registry, IsSettled, Closed
  <2>2. CASE s # r
    BY <2>2 DEF RowsOK, RowInv, registry, IsSettled, Closed
  <2> QED BY <2>1, <2>2
<1> QED
  BY <1>2, <1>3 DEF RowsOK, RowsKept, Uncreated, RegistryTypeOK, registry, IsSettled

\* Only a submitting row has a machine in flight.
LEMMA AskedSubmitting ==
    ASSUME RowsOK, NEW r \in Runs, machine[r] = "asked"
    PROVE  verdict[r] = "submitting" /\ ~bound[r]
  BY DEF RowsOK, RowInv

(***************************************************************************)
(* A process whose variables do not change keeps its invariant.            *)
(***************************************************************************)
\* Whatever X, more is kept outside a smaller set.
LEMMA KeptWeaker ==
    ASSUME NEW X, RowsKept({})
    PROVE  RowsKept(X)
  BY DEF RowsKept

\* A lander that rests while another row is written keeps its invariant.
LEMMA LandFrame ==
    ASSUME NEW X, RowsKept(X), NEW r \in Runs \ X, LandInv(r),
           machine[r] \in Machines, land'[r] = land[r]
    PROVE  LandInv(r)'
  BY DEF RowsKept, LandInv

\* So does a settling pass.
LEMMA PassFrame ==
    ASSUME NEW X, RowsKept(X), PassTypeOK, NEW p \in Passes, PassInv(p),
           point'[p] = point[p], due'[p] = due[p], todo'[p] = todo[p],
           told'[p] = told[p], at'[p] = at[p]
    PROVE  PassInv(p)'
<1>1. due[p] \subseteq Runs /\ todo[p] \subseteq Runs
  BY DEF PassTypeOK
<1>2. \A r \in Runs : IsSettled(r) => IsSettled(r)'
  BY DEF RowsKept, IsSettled
<1> QED
  BY <1>1, <1>2 DEF RowsKept, PassInv, PassReleased, PassResting

\* So does a stopper.
LEMMA StopFrame ==
    ASSUME NEW X, RowsKept(X), NEW s \in Stoppers, StopInv(s),
           stage'[s] = stage[s], run'[s] = run[s], said'[s] = said[s]
    PROVE  StopInv(s)'
<1>2. \A r \in Runs : IsSettled(r) => IsSettled(r)'
  BY DEF RowsKept, IsSettled
<1> QED
  BY <1>2 DEF RowsKept, StopInv

\* So does a reaper.
LEMMA ReapFrame ==
    ASSUME NEW X, RowsKept(X), ReapTypeOK, NEW k \in Reapers, ReapInv(k),
           listed'[k] = listed[k]
    PROVE  ReapInv(k)'
  BY DEF RowsKept, ReapInv, ReapTypeOK

(***************************************************************************)
(* The environment.                                                        *)
(***************************************************************************)
\* Machines appearing or preempted, jobs ending and time passing take nothing
\* away.
LEMMA EnvironmentStep ==
    ASSUME RowsOK, WorldTypeOK, NEW r \in Runs, Passing(r)
    PROVE  RowsKept({}) /\ WorldTypeOK'
<1>1. CASE Appear(r)
  <2>1. RowsKept({})
    BY <1>1, AskedSubmitting, MachineWrite DEF Appear, clockVars
  <2> QED BY <1>1, <2>1 DEF Appear, clockVars, WorldTypeOK
<1>2. CASE JobEnds(r)
  <2>1. RowsKept({})
    BY <1>2, NoWrite DEF JobEnds, clockVars
  <2> QED BY <1>2, <2>1 DEF JobEnds, clockVars, WorldTypeOK
<1>3. CASE Preempted(r)
  <2>1. RowsKept({})
    BY <1>3, EndWrite DEF Preempted, clockVars
  <2> QED BY <1>3, <2>1 DEF Preempted, clockVars, WorldTypeOK
<1>4. CASE LeasePasses(r)
  <2>1. RowsKept({})
    BY <1>4, NoWrite DEF LeasePasses
  <2> QED BY <1>4, <2>1 DEF LeasePasses, WorldTypeOK
<1>5. CASE GracePasses(r)
  <2>1. RowsKept({})
    BY <1>5, NoWrite DEF GracePasses
  <2> QED BY <1>5, <2>1 DEF GracePasses, WorldTypeOK
<1> QED BY <1>1, <1>2, <1>3, <1>4, <1>5 DEF Passing

\* Nor does a target dropped from the manifest.
LEMMA UndeclareStep ==
    ASSUME RowsOK, WorldTypeOK, Undeclare
    PROVE  RowsKept({}) /\ WorldTypeOK'
<1>1. RowsKept({})
  BY UndeclareWrite DEF Undeclare
<1> QED BY <1>1 DEF Undeclare, WorldTypeOK

\* Settlement.evidence writes the delivery status and perhaps an event.
LEMMA EvidenceWrite ==
    ASSUME RowsOK, WorldTypeOK, NEW r \in Runs, NEW status \in Deliveries,
           Evidence(r, status), UNCHANGED <<machine, declared>>
    PROVE  /\ RowsKept({})
           /\ event' \in [Runs -> {"none", "copied", "other"}]
           /\ UNCHANGED <<verdict, bound>>
<1>1. Delivery(r, status)
  BY DEF Evidence
<1>2. event' \in [Runs -> {"none", "copied", "other"}]
  BY DEF Evidence, WorldTypeOK
<1> QED BY <1>1, <1>2, DeliveryWrite DEF Delivery

(***************************************************************************)
(* The lander.                                                             *)
(***************************************************************************)
LandGoal(r) ==
    /\ RowsKept({r}) /\ WorldTypeOK'
    /\ land' \in [Runs -> LandPoints]
    /\ LandInv(r)'
    /\ \A s \in Runs \ {r} : land'[s] = land[s]

\* A step of the lander writes only its own place.
LEMMA GotoPlace ==
    ASSUME land \in [Runs -> LandPoints], NEW r \in Runs, NEW from, NEW to \in LandPoints,
           Goto(r, from, to)
    PROVE  /\ land' \in [Runs -> LandPoints] /\ land'[r] = to /\ land[r] = from
           /\ \A s \in Runs \ {r} : land'[s] = land[s]
  BY DEF Goto

\* Allocation, from the reserved row to the bound handle.
LEMMA LandCreation ==
    ASSUME RowsOK, WorldTypeOK, land \in [Runs -> LandPoints], NEW r \in Runs,
           LandInv(r),
           \/ Allocate(r) \/ GiveUp(r) \/ Begin(r) \/ Create(r) \/ Answered(r)
           \/ Refused(r) \/ Created(r)
    PROVE  LandGoal(r)
<1>p. {"prepared", "create", "creating", "declined", "bind", "boot",
       "interrupted"} \subseteq LandPoints
  BY DEF LandPoints
<1>x. RowsKept({r}) => verdict'[r] # NoRow
  <2>1. CASE Allocate(r)
    BY <2>1 DEF Allocate, Reserve, Row, RowsOK, RegistryTypeOK, NoRow
  <2>2. CASE ~Allocate(r)
    <3>1. land[r] # "new"
      BY <2>2 DEF GiveUp, Begin, Create, Answered, Refused, Created, Goto
    <3> QED BY <3>1 DEF LandInv, RowsKept
  <2> QED BY <2>1, <2>2
<1>1. CASE Allocate(r)
  <2>1. RowsKept({r})
    BY <1>1, ReserveWrite DEF Allocate, world, clockVars
  <2>2. land' \in [Runs -> LandPoints] /\ land'[r] = "prepared"
        /\ \A s \in Runs \ {r} : land'[s] = land[s]
    BY <1>1, <1>p, GotoPlace DEF Allocate
  <2> QED BY <1>x, <1>1, <2>1, <2>2
         DEF Allocate, world, clockVars, WorldTypeOK, LandGoal, LandInv, LandBound
<1>2. CASE GiveUp(r)
  <2>1. RowsKept({r})
    BY <1>2, NoWrite, KeptWeaker DEF GiveUp, world, clockVars
  <2>2. land' \in [Runs -> LandPoints] /\ land'[r] = "interrupted"
        /\ \A s \in Runs \ {r} : land'[s] = land[s]
    BY <1>2, <1>p, GotoPlace DEF GiveUp
  <2> QED BY <1>x, <1>2, <2>1, <2>2
         DEF GiveUp, world, clockVars, WorldTypeOK, LandGoal, LandInv, LandBound
<1>3. CASE Begin(r)
  <2>1. CASE Goto(r, "prepared", "create") /\ Prepared(r, "submitting", TRUE)
             /\ term' = [term EXCEPT ![r] = "open"]
    <3>1. RowsKept({r}) /\ machine'[r] = "none" /\ verdict'[r] = "submitting"
      BY <1>3, <2>1, PreparedWrite, KeptWeaker DEF Begin, Words
    <3>2. land' \in [Runs -> LandPoints] /\ land'[r] = "create"
          /\ \A s \in Runs \ {r} : land'[s] = land[s]
      BY <2>1, <1>p, GotoPlace
    <3> QED BY <1>x, <1>3, <2>1, <3>1, <3>2
           DEF Begin, WorldTypeOK, LandGoal, LandInv, LandBound
  <2>2. CASE Goto(r, "prepared", "interrupted") /\ UNCHANGED <<registry, term>>
    <3>1. RowsKept({r})
      BY <1>3, <2>2, NoWrite, KeptWeaker DEF Begin
    <3>2. land' \in [Runs -> LandPoints] /\ land'[r] = "interrupted"
          /\ \A s \in Runs \ {r} : land'[s] = land[s]
      BY <2>2, <1>p, GotoPlace
    <3> QED BY <1>x, <1>3, <2>2, <3>1, <3>2
           DEF Begin, WorldTypeOK, LandGoal, LandInv, LandBound
  <2> QED BY <1>x, <1>3, <2>1, <2>2 DEF Begin
<1>4. CASE Create(r)
  <2>1. verdict[r] = "submitting" /\ machine[r] = "none" /\ ~bound[r]
    BY <1>4 DEF Create, Goto, LandInv, RowsOK, RowInv
  <2>2. RowsKept({r})
    BY <1>4, <2>1, MachineWrite DEF Create, clockVars
  <2>3. land' \in [Runs -> LandPoints] /\ land'[r] = "creating"
        /\ \A s \in Runs \ {r} : land'[s] = land[s]
    BY <1>4, <1>p, GotoPlace DEF Create
  <2> QED BY <1>x, <1>4, <2>2, <2>3
         DEF Create, clockVars, WorldTypeOK, LandGoal, LandInv, LandBound
<1>5. CASE Answered(r)
  <2>0. WorldTypeOK'
    BY <1>5 DEF Answered, clockVars, WorldTypeOK
  <2>1. CASE Goto(r, "creating", "bind") /\ machine[r] \in {"up", "gone"}
             /\ UNCHANGED machine
    <3>1. RowsKept({r})
      BY <1>5, <2>1, NoWrite, KeptWeaker DEF Answered, clockVars
    <3>2. land' \in [Runs -> LandPoints] /\ land'[r] = "bind"
          /\ \A s \in Runs \ {r} : land'[s] = land[s]
      BY <2>1, <1>p, GotoPlace
    <3> QED BY <1>x, <2>0, <2>1, <3>1, <3>2 DEF LandGoal, LandInv, LandBound
  <2>2. CASE Goto(r, "creating", "declined") /\ machine[r] = "asked"
             /\ machine' = [machine EXCEPT ![r] = "none"]
    <3>1. RowsKept({r}) /\ verdict[r] = "submitting"
      BY <1>5, <2>2, AskedSubmitting, MachineWrite DEF Answered, clockVars
    <3>2. land' \in [Runs -> LandPoints] /\ land'[r] = "declined"
          /\ \A s \in Runs \ {r} : land'[s] = land[s]
      BY <2>2, <1>p, GotoPlace
    <3>3. verdict' = verdict /\ machine'[r] = "none"
      BY <1>5, <2>2 DEF Answered, registry, RowsOK
    <3> QED BY <1>x, <2>0, <2>2, <3>1, <3>2, <3>3 DEF LandGoal, LandInv, LandBound
  <2>3. CASE Goto(r, "creating", "interrupted") /\ UNCHANGED machine
    <3>1. RowsKept({r})
      BY <1>5, <2>3, NoWrite, KeptWeaker DEF Answered, clockVars
    <3>2. land' \in [Runs -> LandPoints] /\ land'[r] = "interrupted"
          /\ \A s \in Runs \ {r} : land'[s] = land[s]
      BY <2>3, <1>p, GotoPlace
    <3> QED BY <1>x, <2>0, <2>3, <3>1, <3>2 DEF LandGoal, LandInv, LandBound
  <2> QED BY <1>x, <1>5, <2>1, <2>2, <2>3 DEF Answered
<1>6. CASE Refused(r)
  <2>1. RowsKept({r})
    BY <1>6, ReopenWrite, NoWrite, KeptWeaker
       DEF Refused, Goto, LandInv, world, clockVars
  <2>2. land' \in [Runs -> LandPoints] /\ land'[r] = "prepared"
        /\ \A s \in Runs \ {r} : land'[s] = land[s]
    BY <1>6, <1>p, GotoPlace DEF Refused
  <2> QED BY <1>x, <1>6, <2>1, <2>2
         DEF Refused, world, clockVars, WorldTypeOK, LandGoal, LandInv, LandBound
<1>7. CASE Created(r)
  <2>0. WorldTypeOK'
    BY <1>7 DEF Created, world, clockVars, WorldTypeOK
  <2>1. CASE Goto(r, "bind", "boot") /\ Bind(r)
    <3>1. RowsKept({r}) /\ bound'[r]
      BY <1>7, <2>1, BindWrite, KeptWeaker
         DEF Created, Goto, LandInv, world, clockVars
    <3>2. land' \in [Runs -> LandPoints] /\ land'[r] = "boot"
          /\ \A s \in Runs \ {r} : land'[s] = land[s]
      BY <2>1, <1>p, GotoPlace
    <3> QED BY <1>x, <2>0, <3>1, <3>2 DEF LandGoal, LandInv
  <2>2. CASE Goto(r, "bind", "interrupted") /\ UNCHANGED registry
    <3>1. RowsKept({r})
      BY <1>7, <2>2, NoWrite, KeptWeaker DEF Created, world, clockVars
    <3>2. land' \in [Runs -> LandPoints] /\ land'[r] = "interrupted"
          /\ \A s \in Runs \ {r} : land'[s] = land[s]
      BY <2>2, <1>p, GotoPlace
    <3> QED BY <1>x, <2>0, <3>1, <3>2 DEF LandGoal, LandInv, LandBound
  <2> QED BY <1>7, <2>1, <2>2 DEF Created
<1> QED BY <1>1, <1>2, <1>3, <1>4, <1>5, <1>6, <1>7

\* Away from the creation points a landing only relies on its row being bound.
LEMMA LandMove ==
    ASSUME land \in [Runs -> LandPoints], NEW r \in Runs, LandInv(r), NEW from,
           from # "new", NEW to \in LandPoints \ {"new", "create", "declined", "bind"},
           Goto(r, from, to), RowsKept({}), WorldTypeOK',
           to \in LandBound => bound'[r]
    PROVE  LandGoal(r)
<1>1. /\ land' \in [Runs -> LandPoints] /\ land'[r] = to
      /\ \A s \in Runs \ {r} : land'[s] = land[s]
  BY GotoPlace
<1>2. LandInv(r)'
  BY <1>1 DEF LandInv, Goto, RowsKept
<1> QED BY <1>1, <1>2, KeptWeaker DEF LandGoal

\* A lander past its creation has a bound row.
LEMMA LandIsBound ==
    ASSUME NEW r \in Runs, LandInv(r), land[r] \in LandBound, RowsKept({})
    PROVE  bound[r] /\ bound'[r]
  BY DEF LandInv, RowsKept

\* Booting, equipping, launching, and giving up on the way.
LEMMA LandLaunch ==
    ASSUME RowsOK, WorldTypeOK, land \in [Runs -> LandPoints], NEW r \in Runs,
           LandInv(r),
           \/ Boot(r) \/ Unreachable(r) \/ Interrupted(r) \/ InterruptFail(r)
           \/ Equip(r) \/ Claim(r) \/ CheckSettled(r) \/ Mark(r) \/ Start(r)
           \/ Abort(r) \/ AbortFail(r) \/ AbortCancel(r)
    PROVE  LandGoal(r)
<1> USE DEF world, clockVars
<1>p. /\ {"boot", "unreachable", "equip", "launch", "check", "mark", "start",
          "abort", "abortFail", "abortCancel", "interrupted", "interruptFail",
          "done"} \subseteq LandPoints \ {"new", "create", "declined", "bind"}
      /\ "done" \notin LandBound /\ "interrupted" \notin LandBound
  BY DEF LandPoints, LandBound
<1>b. land[r] \in LandBound => bound[r] /\ (RowsKept({}) => bound'[r])
  BY LandIsBound DEF LandInv
<1>1. CASE Boot(r)
  <2>1. RowsKept({}) /\ WorldTypeOK'
    BY <1>1, NoWrite DEF Boot, WorldTypeOK
  <2> QED BY <1>1, <1>p, <1>b, <2>1, LandMove DEF Boot, Goto, LandBound
<1>2. CASE Unreachable(r)
  <2>0. machine[r] \in {"up", "gone"}
    BY <1>2, <1>b, BoundMachine DEF Unreachable, Goto, LandBound
  <2>1. RowsKept({}) /\ WorldTypeOK'
    BY <1>2, <2>0, NoWrite, EndWrite DEF Unreachable, WorldTypeOK
  <2> QED BY <1>2, <1>p, <2>1, LandMove DEF Unreachable
<1>3. CASE Interrupted(r)
  <2>0. WorldTypeOK'
    BY <1>3 DEF Interrupted, WorldTypeOK
  <2>1. CASE Goto(r, "interrupted", "done") /\ Prepared(r, "failed", FALSE)
    <3>1. RowsKept({})
      BY <1>3, <2>1, PreparedWrite DEF Interrupted, Words
    <3> QED BY <2>0, <2>1, <3>1, <1>p, LandMove
  <2>2. CASE Goto(r, "interrupted", "interruptFail") /\ UNCHANGED registry
             /\ ~Uncreated(r) /\ ~IsSettled(r)
    <3>1. RowsKept({})
      BY <1>3, <2>2, NoWrite DEF Interrupted
    <3>2. bound[r]
      BY <2>2, SettledWords DEF Goto, LandInv, RowsOK, RowInv, Uncreated, IsSettled
    <3> QED BY <2>0, <2>2, <3>1, <3>2, <1>p, LandMove DEF RowsKept
  <2>3. CASE Goto(r, "interrupted", "done") /\ UNCHANGED registry
    <3>1. RowsKept({})
      BY <1>3, <2>3, NoWrite DEF Interrupted
    <3> QED BY <2>0, <2>3, <3>1, <1>p, LandMove
  <2> QED BY <1>3, <2>1, <2>2, <2>3 DEF Interrupted
<1>4. CASE InterruptFail(r)
  <2>1. RowsKept({}) /\ WorldTypeOK'
    BY <1>4, <1>b, ResolveWrite DEF InterruptFail, Goto, LandBound, WorldTypeOK
  <2> QED BY <1>4, <1>p, <2>1, LandMove DEF InterruptFail
<1>5. CASE Equip(r)
  <2>1. RowsKept({}) /\ WorldTypeOK'
    BY <1>5, NoWrite DEF Equip, WorldTypeOK
  <2> QED BY <1>5, <1>p, <1>b, <2>1, LandMove DEF Equip, Goto, LandBound
<1>6. CASE Claim(r)
  <2>1. RowsKept({}) /\ WorldTypeOK'
    BY <1>6, NoWrite DEF Claim, Acquire, WorldTypeOK
  <2> QED BY <1>6, <1>p, <1>b, <2>1, LandMove DEF Claim, Goto, LandBound
<1>7. CASE CheckSettled(r)
  <2>1. RowsKept({}) /\ WorldTypeOK'
    BY <1>7, NoWrite DEF CheckSettled, Release, WorldTypeOK
  <2> QED BY <1>7, <1>p, <1>b, <2>1, LandMove DEF CheckSettled, Goto, LandBound
<1>8. CASE Mark(r)
  <2>1. RowsKept({}) /\ WorldTypeOK'
    BY <1>8, DeliveryWrite DEF Mark, Deliveries, WorldTypeOK
  <2> QED BY <1>8, <1>p, <1>b, <2>1, LandMove DEF Mark, Goto, LandBound
<1>9. CASE Start(r)
  <2>1. RowsKept({}) /\ WorldTypeOK'
    BY <1>9, NoWrite DEF Start, Release, WorldTypeOK
  <2> QED BY <1>9, <1>p, <1>b, <2>1, LandMove DEF Start, Goto, LandBound
<1>10. CASE Abort(r)
  <2>1. RowsKept({}) /\ WorldTypeOK'
    BY <1>10, NoWrite DEF Abort, WorldTypeOK
  <2> QED BY <1>10, <1>p, <1>b, <2>1, LandMove DEF Abort, Goto, LandBound
<1>11. CASE AbortFail(r)
  <2>1. RowsKept({}) /\ WorldTypeOK'
    BY <1>11, <1>b, ResolveWrite DEF AbortFail, Goto, LandBound, WorldTypeOK
  <2> QED BY <1>11, <1>p, <1>b, <2>1, LandMove DEF AbortFail, Goto, LandBound
<1>12. CASE AbortCancel(r)
  <2>0. machine[r] \in {"up", "gone"}
    BY <1>12, <1>b, BoundMachine DEF AbortCancel, Goto, LandBound
  <2>1. RowsKept({}) /\ WorldTypeOK'
    BY <1>12, <2>0, NoWrite, EndWrite DEF AbortCancel, WorldTypeOK
  <2> QED BY <1>12, <1>p, <2>1, LandMove DEF AbortCancel
<1> QED BY <1>1, <1>2, <1>3, <1>4, <1>5, <1>6, <1>7, <1>8, <1>9, <1>10, <1>11,
           <1>12

\* Every step of a landing, its death included.
LEMMA LandKeeps ==
    ASSUME RowsOK, WorldTypeOK, land \in [Runs -> LandPoints], NEW r \in Runs,
           LandInv(r), LandStep(r)
    PROVE  LandGoal(r)
<1>1. CASE LandCrash(r)
  <2>1. RowsKept({}) /\ WorldTypeOK'
    BY <1>1, NoWrite DEF LandCrash, clockVars, Release, WorldTypeOK
  <2>2. Goto(r, land[r], "done") /\ land[r] # "new" /\ "done" \in LandPoints \ {"new", "create",
          "declined", "bind"} /\ "done" \notin LandBound
    BY <1>1 DEF LandCrash, Goto, LandPoints, LandBound
  <2> QED BY <2>1, <2>2, LandMove
<1>2. CASE ~LandCrash(r)
  BY <1>2, LandCreation, LandLaunch DEF LandStep
<1> QED BY <1>1, <1>2

(***************************************************************************)
(* The settling pass.                                                      *)
(***************************************************************************)
PassOthers(p) ==
    \A q \in Passes \ {p} :
        /\ point'[q] = point[q] /\ due'[q] = due[q] /\ todo'[q] = todo[q]
        /\ told'[q] = told[q] /\ at'[q] = at[q]

PassGoal(p) ==
    /\ RowsKept({}) /\ WorldTypeOK' /\ PassTypeOK'
    /\ PassInv(p)' /\ PassOthers(p)

\* A settled row stays settled.
LEMMA KeptSettled ==
    ASSUME RowsKept({}), NEW r \in Runs, IsSettled(r)
    PROVE  IsSettled(r)'
  BY DEF RowsKept, IsSettled

\* A step that only moves the pass on, at the same run.
LEMMA PassMove ==
    ASSUME PassTypeOK, NEW p \in Passes, PassInv(p), RowsKept({}), WorldTypeOK',
           NEW from, NEW to \in PassPoints \ PassResting, Move(p, from, to),
           UNCHANGED <<due, todo, told, at>>, flag' \in [Passes -> BOOLEAN],
           from \notin PassResting,
           NEW r \in Runs, r = at[p],
           to \in PassReleased => machine'[r] = "gone",
           to \notin PassExpiring => IsSettled(r)',
           to \notin PassExpiring \cup PassClosing => told[p][r] \in Words
    PROVE  PassGoal(p)
<1>1. /\ point' \in [Passes -> PassPoints] /\ point'[p] = to /\ point[p] = from
      /\ \A q \in Passes \ {p} : point'[q] = point[q]
  BY DEF Move, PassTypeOK
<1>2. PassTypeOK'
  BY <1>1 DEF PassTypeOK
<1>3. bound'[r] /\ \A s \in due[p] \cup todo[p] : bound'[s]
  BY <1>1 DEF PassInv, RowsKept, PassTypeOK
<1>4. \A s \in Runs : told[p][s] \in Settled =>
          told[p][s] \in {"ok", "failed", "vanished"} \/ IsSettled(s)'
  BY KeptSettled DEF PassInv
<1>5. PassInv(p)'
  BY <1>1, <1>3, <1>4 DEF PassInv
<1> QED BY <1>1, <1>2, <1>5 DEF PassGoal, PassOthers

\* A step after which the pass is between runs.
LEMMA PassRests ==
    ASSUME PassTypeOK, PassTypeOK', NEW p \in Passes, PassInv(p), RowsKept({}),
           WorldTypeOK', PassOthers(p), point'[p] \in PassResting,
           due'[p] \subseteq due[p], todo'[p] \subseteq todo[p],
           \A r \in Runs : told'[p][r] \in {told[p][r], Ask}
    PROVE  PassGoal(p)
<1>1. \A s \in due'[p] \cup todo'[p] : bound'[s]
  BY DEF PassInv, RowsKept, PassTypeOK
<1>2. \A s \in Runs : told'[p][s] \in Settled =>
          told'[p][s] \in {"ok", "failed", "vanished"} \/ IsSettled(s)'
  BY KeptSettled, SettledWords DEF PassInv, Ask
<1> QED BY <1>1, <1>2 DEF PassInv, PassGoal, PassResting, PassReleased

\* Leave: the run is dropped from the pass.
LEMMA LeaveRests ==
    ASSUME PassTypeOK, NEW p \in Passes, PassInv(p), RowsKept({}), WorldTypeOK',
           NEW r \in Runs, Leave(p, r)
    PROVE  PassGoal(p)
<1>1. /\ point' \in [Passes -> PassPoints] /\ point'[p] = "settle"
      /\ todo' \in [Passes -> SUBSET Runs] /\ todo'[p] \subseteq todo[p]
      /\ due' = due
  BY DEF Leave, PassTypeOK, PassPoints
<1>2. /\ at' \in [Passes -> Runs \cup {None}]
      /\ flag' \in [Passes -> BOOLEAN]
  BY DEF Leave, Take, PassTypeOK
<1>3. /\ told' \in [Passes -> [Runs -> Words \cup {Ask}]]
      /\ \A s \in Runs : told'[p][s] \in {told[p][s], Ask}
  BY DEF Leave, PassTypeOK
<1>4. PassTypeOK'
  BY <1>1, <1>2, <1>3 DEF PassTypeOK
<1>5. PassOthers(p)
  BY DEF Leave, Take, PassTypeOK, PassOthers
<1>6. point'[p] \in PassResting /\ due'[p] \subseteq due[p]
  BY <1>1 DEF PassResting
<1> QED BY <1>1, <1>3, <1>4, <1>5, <1>6, PassRests

\* Expiring: the rental is dropped from the pass.
LEMMA ExpiringRests ==
    ASSUME PassTypeOK, NEW p \in Passes, PassInv(p), RowsKept({}), WorldTypeOK',
           Expiring(p, "expire")
    PROVE  PassGoal(p)
<1>1. /\ point' \in [Passes -> PassPoints] /\ point'[p] = "expire"
      /\ due' \in [Passes -> SUBSET Runs] /\ due'[p] \subseteq due[p]
      /\ todo' = todo /\ told' = told
  BY DEF Expiring, Move, PassTypeOK, PassPoints
<1>2. /\ at' \in [Passes -> Runs \cup {None}]
      /\ flag' \in [Passes -> BOOLEAN]
  BY DEF Expiring, Take, PassTypeOK
<1>4. PassTypeOK'
  BY <1>1, <1>2 DEF PassTypeOK
<1>5. PassOthers(p)
  BY DEF Expiring, Move, Take, PassTypeOK, PassOthers
<1>6. /\ point'[p] \in PassResting /\ todo'[p] \subseteq todo[p]
      /\ \A r \in Runs : told'[p][r] \in {told[p][r], Ask}
  BY <1>1 DEF PassResting
<1> QED BY <1>1, <1>4, <1>5, <1>6, PassRests

\* A pass at work is at a bound run, with its machine up or gone.
LEMMA AtBound ==
    ASSUME RowsOK, PassTypeOK, NEW p \in Passes, PassInv(p), point[p] \notin PassResting
    PROVE  /\ at[p] \in Runs /\ bound[at[p]] /\ machine[at[p]] \in {"up", "gone"}
           /\ point[p] \in PassReleased => machine[at[p]] = "gone"
           /\ point[p] \notin PassExpiring => IsSettled(at[p])
           /\ point[p] \notin PassExpiring \cup PassClosing =>
                 told[p][at[p]] \in Words
  BY BoundMachine DEF PassInv

\* A row a listing takes up has a recorded handle.
LEMMA TrackedBound ==
    ASSUME RowsOK, NEW r \in Runs, Tracked(r), ~Uncreated(r)
    PROVE  bound[r]
  BY SettledWords DEF Tracked, Exists, Uncreated, RowsOK, RowInv, IsSettled, Closed

\* Deadlines: listing, reading, marking, ending, closing and reporting.
LEMMA ExpireKeeps ==
    ASSUME RowsOK, WorldTypeOK, PassTypeOK, NEW p \in Passes, PassInv(p),
           ExpireStep(p)
    PROVE  PassGoal(p)
<1> USE DEF world, clockVars
<1>p. /\ {"xMark", "xCancel", "xClose", "xSeal", "xReport"}
            \subseteq PassPoints \ PassResting
      /\ {"idle", "expire"} \subseteq PassPoints \cap PassResting
      /\ PassReleased \cap {"xMark", "xCancel"} = {}
      /\ {"xClose", "xSeal", "xReport"} \subseteq PassReleased
      /\ PassExpiring = {"xMark", "xCancel", "xClose"}
      /\ PassClosing = {"xSeal", "xReport"}
  BY DEF PassPoints, PassResting, PassReleased, PassExpiring, PassClosing
<1>1. CASE PassStart(p)
  <2>1. RowsKept({}) /\ WorldTypeOK'
    BY <1>1, NoWrite DEF PassStart, WorldTypeOK
  <2>2. PassTypeOK' /\ PassOthers(p) /\ point'[p] = "expire"
    BY <1>1, <1>p DEF PassStart, Move, PassTypeOK, PassOthers
  <2>3. due'[p] = {r \in Runs : IsDue(r)} /\ todo' = todo /\ told' = told
    BY <1>1 DEF PassStart, PassTypeOK
  <2>4. \A r \in due'[p] \cup todo'[p] : bound'[r]
    BY <2>1, <2>3, TrackedBound DEF IsDue, PassInv, RowsKept, PassTypeOK
  <2>5. \A s \in Runs : told'[p][s] \in Settled =>
          told'[p][s] \in {"ok", "failed", "vanished"} \/ IsSettled(s)'
    BY <2>1, <2>3, KeptSettled DEF PassInv
  <2> QED BY <2>1, <2>2, <2>4, <2>5 DEF PassInv, PassGoal, PassResting, PassReleased
<1>2. CASE \E r \in Runs : ExpireRead(p, r)
  <2>0. PICK r \in Runs : ExpireRead(p, r)
    BY <1>2
  <2>1. RowsKept({}) /\ WorldTypeOK'
    BY <2>0, NoWrite DEF ExpireRead, WorldTypeOK
  <2>2. CASE Move(p, "expire", "xMark") /\ Take(p, r, evidence[r] \in Copied)
             /\ UNCHANGED due
    <3>1. /\ PassTypeOK' /\ PassOthers(p) /\ point'[p] = "xMark" /\ at'[p] = r
          /\ UNCHANGED <<due, todo, told>>
      BY <2>0, <2>2, <1>p DEF ExpireRead, Move, Take, PassTypeOK, PassOthers
    <3>2. bound[r] /\ \A s \in due[p] \cup todo[p] : bound[s]
      BY <2>0 DEF ExpireRead, PassInv
    <3>3. bound'[r] /\ \A s \in due'[p] \cup todo'[p] : bound'[s]
      BY <2>1, <3>1, <3>2 DEF RowsKept, PassTypeOK
    <3>4. \A s \in Runs : told'[p][s] \in Settled =>
            told'[p][s] \in {"ok", "failed", "vanished"} \/ IsSettled(s)'
      BY <2>1, <3>1, KeptSettled DEF PassInv
    <3> QED BY <2>1, <3>1, <3>3, <3>4, <1>p DEF PassInv, PassGoal
  <2>3. CASE point[p] = "expire" /\ due' = [due EXCEPT ![p] = @ \ {r}]
             /\ UNCHANGED <<point, at, flag>>
    <3>1. /\ PassTypeOK' /\ PassOthers(p) /\ point'[p] = "expire"
          /\ due'[p] \subseteq due[p] /\ todo'[p] \subseteq todo[p]
          /\ \A s \in Runs : told'[p][s] \in {told[p][s], Ask}
      BY <2>0, <2>3 DEF ExpireRead, PassTypeOK, PassOthers
    <3> QED BY <2>1, <3>1, <1>p, PassRests
  <2> QED BY <2>0, <2>2, <2>3 DEF ExpireRead
<1>3. CASE ExpireMark(p)
  <2>0. at[p] \in Runs
    BY <1>3, <1>p, AtBound DEF ExpireMark, Move
  <2>1. RowsKept({}) /\ WorldTypeOK'
    <3>1. CASE Evidence(at[p], IF flag[p] THEN "copied" ELSE "unverified")
      BY <1>3, <2>0, <3>1, EvidenceWrite DEF ExpireMark, WorldTypeOK, Deliveries
    <3>2. CASE UNCHANGED <<registry, event>>
      BY <1>3, <3>2, NoWrite DEF ExpireMark, WorldTypeOK
    <3> QED BY <1>3, <3>1, <3>2 DEF ExpireMark
  <2>2. /\ Move(p, "xMark", "xCancel") /\ UNCHANGED <<due, todo, told, at>>
        /\ flag' \in [Passes -> BOOLEAN]
    BY <1>3 DEF ExpireMark, KeepRun, PassTypeOK
  <2> QED BY <2>0, <2>1, <2>2, <1>p, PassMove
<1>4. CASE ExpireCancel(p)
  <2>0. at[p] \in Runs /\ machine[at[p]] \in {"up", "gone"}
    BY <1>4, <1>p, AtBound DEF ExpireCancel
  <2>1. CASE EndMachine(at[p]) /\ Move(p, "xCancel", "xClose") /\ KeepRun
    <3>1. RowsKept({}) /\ WorldTypeOK' /\ machine'[at[p]] = "gone"
      BY <1>4, <2>0, <2>1, EndWrite DEF ExpireCancel, WorldTypeOK
    <3>2. UNCHANGED <<due, todo, told, at>> /\ flag' \in [Passes -> BOOLEAN]
      BY <2>1 DEF KeepRun, PassTypeOK
    <3> QED BY <2>0, <2>1, <3>1, <3>2, <1>p, PassMove
  <2>2. CASE UNCHANGED machine /\ Expiring(p, "expire")
    <3>1. RowsKept({}) /\ WorldTypeOK'
      BY <1>4, <2>2, NoWrite DEF ExpireCancel, WorldTypeOK
    <3> QED BY <2>2, <3>1, ExpiringRests
  <2> QED BY <1>4, <2>1, <2>2 DEF ExpireCancel
<1>5. CASE ExpireClose(p)
  <2>0. at[p] \in Runs /\ bound[at[p]] /\ machine[at[p]] = "gone"
    BY <1>5, <1>p, AtBound DEF ExpireClose, Move
  <2>1. RowsKept({}) /\ WorldTypeOK'
    BY <1>5, <2>0, ResolveWrite DEF ExpireClose, WorldTypeOK
  <2>2. PICK r \in Runs : r = at[p]
    BY <2>0
  <2>3. IsSettled(r)'
    BY <1>5, <2>0, <2>2, ResolveWrite DEF ExpireClose
  <2>4. /\ Move(p, "xClose", "xSeal") /\ UNCHANGED <<due, todo, told, at>>
        /\ flag' \in [Passes -> BOOLEAN] /\ machine'[r] = "gone"
    BY <1>5, <2>0, <2>2 DEF ExpireClose, KeepRun, PassTypeOK
  <2> QED BY <2>1, <2>2, <2>3, <2>4, <1>p, PassMove
<1>6. CASE ExpireSeal(p)
  <2>0. at[p] \in Runs /\ machine[at[p]] = "gone" /\ IsSettled(at[p])
    BY <1>6, <1>p, AtBound DEF ExpireSeal, Move
  <2>1. RowsKept({}) /\ WorldTypeOK'
    BY <1>6, <2>0, EvidenceWrite DEF ExpireSeal, WorldTypeOK, Deliveries
  <2>2. PICK r \in Runs : r = at[p]
    BY <2>0
  <2>3. IsSettled(r)' /\ machine'[r] = "gone"
    BY <2>0, <2>1, <2>2, KeptSettled DEF RowsKept
  <2>4. /\ Move(p, "xSeal", "xReport") /\ UNCHANGED <<due, todo, told, at>>
        /\ flag' \in [Passes -> BOOLEAN]
    BY <1>6 DEF ExpireSeal, KeepRun, PassTypeOK
  <2> QED BY <2>1, <2>2, <2>3, <2>4, <1>p, PassMove
<1>7. CASE ExpireReport(p)
  <2>0. at[p] \in Runs /\ bound[at[p]] /\ machine[at[p]] = "gone" /\ IsSettled(at[p])
    BY <1>7, <1>p, AtBound DEF ExpireReport
  <2>1. verdict[at[p]] \in Words
    BY <2>0 DEF IsSettled, Settled
  <2>2. RowsKept({}) /\ WorldTypeOK'
    BY <1>7, <2>0, <2>1, ReportWrite DEF ExpireReport, WorldTypeOK
  <2> QED BY <1>7, <2>2, ExpiringRests DEF ExpireReport
<1>8. CASE ExpireStuck(p)
  <2>1. RowsKept({}) /\ WorldTypeOK'
    BY <1>8, NoWrite DEF ExpireStuck, WorldTypeOK
  <2> QED BY <1>8, <2>1, ExpiringRests DEF ExpireStuck
<1> QED BY <1>1, <1>2, <1>3, <1>4, <1>5, <1>6, <1>7, <1>8 DEF ExpireStep

\* The sweep: claiming the lock, polling, and settling on what was learned.
LEMMA SweepKeeps ==
    ASSUME RowsOK, WorldTypeOK, PassTypeOK, NEW p \in Passes, PassInv(p),
           \/ PassClaim(p) \/ PassBusy(p) \/ PassDone(p) \/ PassCrash(p)
           \/ \E r \in Runs : Poll(p, r) \/ Settle(p, r)
    PROVE  PassGoal(p)
<1> USE DEF world, clockVars
<1>p. /\ {"recover", "collect", "uRelease"} \subseteq PassPoints \
              (PassResting \cup PassExpiring \cup PassClosing \cup PassReleased)
      /\ {"idle", "expire", "settle"} \subseteq PassPoints \cap PassResting
  BY DEF PassPoints, PassResting, PassReleased, PassExpiring, PassClosing
<1>1. CASE PassClaim(p)
  <2>1. RowsKept({}) /\ WorldTypeOK'
    BY <1>1, NoWrite DEF PassClaim, Acquire, WorldTypeOK
  <2>2. PassOthers(p) /\ point'[p] = "settle"
    BY <1>1, <1>p DEF PassClaim, Move, PassTypeOK, PassOthers
  <2>3. /\ todo'[p] = {r \in Runs : IsSwept(r)} /\ due' = due
        /\ told'[p] = [r \in Runs |-> IF IsSwept(r) /\ IsSettled(r)
                                      THEN verdict[r] ELSE Ask]
    BY <1>1 DEF PassClaim, PassTypeOK
  <2>4. told'[p] \in [Runs -> Words \cup {Ask}]
    BY <2>3 DEF IsSettled, Settled
  <2>5. PassTypeOK'
    <3>1. point' \in [Passes -> PassPoints] /\ due' \in [Passes -> SUBSET Runs]
          /\ todo' \in [Passes -> SUBSET Runs]
      BY <1>1, <1>p DEF PassClaim, Move, PassTypeOK
    <3>2. told' \in [Passes -> [Runs -> Words \cup {Ask}]]
      BY <1>1, <2>4 DEF PassClaim, PassTypeOK
    <3> QED BY <1>1, <3>1, <3>2 DEF PassClaim, PassTypeOK
  <2>6. \A r \in due'[p] \cup todo'[p] : bound'[r]
    BY <2>1, <2>3, TrackedBound DEF IsSwept, PassInv, RowsKept, PassTypeOK
  <2>7. \A s \in Runs : told'[p][s] \in Settled => IsSettled(s)'
    BY <2>1, <2>3, KeptSettled, SettledWords DEF Ask
  <2> QED BY <2>1, <2>2, <2>5, <2>6, <2>7
         DEF PassInv, PassGoal, PassResting, PassReleased
<1>2. CASE PassBusy(p)
  <2>1. RowsKept({}) /\ WorldTypeOK'
    BY <1>2, NoWrite DEF PassBusy, WorldTypeOK
  <2>2. /\ PassTypeOK' /\ PassOthers(p) /\ point'[p] = "idle"
        /\ due'[p] \subseteq due[p] /\ todo'[p] \subseteq todo[p]
        /\ \A s \in Runs : told'[p][s] \in {told[p][s], Ask}
    BY <1>2, <1>p DEF PassBusy, Move, KeepRun, PassTypeOK, PassOthers
  <2> QED BY <2>1, <2>2, <1>p, PassRests
<1>3. CASE PassDone(p)
  <2>1. RowsKept({}) /\ WorldTypeOK'
    BY <1>3, NoWrite DEF PassDone, Release, WorldTypeOK
  <2>2. /\ PassTypeOK' /\ PassOthers(p) /\ point'[p] = "idle"
        /\ due'[p] \subseteq due[p] /\ todo'[p] \subseteq todo[p]
        /\ \A s \in Runs : told'[p][s] \in {told[p][s], Ask}
    BY <1>3, <1>p DEF PassDone, Move, KeepRun, PassTypeOK, PassOthers
  <2> QED BY <2>1, <2>2, <1>p, PassRests
<1>4. CASE PassCrash(p)
  <2>1. RowsKept({}) /\ WorldTypeOK'
    BY <1>4, NoWrite DEF PassCrash, Release, WorldTypeOK
  <2>2. /\ PassOthers(p) /\ point'[p] = "idle" /\ due'[p] = {} /\ todo'[p] = {}
        /\ told'[p] = Unasked
    BY <1>4 DEF PassCrash, Take, PassTypeOK, PassOthers
  <2>3. Unasked \in [Runs -> Words \cup {Ask}] /\ \A s \in Runs : Unasked[s] = Ask
    BY DEF Unasked
  <2>4. PassTypeOK'
    BY <1>4, <1>p, <2>3 DEF PassCrash, Take, PassTypeOK
  <2> QED BY <2>1, <2>2, <2>3, <2>4, <1>p, PassRests
<1>5. ASSUME NEW r \in Runs, Poll(p, r) PROVE PassGoal(p)
  <2>1. RowsKept({}) /\ WorldTypeOK'
    BY <1>5, NoWrite DEF Poll, WorldTypeOK
  <2>2. CASE Leave(p, r)
    BY <2>1, <2>2, LeaveRests
  <2>3. CASE /\ \E w \in Polled(r) : told' = [told EXCEPT ![p][r] = w]
             /\ UNCHANGED <<point, due, todo, at, flag>>
    <3>0. PICK w \in Polled(r) : told' = [told EXCEPT ![p][r] = w]
      BY <2>3
    <3>1. w \in {"running", "ok", "failed", "vanished"}
      BY <3>0 DEF Polled, Ended, WorldTypeOK
    <3>2. /\ told'[p] = [told[p] EXCEPT ![r] = w] /\ PassOthers(p)
          /\ told' \in [Passes -> [Runs -> Words \cup {Ask}]]
      BY <2>3, <3>0, <3>1 DEF PassTypeOK, PassOthers, Words
    <3>3. PassTypeOK'
      BY <2>3, <3>2 DEF PassTypeOK
    <3>4. \A s \in Runs : told'[p][s] \in Settled =>
            told'[p][s] \in {"ok", "failed", "vanished"} \/ IsSettled(s)'
      <4> SUFFICES ASSUME NEW s \in Runs, told'[p][s] \in Settled
                   PROVE told'[p][s] \in {"ok", "failed", "vanished"} \/ IsSettled(s)'
        OBVIOUS
      <4>1. CASE s = r
        BY <4>1, <3>1, <3>2, SettledWords DEF PassTypeOK
      <4>2. CASE s # r
        BY <4>2, <2>1, <3>2, KeptSettled DEF PassInv, PassTypeOK
      <4> QED BY <4>1, <4>2
    <3>5. \A s \in due'[p] \cup todo'[p] : bound'[s]
      BY <2>1, <2>3 DEF PassInv, RowsKept, PassTypeOK
    <3>6. point'[p] = "settle"
      BY <1>5, <2>3 DEF Poll
    <3> QED BY <2>1, <3>2, <3>3, <3>4, <3>5, <3>6
           DEF PassInv, PassGoal, PassResting, PassReleased
  <2> QED BY <1>5, <2>2, <2>3 DEF Poll
<1>6. ASSUME NEW r \in Runs, Settle(p, r) PROVE PassGoal(p)
  <2>0. bound[r] /\ stopped[r] \in BOOLEAN
    BY <1>6 DEF Settle, PassInv, RowsOK, RegistryTypeOK
  <2>1. RowsKept({}) /\ WorldTypeOK'
    BY <1>6, <2>0, ResolveWrite DEF Settle, WorldTypeOK
  <2>2. CASE Leave(p, r)
    BY <2>1, <2>2, LeaveRests
  <2>3. CASE /\ told[p][r] \in Settled
             /\ \/ Move(p, "settle", "uRelease")
                \/ Move(p, "settle", "recover")
                \/ Move(p, "settle", "collect")
             /\ Take(p, r, Discarded(r))
             /\ UNCHANGED <<due, todo, told>>
    <3>1. told[p][r] \in {"ok", "failed", "vanished"} \/ IsSettled(r)
      BY <2>3 DEF PassInv
    <3>2. IsSettled(r)'
      BY <1>6, <2>0, <2>1, <3>1, ResolveWrite, KeptSettled DEF Settle
    <3>3. /\ point'[p] \in {"uRelease", "recover", "collect"} /\ at'[p] = r
          /\ PassOthers(p)
      BY <2>3 DEF Move, Take, PassTypeOK, PassOthers
    <3>4. Discarded(r) \in BOOLEAN
      BY <2>0 DEF Discarded
    <3>5. PassTypeOK'
      BY <2>3, <3>4, <1>p DEF Move, Take, PassTypeOK
    <3>6. bound'[r] /\ \A s \in due'[p] \cup todo'[p] : bound'[s]
      BY <2>0, <2>1, <2>3 DEF PassInv, RowsKept, PassTypeOK
    <3>7. \A s \in Runs : told'[p][s] \in Settled =>
            told'[p][s] \in {"ok", "failed", "vanished"} \/ IsSettled(s)'
      BY <2>1, <2>3, KeptSettled DEF PassInv
    <3>8. told'[p][r] \in Words
      BY <2>3 DEF Settled
    <3>9. PassInv(p)'
      BY <3>2, <3>3, <3>6, <3>7, <3>8, <1>p DEF PassInv
    <3> QED BY <2>1, <3>3, <3>5, <3>9 DEF PassGoal
  <2> QED BY <1>6, <2>2, <2>3 DEF Settle
<1> QED BY <1>1, <1>2, <1>3, <1>4, <1>5, <1>6

\* A harvesting step that moves on at the same run.
LEMMA HarvestMove ==
    ASSUME RowsOK, PassTypeOK, NEW p \in Passes, PassInv(p), RowsKept({}),
           WorldTypeOK', NEW from, NEW to, Move(p, from, to),
           {from, to} \subseteq PassPoints \
              (PassResting \cup PassExpiring \cup PassClosing),
           UNCHANGED <<due, todo, told, at>>, flag' \in [Passes -> BOOLEAN],
           to \in PassReleased => machine'[at[p]] = "gone"
    PROVE  PassGoal(p)
<1>1. point[p] = from
  BY DEF Move
<1>2. at[p] \in Runs /\ IsSettled(at[p]) /\ told[p][at[p]] \in Words
  BY <1>1, AtBound
<1>3. PICK r \in Runs : r = at[p]
  BY <1>2
<1>4. IsSettled(r)'
  BY <1>2, <1>3, KeptSettled
<1> QED BY <1>1, <1>2, <1>3, <1>4, PassMove

\* Collecting, verifying, releasing, sealing and reporting one run.
LEMMA HarvestKeeps ==
    ASSUME RowsOK, WorldTypeOK, PassTypeOK, NEW p \in Passes, PassInv(p),
           \/ Collect(p) \/ Recover(p) \/ HarvestPending(p) \/ HarvestCopied(p)
           \/ HarvestRelease(p) \/ HarvestRetry(p) \/ HarvestSeal(p)
           \/ HarvestReport(p)
           \/ UnlaunchedRelease(p) \/ UnlaunchedMark(p) \/ UnlaunchedReport(p)
    PROVE  PassGoal(p)
<1> USE DEF world, clockVars
<1> DEFINE Harvest == PassPoints \ (PassResting \cup PassExpiring \cup PassClosing)
<1>p. /\ {"collect", "recover", "hPending", "hCopied", "hRelease", "hRetry", "hSeal",
          "hReport", "uRelease", "uMark", "uReport"} \subseteq Harvest
      /\ {"hPending", "hCopied", "hRelease", "hRetry"} \cap PassReleased = {}
      /\ {"hSeal", "hReport", "uMark", "uReport"} \subseteq PassReleased
  BY DEF PassPoints, PassResting, PassExpiring, PassClosing, PassReleased
<1>a. /\ point[p] \in Harvest /\ at[p] \in Runs /\ bound[at[p]]
      /\ machine[at[p]] \in {"up", "gone"} /\ IsSettled(at[p])
      /\ told[p][at[p]] \in Words
      /\ point[p] \in PassReleased => machine[at[p]] = "gone"
  <2>1. point[p] \in Harvest
    BY <1>p DEF Collect, Recover, HarvestPending, HarvestCopied, HarvestRelease,
                HarvestRetry, HarvestSeal, HarvestReport, UnlaunchedRelease,
                UnlaunchedMark, UnlaunchedReport, Move
  <2> QED BY <2>1, AtBound
<1>v. ASSUME Verified(p), RowsKept({}), WorldTypeOK' PROVE PassGoal(p)
  <2>1. /\ UNCHANGED <<due, todo, told, at>> /\ flag' \in [Passes -> BOOLEAN]
        /\ \E to \in {"hPending", "hCopied"} : Move(p, point[p], to)
    BY <1>v DEF Verified, PassTypeOK
  <2> HIDE DEF Harvest
  <2> QED BY <2>1, <1>v, <1>a, <1>p, HarvestMove DEF Harvest
<1>1. CASE Collect(p)
  <2>1. RowsKept({}) /\ WorldTypeOK'
    BY <1>1, <1>a, NoWrite DEF Collect, ReadLog, WorldTypeOK
  <2>2. CASE Verified(p)
    BY <2>1, <2>2, <1>v
  <2>3. CASE Move(p, "collect", "hPending") /\ KeepRun
    BY <2>1, <2>3, <1>p, HarvestMove DEF KeepRun, PassTypeOK
  <2> QED BY <1>1, <2>2, <2>3 DEF Collect
<1>2. CASE Recover(p)
  <2>1. RowsKept({}) /\ WorldTypeOK'
    BY <1>2, NoWrite DEF Recover, WorldTypeOK
  <2>2. CASE Verified(p)
    BY <2>1, <2>2, <1>v
  <2>3. CASE Move(p, "recover", "hPending") /\ KeepRun
    BY <2>1, <2>3, <1>p, HarvestMove DEF KeepRun, PassTypeOK
  <2> QED BY <1>2, <2>2, <2>3 DEF Recover
<1>3. CASE HarvestPending(p)
  <2>1. RowsKept({}) /\ WorldTypeOK'
    BY <1>3, <1>a, EvidenceWrite DEF HarvestPending, WorldTypeOK, Deliveries
  <2> QED BY <1>3, <1>a, <2>1, LeaveRests DEF HarvestPending
<1>4. CASE HarvestCopied(p)
  <2>1. RowsKept({}) /\ WorldTypeOK'
    BY <1>4, <1>a, EvidenceWrite DEF HarvestCopied, WorldTypeOK, Deliveries
  <2>2. Move(p, "hCopied", "hRelease") /\ KeepRun
    BY <1>4 DEF HarvestCopied
  <2> QED BY <2>1, <2>2, <1>p, HarvestMove DEF KeepRun, PassTypeOK
<1>5. CASE HarvestRelease(p)
  <2>0. KeepRun
    BY <1>5 DEF HarvestRelease
  <2>1. CASE Move(p, "hRelease", "hSeal") /\ EndMachine(at[p])
    <3>1. RowsKept({}) /\ WorldTypeOK' /\ machine'[at[p]] = "gone"
      BY <1>5, <1>a, <2>1, EndWrite DEF HarvestRelease, WorldTypeOK
    <3> QED BY <2>0, <2>1, <3>1, <1>p, HarvestMove DEF KeepRun, PassTypeOK
  <2>2. CASE Move(p, "hRelease", "hRetry") /\ UNCHANGED machine
    <3>1. RowsKept({}) /\ WorldTypeOK'
      BY <1>5, <2>2, NoWrite DEF HarvestRelease, WorldTypeOK
    <3> QED BY <2>0, <2>2, <3>1, <1>p, HarvestMove DEF KeepRun, PassTypeOK
  <2> QED BY <1>5, <2>1, <2>2 DEF HarvestRelease
<1>6. CASE HarvestRetry(p)
  <2>1. RowsKept({}) /\ WorldTypeOK'
    BY <1>6, <1>a, EvidenceWrite DEF HarvestRetry, WorldTypeOK, Deliveries
  <2> QED BY <1>6, <1>a, <2>1, LeaveRests DEF HarvestRetry
<1>7. CASE HarvestSeal(p)
  <2>1. RowsKept({}) /\ WorldTypeOK'
    BY <1>7, <1>a, EvidenceWrite DEF HarvestSeal, WorldTypeOK, Deliveries
  <2>2. /\ Move(p, "hSeal", "hReport") /\ KeepRun /\ machine' = machine
        /\ point[p] = "hSeal"
    BY <1>7 DEF HarvestSeal, Move
  <2> QED BY <2>1, <2>2, <1>a, <1>p, HarvestMove DEF KeepRun, PassTypeOK
<1>8. CASE HarvestReport(p)
  <2>1. RowsKept({}) /\ WorldTypeOK'
    BY <1>8, <1>a, <1>p, ReportWrite DEF HarvestReport, WorldTypeOK
  <2> QED BY <1>8, <1>a, <2>1, LeaveRests DEF HarvestReport
<1>9. CASE UnlaunchedRelease(p)
  <2>1. CASE /\ EndMachine(at[p]) /\ KeepRun
             /\ Move(p, "uRelease", IF flag[p] THEN "uReport" ELSE "uMark")
    <3>1. RowsKept({}) /\ WorldTypeOK' /\ machine'[at[p]] = "gone"
      BY <1>9, <1>a, <2>1, EndWrite DEF UnlaunchedRelease, WorldTypeOK
    <3>2. \E to \in {"uReport", "uMark"} : Move(p, "uRelease", to)
      BY <2>1
    <3> QED BY <2>1, <3>1, <3>2, <1>p, HarvestMove DEF KeepRun, PassTypeOK
  <2>2. CASE UNCHANGED machine /\ Leave(p, at[p])
    <3>1. RowsKept({}) /\ WorldTypeOK'
      BY <1>9, <2>2, NoWrite DEF UnlaunchedRelease, WorldTypeOK
    <3> QED BY <2>2, <3>1, <1>a, LeaveRests
  <2> QED BY <1>9, <2>1, <2>2 DEF UnlaunchedRelease
<1>10. CASE UnlaunchedMark(p)
  <2>1. RowsKept({}) /\ WorldTypeOK'
    BY <1>10, <1>a, EvidenceWrite DEF UnlaunchedMark, WorldTypeOK, Deliveries
  <2>2. /\ Move(p, "uMark", "uReport") /\ KeepRun /\ machine' = machine
        /\ point[p] = "uMark"
    BY <1>10 DEF UnlaunchedMark, Move
  <2> QED BY <2>1, <2>2, <1>a, <1>p, HarvestMove DEF KeepRun, PassTypeOK
<1>11. CASE UnlaunchedReport(p)
  <2>1. RowsKept({}) /\ WorldTypeOK'
    BY <1>11, <1>a, <1>p, ReportWrite DEF UnlaunchedReport, WorldTypeOK
  <2> QED BY <1>11, <1>a, <2>1, LeaveRests DEF UnlaunchedReport
<1> QED BY <1>1, <1>2, <1>3, <1>4, <1>5, <1>6, <1>7, <1>8, <1>9, <1>10, <1>11

\* Every step of a settling pass, its death included.
LEMMA PassKeeps ==
    ASSUME RowsOK, WorldTypeOK, PassTypeOK, NEW p \in Passes, PassInv(p),
           PassStep(p)
    PROVE  PassGoal(p)
  BY ExpireKeeps, SweepKeeps, HarvestKeeps DEF PassStep, SettleStep

(***************************************************************************)
(* The stopper.                                                            *)
(***************************************************************************)
StopOthers(s) ==
    \A t \in Stoppers \ {s} :
        stage'[t] = stage[t] /\ run'[t] = run[t] /\ said'[t] = said[t]

StopGoal(s) ==
    /\ RowsKept({}) /\ WorldTypeOK' /\ StopTypeOK'
    /\ StopInv(s)' /\ StopOthers(s)

\* A stopper that quits relies on nothing.
LEMMA QuitRests ==
    ASSUME StopTypeOK, NEW s \in Stoppers, Quit(s), RowsKept({}), WorldTypeOK'
    PROVE  StopGoal(s)
<1>1. /\ stage' \in [Stoppers -> StopPoints] /\ run' \in [Stoppers -> Runs \cup {None}]
      /\ stage'[s] = "idle"
  BY DEF Quit, StopTypeOK, StopPoints
<1>2. /\ ended' \in [Stoppers -> {"cancelled", "ok", "failed"}]
      /\ said' \in [Stoppers -> Words \cup {Unresolved}] /\ said'[s] = "cancelled"
  BY DEF Quit, StopTypeOK, Words
<1>3. StopOthers(s)
  BY DEF Quit, StopTypeOK, StopOthers
<1> QED BY <1>1, <1>2, <1>3, SettledWords DEF StopGoal, StopInv, StopTypeOK

\* A stopper that moves on with its run and its answer.
LEMMA StopMove ==
    ASSUME StopTypeOK, NEW s \in Stoppers, StopInv(s), RowsKept({}), WorldTypeOK',
           NEW from, NEW to \in StopPoints, Advance(s, from, to), KeepStop,
           from \notin {"idle", "unprepare"}, to \notin {"idle", "unprepare"},
           NEW r \in Runs, r = run[s],
           to \in {"seal", "report"} => machine'[r] = "gone",
           to \in {"release", "seal", "report"} => IsSettled(r)',
           to \notin {"abandon", "forsake", "disown"},
           to \in {"capture", "preserve", "kill", "stop"} =>
              said[s] \in {"cancelled", "ok", "failed"} \/ IsSettled(r)
    PROVE  StopGoal(s)
<1>1. /\ stage' \in [Stoppers -> StopPoints] /\ stage'[s] = to /\ stage[s] = from
      /\ \A t \in Stoppers \ {s} : stage'[t] = stage[t]
  BY DEF Advance, StopTypeOK
<1>2. StopTypeOK' /\ StopOthers(s)
  BY <1>1 DEF KeepStop, StopTypeOK, StopOthers
<1>3. bound'[r]
  BY <1>1 DEF StopInv, RowsKept
<1>4. IsSettled(r) => IsSettled(r)'
  BY KeptSettled
<1>5. StopInv(s)'
  BY <1>1, <1>3, <1>4 DEF StopInv, KeepStop
<1> QED BY <1>2, <1>5 DEF StopGoal

\* Taking a run up, and giving up one that was never created.
LEMMA StopClaims ==
    ASSUME RowsOK, WorldTypeOK, StopTypeOK, NEW s \in Stoppers, StopInv(s),
           \/ \E r \in Runs, word \in Endings : StopClaim(s, r, word)
           \/ Unprepare(s) \/ StopCrash(s)
    PROVE  StopGoal(s)
<1> USE DEF clockVars
<1>1. ASSUME NEW r \in Runs, NEW word \in Endings, StopClaim(s, r, word)
      PROVE  StopGoal(s)
  <2>1. RowsKept({}) /\ WorldTypeOK'
    BY <1>1, NoWrite DEF StopClaim, SettlesOn, Acquire, WorldTypeOK
  <2>2. Way(r) \in {"unprepare", "abandon", "capture"}
    BY DEF Way
  <2>3. /\ stage'[s] = Way(r) /\ run'[s] = r /\ StopOthers(s)
        /\ said'[s] = IF IsSettled(r) THEN verdict[r] ELSE word
    BY <1>1 DEF StopClaim, SettlesOn, StopTypeOK, StopOthers
  <2>4. word \in {"cancelled", "ok", "failed"}
    BY StoppingAssumption
  <2>5. said'[s] \in Settled
    BY <2>3, <2>4, SettledWords DEF IsSettled
  <2>6. StopTypeOK'
    <3>1. stage' \in [Stoppers -> StopPoints] /\ run' \in [Stoppers -> Runs \cup {None}]
      BY <1>1, <2>2 DEF StopClaim, SettlesOn, StopTypeOK, StopPoints
    <3>2. (IF IsSettled(r) THEN verdict[r] ELSE word) \in Words
      BY <2>3, <2>5 DEF Settled
    <3>3. /\ ended' \in [Stoppers -> {"cancelled", "ok", "failed"}]
          /\ said' \in [Stoppers -> Words \cup {Unresolved}]
      BY <1>1, <2>4, <3>2 DEF StopClaim, SettlesOn, StopTypeOK
    <3> QED BY <3>1, <3>3 DEF StopTypeOK
  <2>7. Way(r) # "unprepare" => bound'[r]
    <3>1. Way(r) # "unprepare" => ~Uncreated(r) /\ Tracked(r)
      BY <1>1 DEF Way, StopClaim, SettlesOn, IsPrepared, IsSubmitting, Uncreated, Pending, Tracked
    <3> QED BY <2>1, <3>1, TrackedBound DEF RowsKept
  <2>8. Way(r) = "abandon" => ~declared'
    BY <1>1 DEF Way, StopClaim, SettlesOn
  <2>9. said'[s] \in {"cancelled", "ok", "failed"} \/ IsSettled(r)'
    BY <2>1, <2>3, <2>4, KeptSettled
  <2>10. StopInv(s)'
    BY <2>2, <2>3, <2>5, <2>7, <2>8, <2>9 DEF StopInv
  <2> QED BY <2>1, <2>3, <2>6, <2>10 DEF StopGoal
<1>2. CASE Unprepare(s)
  <2>0. run[s] \in Runs
    BY <1>2 DEF Unprepare, StopInv
  <2>1. RowsKept({})
    BY <1>2, <2>0, PreparedWrite, NoWrite DEF Unprepare, Words
  <2>2. WorldTypeOK'
    BY <1>2 DEF Unprepare, Quit, Release, WorldTypeOK
  <2> QED BY <1>2, <2>1, <2>2, QuitRests DEF Unprepare
<1>3. CASE StopCrash(s)
  <2>1. RowsKept({}) /\ WorldTypeOK'
    BY <1>3, NoWrite DEF StopCrash, Quit, Release, WorldTypeOK
  <2> QED BY <1>3, <2>1, QuitRests DEF StopCrash
<1> QED BY <1>1, <1>2, <1>3

\* A run of an undeclared host, closed without asking anyone.
LEMMA StopAbandons ==
    ASSUME RowsOK, WorldTypeOK, StopTypeOK, NEW s \in Stoppers, StopInv(s),
           Abandon(s) \/ Forsake(s) \/ Disown(s)
    PROVE  StopGoal(s)
<1> USE DEF world, clockVars
<1>a. run[s] \in Runs /\ bound[run[s]] /\ ~declared
  BY DEF Abandon, Forsake, Disown, Advance, StopInv
<1>r. PICK r \in Runs : r = run[s]
  BY <1>a
<1>1. CASE Abandon(s)
  <2>1. RowsKept({}) /\ WorldTypeOK'
    BY <1>1, <1>a, EvidenceWrite DEF Abandon, WorldTypeOK, Deliveries
  <2>2. /\ stage'[s] = "forsake" /\ stage[s] = "abandon" /\ StopTypeOK'
        /\ StopOthers(s) /\ UNCHANGED <<run, ended, said>>
    BY <1>1 DEF Abandon, Advance, KeepStop, StopTypeOK, StopOthers, StopPoints
  <2>3. bound'[r] /\ ~declared'
    BY <1>1, <1>a, <1>r, <2>1 DEF Abandon, RowsKept
  <2>4. StopInv(s)'
    BY <1>r, <2>2, <2>3 DEF StopInv
  <2> QED BY <2>1, <2>2, <2>4 DEF StopGoal
<1>2. CASE Forsake(s)
  <2>1. RowsKept({}) /\ WorldTypeOK'
    BY <1>2, <1>a, ResolveWrite DEF Forsake, WorldTypeOK
  <2>2. IsSettled(r)'
    BY <1>2, <1>a, <1>r, ResolveWrite DEF Forsake
  <2>3. verdict'[r] \in Settled /\ verdict'[r] \in Words
    BY <2>2 DEF IsSettled, Settled
  <2>4. /\ stage'[s] = "disown" /\ run'[s] = r /\ said'[s] = verdict'[r]
        /\ StopOthers(s)
    BY <1>2, <1>r DEF Forsake, Advance, StopTypeOK, StopOthers
  <2>5. StopTypeOK'
    BY <1>2, <1>r, <2>3 DEF Forsake, Advance, StopTypeOK, StopPoints
  <2>6. bound'[r] /\ ~declared'
    BY <1>2, <1>a, <1>r, <2>1 DEF Forsake, RowsKept
  <2>7. StopInv(s)'
    BY <2>2, <2>3, <2>4, <2>6 DEF StopInv
  <2> QED BY <2>1, <2>4, <2>5, <2>7 DEF StopGoal
<1>3. CASE Disown(s)
  <2>0. IsSettled(run[s]) /\ said[s] \in Words
    BY <1>3 DEF Disown, StopInv, Settled
  <2>1. RowsKept({})
    BY <1>3, <1>a, <2>0, ReportWrite DEF Disown
  <2>2. WorldTypeOK'
    BY <1>3 DEF Disown, Quit, Release, WorldTypeOK
  <2> QED BY <1>3, <2>1, <2>2, QuitRests DEF Disown
<1> QED BY <1>1, <1>2, <1>3

\* Evidence, stop, verdict, release and report, in that order.
LEMMA StopReleases ==
    ASSUME RowsOK, WorldTypeOK, StopTypeOK, NEW s \in Stoppers, StopInv(s),
           \/ Capture(s) \/ Preserve(s) \/ Kill(s) \/ Stop(s) \/ StopRelease(s)
           \/ StopSeal(s) \/ StopReport(s)
    PROVE  StopGoal(s)
<1> USE DEF world, clockVars
<1>p. {"preserve", "kill", "stop", "release", "seal", "report"} \subseteq StopPoints
  BY DEF StopPoints
<1>a. run[s] \in Runs /\ bound[run[s]] /\ machine[run[s]] \in {"up", "gone"}
  <2>1. stage[s] \notin {"idle", "unprepare"}
    BY DEF Capture, Preserve, Kill, Stop, StopRelease, StopSeal, StopReport, Advance
  <2> QED BY <2>1, BoundMachine DEF StopInv
<1>r. PICK r \in Runs : r = run[s]
  BY <1>a
<1>s. stage[s] \in {"capture", "preserve", "kill", "stop"} =>
          said[s] \in {"cancelled", "ok", "failed"} \/ IsSettled(r)
  BY <1>r DEF StopInv
<1>1. CASE Capture(s)
  <2>1. RowsKept({}) /\ WorldTypeOK'
    BY <1>1, <1>a, NoWrite DEF Capture, ReadLog, WorldTypeOK
  <2>2. Advance(s, "capture", "preserve") /\ KeepStop /\ stage[s] = "capture"
    BY <1>1 DEF Capture, Advance
  <2> QED BY <2>1, <2>2, <1>r, <1>s, <1>p, StopMove
<1>2. CASE Preserve(s)
  <2>1. RowsKept({}) /\ WorldTypeOK'
    BY <1>2, <1>a, EvidenceWrite DEF Preserve, WorldTypeOK, Deliveries
  <2>2. /\ \E to \in {"kill", "stop"} : Advance(s, "preserve", to)
        /\ KeepStop /\ stage[s] = "preserve"
    BY <1>2 DEF Preserve, Advance
  <2> QED BY <2>1, <2>2, <1>r, <1>s, <1>p, StopMove
<1>3. CASE Kill(s)
  <2>1. CASE Advance(s, "kill", "stop") /\ EndMachine(run[s]) /\ UNCHANGED lock
             /\ KeepStop
    <3>1. RowsKept({}) /\ WorldTypeOK'
      BY <1>3, <2>1, <1>a, EndWrite DEF Kill, WorldTypeOK
    <3>2. stage[s] = "kill"
      BY <2>1 DEF Advance
    <3> QED BY <2>1, <3>1, <3>2, <1>r, <1>s, <1>p, StopMove
  <2>2. CASE UNCHANGED machine /\ Quit(s)
    <3>1. RowsKept({}) /\ WorldTypeOK'
      BY <1>3, <2>2, NoWrite DEF Kill, Quit, Release, WorldTypeOK
    <3> QED BY <2>2, <3>1, QuitRests
  <2> QED BY <1>3, <2>1, <2>2 DEF Kill
<1>4. CASE Stop(s)
  <2>0. stage[s] = "stop" /\ (ended[s] = "cancelled") \in BOOLEAN
    BY <1>4 DEF Stop, Advance
  <2>1. RowsKept({}) /\ WorldTypeOK'
    BY <1>4, <2>0, <1>a, ResolveWrite DEF Stop, WorldTypeOK
  <2>2. IsSettled(r)'
    BY <1>4, <2>0, <2>1, <1>a, <1>r, <1>s, ResolveWrite, KeptSettled DEF Stop
  <2>3. Advance(s, "stop", "release") /\ KeepStop
    BY <1>4 DEF Stop
  <2> QED BY <2>1, <2>2, <2>3, <1>r, <1>p, StopMove
<1>5. CASE StopRelease(s)
  <2>0. stage[s] = "release" /\ IsSettled(r)
    BY <1>5, <1>r DEF StopRelease, Advance, StopInv
  <2>1. CASE Advance(s, "release", "seal") /\ EndMachine(run[s])
             /\ UNCHANGED lock /\ KeepStop
    <3>1. RowsKept({}) /\ WorldTypeOK' /\ machine'[run[s]] = "gone"
      BY <1>5, <2>1, <1>a, EndWrite DEF StopRelease, WorldTypeOK
    <3>2. IsSettled(r)'
      BY <2>0, <3>1, KeptSettled
    <3> QED BY <2>1, <3>1, <3>2, <1>r, <1>p, StopMove
  <2>2. CASE UNCHANGED machine /\ Quit(s)
    <3>1. RowsKept({}) /\ WorldTypeOK'
      BY <1>5, <2>2, NoWrite DEF StopRelease, Quit, Release, WorldTypeOK
    <3> QED BY <2>2, <3>1, QuitRests
  <2> QED BY <1>5, <2>1, <2>2 DEF StopRelease
<1>6. CASE StopSeal(s)
  <2>0. /\ stage[s] = "seal" /\ IsSettled(r) /\ machine[r] = "gone"
        /\ Advance(s, "seal", "report") /\ KeepStop
    BY <1>6, <1>r DEF StopSeal, Advance, StopInv
  <2>1. RowsKept({}) /\ WorldTypeOK'
    <3>1. CASE Evidence(run[s], "verified")
      BY <1>6, <3>1, <1>a, EvidenceWrite DEF StopSeal, WorldTypeOK, Deliveries
    <3>2. CASE UNCHANGED <<registry, event>>
      BY <1>6, <3>2, NoWrite DEF StopSeal, WorldTypeOK
    <3> QED BY <1>6, <3>1, <3>2 DEF StopSeal
  <2>2. IsSettled(r)' /\ machine'[r] = "gone"
    BY <2>0, <2>1, KeptSettled DEF RowsKept
  <2> QED BY <2>0, <2>1, <2>2, <1>r, <1>p, StopMove
<1>7. CASE StopReport(s)
  <2>0. IsSettled(run[s]) /\ machine[run[s]] = "gone" /\ said[s] \in Words
    BY <1>7 DEF StopReport, StopInv, Settled
  <2>1. RowsKept({})
    BY <1>7, <1>a, <2>0, ReportWrite DEF StopReport
  <2>2. WorldTypeOK'
    BY <1>7 DEF StopReport, Quit, Release, WorldTypeOK
  <2> QED BY <1>7, <2>1, <2>2, QuitRests DEF StopReport
<1> QED BY <1>1, <1>2, <1>3, <1>4, <1>5, <1>6, <1>7

\* Every step of a stopper, its death included.
LEMMA StopKeeps ==
    ASSUME RowsOK, WorldTypeOK, StopTypeOK, NEW s \in Stoppers, StopInv(s),
           StopStep(s)
    PROVE  StopGoal(s)
  BY StopClaims, StopAbandons, StopReleases DEF StopStep, StopWork

(***************************************************************************)
(* The reaper.                                                             *)
(***************************************************************************)
ReapGoal(k) ==
    /\ RowsKept({}) /\ WorldTypeOK' /\ ReapTypeOK' /\ ReapInv(k)'
    /\ \A j \in Reapers \ {k} : listed'[j] = listed[j]

\* Every step of a reaper, its death included.
LEMMA ReapKeeps ==
    ASSUME RowsOK, WorldTypeOK, ReapTypeOK, NEW k \in Reapers, ReapInv(k),
           ReapStep(k)
    PROVE  ReapGoal(k)
<1> USE DEF world, clockVars
<1>l. ASSUME RowsKept({}), listed' \in [Reapers -> SUBSET Runs],
             listed'[k] \subseteq listed[k]
      PROVE  ReapInv(k)'
  BY <1>l DEF ReapInv, RowsKept, ReapTypeOK
<1>1. CASE ReapClaim(k)
  <2>1. RowsKept({}) /\ WorldTypeOK'
    BY <1>1, NoWrite DEF ReapClaim, Acquire, WorldTypeOK
  <2>2. /\ ReapTypeOK' /\ \A j \in Reapers \ {k} : listed'[j] = listed[j]
        /\ listed'[k] \subseteq {r \in Runs : machine[r] = "up"}
    BY <1>1 DEF ReapClaim, ReapTypeOK
  <2>3. ReapInv(k)'
    BY <1>1, <2>2 DEF ReapClaim, ReapInv
  <2> QED BY <2>1, <2>2, <2>3 DEF ReapGoal
<1>2. CASE Decide(k)
  <2>1. RowsKept({}) /\ WorldTypeOK'
    BY <1>2, NoWrite DEF Decide, WorldTypeOK
  <2>2. \A r \in Runs : Ruling(r) \in {"keep", "bind", "end"}
    BY DEF Ruling
  <2>3. ruled' \in [Reapers -> [Runs -> {"keep", "bind", "end"}]]
    BY <1>2, <2>2 DEF Decide, ReapTypeOK
  <2>4. /\ listed' \in [Reapers -> SUBSET Runs] /\ listed'[k] \subseteq listed[k]
        /\ \A j \in Reapers \ {k} : listed'[j] = listed[j]
    BY <1>2 DEF Decide, ReapTypeOK
  <2>5. ReapTypeOK'
    BY <1>2, <2>3, <2>4 DEF Decide, ReapTypeOK
  <2> QED BY <2>1, <2>4, <2>5, <1>l DEF ReapGoal
<1>3. ASSUME NEW r \in Runs, Apply(k, r) PROVE ReapGoal(k)
  <2>0. machine[r] \in {"up", "gone"}
    BY <1>3 DEF Apply, ReapInv
  <2>1. RowsKept({})
    <3>1. CASE Bind(r) /\ UNCHANGED machine
      BY <1>3, <2>0, <3>1, BindWrite DEF Apply
    <3>2. CASE EndMachine(r) /\ UNCHANGED registry
      BY <1>3, <2>0, <3>2, EndWrite DEF Apply
    <3>3. CASE UNCHANGED <<registry, machine>>
      BY <1>3, <3>3, NoWrite DEF Apply
    <3> QED BY <1>3, <3>1, <3>2, <3>3 DEF Apply
  <2>2. WorldTypeOK'
    BY <1>3 DEF Apply, WorldTypeOK
  <2>3. /\ listed' \in [Reapers -> SUBSET Runs] /\ listed'[k] \subseteq listed[k]
        /\ \A j \in Reapers \ {k} : listed'[j] = listed[j]
        /\ ReapTypeOK'
    BY <1>3 DEF Apply, ReapTypeOK
  <2> QED BY <2>1, <2>2, <2>3, <1>l DEF ReapGoal
<1>4. CASE Retire(k)
  <2>1. RowsKept({}) /\ WorldTypeOK'
    BY <1>4, NoWrite DEF Retire, Release, WorldTypeOK
  <2>2. /\ listed' \in [Reapers -> SUBSET Runs] /\ listed'[k] \subseteq listed[k]
        /\ \A j \in Reapers \ {k} : listed'[j] = listed[j]
        /\ ReapTypeOK'
    BY <1>4 DEF Retire, Unruled, ReapTypeOK
  <2> QED BY <2>1, <2>2, <1>l DEF ReapGoal
<1> QED BY <1>1, <1>2, <1>3, <1>4 DEF ReapStep, ReapWork, ReapDone, ReapCrash

(***************************************************************************)
(* The invariant.                                                          *)
(***************************************************************************)
\* IInv, with the types grouped as the proof uses them.
LEMMA Parts ==
    IInv <=> /\ IntentInv /\ RowsOK /\ WorldTypeOK /\ land \in [Runs -> LandPoints]
             /\ PassTypeOK /\ StopTypeOK /\ ReapTypeOK
             /\ \A r \in Runs : LandInv(r)
             /\ \A p \in Passes : PassInv(p)
             /\ \A s \in Stoppers : StopInv(s)
             /\ \A k \in Reapers : ReapInv(k)
  BY DEF IInv, TypeOK, RentalTypeOK, RowsOK, WorldTypeOK, Machines

\* A new workspace has no rows, no machines, and every process at rest.
LEMMA InitInv == Init => IInv
<1> SUFFICES ASSUME Init PROVE IInv
  OBVIOUS
<1> USE DEF Init, RentalInit, RegistryInit, LandInit, PassInit, StopInit, ReapInit
<1>1. RegistryTypeOK /\ \A r \in Runs : ~IsSettled(r)
  BY SettledWords DEF RegistryTypeOK, IsSettled, Deliveries, NoRow
<1>2. RowsOK
  BY <1>1 DEF RowsOK, RowInv, Machines, Closed, NoRow, Unresolved
<1>3. WorldTypeOK /\ land \in [Runs -> LandPoints] /\ \A r \in Runs : LandInv(r)
  BY DEF WorldTypeOK, LandPoints, LandInv, LandBound
<1>4. PassTypeOK /\ \A p \in Passes : PassInv(p)
  BY SettledWords
     DEF PassTypeOK, PassPoints, Unasked, PassInv, PassResting, PassReleased, Ask
<1>5. StopTypeOK /\ \A s \in Stoppers : StopInv(s)
  BY SettledWords DEF StopTypeOK, StopPoints, StopInv, Words
<1>6. ReapTypeOK /\ \A k \in Reapers : ReapInv(k)
  BY DEF ReapTypeOK, Unruled, ReapInv
<1>7. IntentInv
  BY DEF IntentInv, Uncreated, Pending, NoRow
<1> QED BY <1>2, <1>3, <1>4, <1>5, <1>6, <1>7, Parts

\* No new intent: the intents stay one per request.
LEMMA IntentsKept ==
    ASSUME IntentInv, RowsKept({})
    PROVE  IntentInv'
  BY DEF IntentInv, RowsKept, Uncreated, Pending, NoRow

\* A landing records a new intent only after looking for the others
\* (Creations.reserve).
LEMMA IntentsLanded ==
    ASSUME IntentInv, NEW r \in Runs, LandInv(r), LandStep(r), RowsKept({r})
    PROVE  IntentInv'
<1>1. \A s \in Runs \ {r} : Uncreated(s)' => Uncreated(s)
  BY DEF RowsKept, Uncreated, Pending, NoRow
<1>2. CASE verdict[r] # NoRow
  BY <1>1, <1>2 DEF IntentInv, RowsKept
<1>3. CASE verdict[r] = NoRow
  <2>1. land[r] = "new"
    BY <1>3 DEF LandInv
  <2>2. Allocate(r)
    BY <2>1 DEF LandStep, GiveUp, Begin, Create, Answered, Refused, Created, Boot,
                Unreachable, Interrupted, InterruptFail, Equip, Claim, CheckSettled,
                Mark, Start, Abort, AbortFail, AbortCancel, LandCrash, Goto
  <2>3. \A s \in Runs : Uncreated(s) => Request[s] # Request[r]
    BY <2>2 DEF Allocate, Reserve, Reservable
  <2> QED BY <1>1, <2>3 DEF IntentInv
<1> QED BY <1>2, <1>3

\* What a step of Next does to the rows: only a landing adds an intent.
LEMMA NextRows ==
    ASSUME IInv, [Next]_vars
    PROVE  \E X \in SUBSET Runs : RowsKept(X)
<1>i. /\ RowsOK /\ WorldTypeOK /\ land \in [Runs -> LandPoints]
      /\ PassTypeOK /\ StopTypeOK /\ ReapTypeOK
      /\ \A r \in Runs : LandInv(r)
      /\ \A p \in Passes : PassInv(p)
      /\ \A s \in Stoppers : StopInv(s)
      /\ \A k \in Reapers : ReapInv(k)
  BY Parts
<1>1. ASSUME NEW r \in Runs, Environment(r) PROVE RowsKept({})
  BY <1>1, <1>i, EnvironmentStep DEF Environment
<1>2. ASSUME Drop PROVE RowsKept({})
  BY <1>2, <1>i, UndeclareStep DEF Drop
<1>3. ASSUME NEW r \in Runs, Lander(r) PROVE RowsKept({r})
  BY <1>3, <1>i, LandKeeps DEF Lander, LandGoal
<1>4. ASSUME NEW p \in Passes, Settler(p) PROVE RowsKept({})
  BY <1>4, <1>i, PassKeeps DEF Settler, PassGoal
<1>5. ASSUME NEW s \in Stoppers, Stopper(s) PROVE RowsKept({})
  BY <1>5, <1>i, StopKeeps DEF Stopper, StopGoal
<1>6. ASSUME NEW k \in Reapers, Collector(k) PROVE RowsKept({})
  BY <1>6, <1>i, ReapKeeps DEF Collector, ReapGoal
<1>7. CASE UNCHANGED vars
  BY <1>7, <1>i, NoWrite DEF vars, world, clockVars
<1> QED BY <1>1, <1>2, <1>3, <1>4, <1>5, <1>6, <1>7 DEF Next

\* Every step of every process preserves the invariant: the one that acts by
\* its own lemma, the others because what they rely on is kept.
LEMMA StepInv == IInv /\ [Next]_vars => IInv'
<1> SUFFICES ASSUME IInv, [Next]_vars PROVE IInv'
  OBVIOUS
<1>i. /\ RowsOK /\ WorldTypeOK /\ land \in [Runs -> LandPoints]
      /\ PassTypeOK /\ StopTypeOK /\ ReapTypeOK /\ IntentInv
      /\ \A r \in Runs : LandInv(r) /\ machine[r] \in Machines
      /\ \A p \in Passes : PassInv(p)
      /\ \A s \in Stoppers : StopInv(s)
      /\ \A k \in Reapers : ReapInv(k)
  BY Parts DEF RowsOK
<1> DEFINE LandOK == land \in [Runs -> LandPoints] /\ \A r \in Runs : LandInv(r)
           PassOK == PassTypeOK /\ \A p \in Passes : PassInv(p)
           StopOK == StopTypeOK /\ \A s \in Stoppers : StopInv(s)
           ReapOK == ReapTypeOK /\ \A k \in Reapers : ReapInv(k)
<1>q. ASSUME NEW X, RowsKept(X), WorldTypeOK', IntentInv', LandOK', PassOK', StopOK',
             ReapOK'
      PROVE  IInv'
  <2>1. RowsOK'
    BY <1>q DEF RowsKept
  <2> QED BY <1>q, <2>1 DEF IInv, TypeOK, RentalTypeOK, RowsOK, WorldTypeOK, Machines
<1>l. ASSUME RowsKept({}), UNCHANGED land PROVE LandOK'
  BY <1>l, <1>i, LandFrame
<1>p. ASSUME NEW X, RowsKept(X), UNCHANGED passVars PROVE PassOK'
  <2>1. PassTypeOK'
    BY <1>p, <1>i DEF PassTypeOK, passVars
  <2>2. \A p \in Passes : PassInv(p)'
    BY <1>p, <1>i, PassFrame DEF passVars
  <2> QED BY <2>1, <2>2
<1>s. ASSUME NEW X, RowsKept(X), UNCHANGED stopVars PROVE StopOK'
  <2>1. StopTypeOK'
    BY <1>s, <1>i DEF StopTypeOK, stopVars
  <2>2. \A s \in Stoppers : StopInv(s)'
    BY <1>s, <1>i, StopFrame DEF stopVars
  <2> QED BY <2>1, <2>2
<1>k. ASSUME NEW X, RowsKept(X), UNCHANGED reapVars PROVE ReapOK'
  <2>1. ReapTypeOK'
    BY <1>k, <1>i DEF ReapTypeOK, reapVars
  <2>2. \A k \in Reapers : ReapInv(k)'
    BY <1>k, <1>i, ReapFrame DEF reapVars
  <2> QED BY <2>1, <2>2
<1> HIDE DEF LandOK, PassOK, StopOK, ReapOK
<1>1. ASSUME NEW r \in Runs, Environment(r) PROVE IInv'
  <2>1. RowsKept({}) /\ WorldTypeOK'
    BY <1>1, <1>i, EnvironmentStep DEF Environment
  <2> QED BY <1>1, <1>i, <2>1, <1>q, <1>l, <1>p, <1>s, <1>k, IntentsKept
         DEF Environment
<1>2. ASSUME Drop PROVE IInv'
  <2>1. RowsKept({}) /\ WorldTypeOK'
    BY <1>2, <1>i, UndeclareStep DEF Drop
  <2> QED BY <1>2, <1>i, <2>1, <1>q, <1>l, <1>p, <1>s, <1>k, IntentsKept DEF Drop
<1>3. ASSUME NEW r \in Runs, Lander(r) PROVE IInv'
  <2>1. LandGoal(r)
    BY <1>3, <1>i, LandKeeps DEF Lander
  <2>2. LandOK'
    BY <2>1, <1>i, LandFrame DEF LandGoal, LandOK
  <2>3. IntentInv'
    BY <1>3, <1>i, <2>1, IntentsLanded DEF Lander, LandGoal
  <2> QED BY <1>3, <2>1, <2>2, <2>3, <1>q, <1>p, <1>s, <1>k DEF Lander, LandGoal
<1>4. ASSUME NEW p \in Passes, Settler(p) PROVE IInv'
  <2>1. PassGoal(p)
    BY <1>4, <1>i, PassKeeps DEF Settler
  <2>2. PassOK'
    BY <2>1, <1>i, PassFrame DEF PassGoal, PassOthers, PassOK
  <2> QED BY <1>4, <1>i, <2>1, <2>2, <1>q, <1>l, <1>s, <1>k, IntentsKept
         DEF Settler, PassGoal
<1>5. ASSUME NEW s \in Stoppers, Stopper(s) PROVE IInv'
  <2>1. StopGoal(s)
    BY <1>5, <1>i, StopKeeps DEF Stopper
  <2>2. StopOK'
    BY <2>1, <1>i, StopFrame DEF StopGoal, StopOthers, StopOK
  <2> QED BY <1>5, <1>i, <2>1, <2>2, <1>q, <1>l, <1>p, <1>k, IntentsKept
         DEF Stopper, StopGoal
<1>6. ASSUME NEW k \in Reapers, Collector(k) PROVE IInv'
  <2>1. ReapGoal(k)
    BY <1>6, <1>i, ReapKeeps DEF Collector
  <2>2. ReapOK'
    BY <2>1, <1>i, ReapFrame DEF ReapGoal, ReapOK
  <2> QED BY <1>6, <1>i, <2>1, <2>2, <1>q, <1>l, <1>p, <1>s, IntentsKept
         DEF Collector, ReapGoal
<1>7. CASE UNCHANGED vars
  <2>1. RowsKept({}) /\ WorldTypeOK' /\ UNCHANGED <<land, passVars, stopVars, reapVars>>
    BY <1>7, <1>i, NoWrite DEF vars, world, clockVars, WorldTypeOK
  <2> QED BY <1>i, <2>1, <1>q, <1>l, <1>p, <1>s, <1>k, IntentsKept
<1> QED BY <1>1, <1>2, <1>3, <1>4, <1>5, <1>6, <1>7 DEF Next

(***************************************************************************)
(* What holds of every run, for any number of runs and processes.          *)
(***************************************************************************)
\* The inductive invariant: what each process relies on at each of its points
\* always holds of the row and the machine.
THEOREM LifecycleInvariant == Spec => []IInv
  BY InitInv, StepInv, PTL DEF Spec

\* Type correctness of the composed system.
THEOREM LifecycleTyped == Spec => []TypeOK
<1>1. IInv => TypeOK
  BY DEF IInv
<1> QED BY <1>1, LifecycleInvariant, PTL

\* No declared run is settled and reported while its machine bills: every
\* closing path (Deadlines._closed, Monitor._concluded, Monitor._unlaunched,
\* Verdicts.__released) releases first, crashes and races included.
THEOREM LifecycleClosedEnded == Spec => []ClosedMeansEnded
<1>1. IInv => ClosedMeansEnded
  BY DEF IInv, RowInv, ClosedMeansEnded
<1> QED BY <1>1, LifecycleInvariant, PTL

\* A creation settled with no handle recorded never reached the provider
\* (Creations.prepared, Allocation.interrupted, Verdicts.__unprepared).
THEOREM LifecycleNeverAsked == Spec => []SettledUnboundNeverAsked
<1>1. IInv => SettledUnboundNeverAsked
  BY SettledWords DEF IInv, RowInv, SettledUnboundNeverAsked, IsSettled
<1> QED BY <1>1, LifecycleInvariant, PTL

\* Two machines no row names yet never stand for one request
\* (Creations.reserve, Creations.reopen, Allocation.refused).
THEOREM LifecycleOneUncertain == Spec => []OneUncertainMachine
<1>1. IInv => OneUncertainMachine
  BY DEF IInv, RowInv, IntentInv, OneUncertainMachine, Uncreated, Pending
<1> QED BY <1>1, LifecycleInvariant, PTL

(***************************************************************************)
(* Refinement: the lifecycle implements RunOutcome.  One lemma per write   *)
(* again, this time for what it does to the outcome, the billing and the   *)
(* delivery of a run; then one per process.                                *)
(***************************************************************************)
OutcomeStep == Outcome!Next \/ UNCHANGED Outcome!outcomes

\* A step that leaves verdicts, reports, machines and the manifest alone is
\* not seen.
LEMMA Unseen ==
    ASSUME UNCHANGED <<verdict, reported, machine, declared>>
    PROVE  OutcomeStep
  BY DEF OutcomeStep, Outcome!outcomes, OutcomeOf, BillingOf, DeliveredOf, IsSettled, Closed

\* A step that changes rows without settling or reporting any is not seen.
LEMMA UnseenRows ==
    ASSUME UNCHANGED <<machine, declared>>,
           \A r \in Runs : /\ IsSettled(r)' = IsSettled(r)
                           /\ IsSettled(r) => verdict'[r] = verdict[r] /\ reported'[r] = reported[r]
    PROVE  OutcomeStep
<1>1. OutcomeOf' = OutcomeOf /\ BillingOf' = BillingOf /\ DeliveredOf' = DeliveredOf
  BY DEF OutcomeOf, BillingOf, DeliveredOf, Closed
<1> QED BY <1>1 DEF OutcomeStep, Outcome!outcomes

\* The one decision about a run nothing was reported of yet, delivered with it
\* only when it has no machine.
LEMMA DecideSeen ==
    ASSUME RowsOK, NEW r \in Runs, ~IsSettled(r), IsSettled(r)', UNCHANGED <<machine, declared>>,
           verdict' = [verdict EXCEPT ![r] = verdict'[r]],
           \/ UNCHANGED reported
           \/ machine[r] = "none" /\ reported' = [reported EXCEPT ![r] = verdict'[r]]
    PROVE  OutcomeStep
<1>1. OutcomeOf[r] = "open" /\ OutcomeOf'[r] \in Settled
  BY DEF OutcomeOf, IsSettled
<1>2. OutcomeOf' = [OutcomeOf EXCEPT ![r] = OutcomeOf'[r]] /\ BillingOf' = BillingOf
  BY DEF OutcomeOf, BillingOf, IsSettled, RowsOK, RegistryTypeOK
<1>3. CASE UNCHANGED reported
  <2>1. ~Closed(r) /\ ~Closed(r)'
    BY <1>3, SettledWords DEF Closed, IsSettled, RowsOK, RowInv, Nothing
  <2>2. DeliveredOf' = DeliveredOf
    BY <1>3, <2>1 DEF DeliveredOf, Closed, IsSettled, RowsOK, RegistryTypeOK
  <2>3. Outcome!Decide(r)
    BY <1>1, <1>2, <2>2 DEF Outcome!Decide, Outcome!Open
  <2> QED BY <2>3 DEF OutcomeStep, Outcome!Next
<1>4. CASE machine[r] = "none" /\ reported' = [reported EXCEPT ![r] = verdict'[r]]
  <2>1. Closed(r)' /\ ~Closed(r)
    BY <1>4 DEF Closed, RowsOK, RegistryTypeOK
  <2>2. DeliveredOf' = IF declared THEN [DeliveredOf EXCEPT ![r] = TRUE] ELSE DeliveredOf
    BY <1>4, <2>1 DEF DeliveredOf, Closed, IsSettled, RowsOK, RegistryTypeOK
  <2>3. BillingOf[r] # "may"
    BY <1>4 DEF BillingOf
  <2>4. Outcome!Decide(r)
    BY <1>1, <1>2, <2>2, <2>3
       DEF Outcome!Decide, Outcome!Open, Outcome!Quiet
  <2> QED BY <2>4 DEF OutcomeStep, Outcome!Next
<1> QED BY <1>3, <1>4

\* Cache.report, of a settled row whose machine is gone or undeclared,
\* delivers the outcome or takes a delivery back.
LEMMA ReportSeen ==
    ASSUME RowsOK, NEW r \in Runs, NEW word, Report(r, word), IsSettled(r),
           machine[r] = "gone" \/ ~declared, UNCHANGED <<machine, declared>>
    PROVE  OutcomeStep
<1>1. OutcomeOf' = OutcomeOf /\ BillingOf' = BillingOf /\ OutcomeOf[r] \in Settled
  BY DEF OutcomeOf, BillingOf, IsSettled, Report
<1>2. CASE ~declared
  <2>1. DeliveredOf' = DeliveredOf
    BY <1>2 DEF DeliveredOf
  <2> QED BY <1>1, <2>1 DEF OutcomeStep, Outcome!outcomes
<1>3. CASE declared /\ machine[r] = "gone" /\ word = verdict[r]
  <2>1. DeliveredOf' = [DeliveredOf EXCEPT ![r] = TRUE]
    BY <1>3 DEF DeliveredOf, Closed, IsSettled, Report, RowsOK, RegistryTypeOK
  <2>2. BillingOf[r] # "may" /\ OutcomeOf[r] # "open"
    BY <1>1, <1>3, SettledWords DEF BillingOf
  <2>3. Outcome!Deliver(r)
    BY <1>1, <2>1, <2>2
       DEF Outcome!Deliver, Outcome!Open, Outcome!Quiet
  <2> QED BY <2>3 DEF OutcomeStep, Outcome!Next
<1>4. CASE word # verdict[r]
  <2>1. DeliveredOf' = [s \in Runs |-> DeliveredOf[s] /\ s \notin {r}]
    BY <1>4 DEF DeliveredOf, Closed, IsSettled, Report, RowsOK, RegistryTypeOK
  <2>2. Outcome!Recall
    BY <1>1, <2>1 DEF Outcome!Recall
  <2> QED BY <2>2 DEF OutcomeStep, Outcome!Next
<1> QED BY <1>2, <1>3, <1>4

\* A machine asked for, declined or ended under an unchanged row.
LEMMA MachineSeen ==
    ASSUME RowsOK, NEW r \in Runs, NEW m \in Machines, machine' = [machine EXCEPT ![r] = m],
           UNCHANGED <<verdict, reported, declared>>,
           \/ ~IsSettled(r) /\ machine[r] \in {"none", "asked"} /\ m # "gone"
              /\ <<machine[r], m>> # <<"none", "up">>
           \/ machine[r] \in {"up", "gone"} /\ m = "gone"
    PROVE  OutcomeStep
<1>1. OutcomeOf' = OutcomeOf /\ DeliveredOf' = DeliveredOf
  BY DEF OutcomeOf, DeliveredOf, IsSettled, Closed
<1>2. BillingOf' = [BillingOf EXCEPT ![r] = BillingOf'[r]]
  BY DEF BillingOf, RowsOK
<1>3. CASE BillingOf'[r] = BillingOf[r]
  <2>1. BillingOf' = BillingOf
    BY <1>2, <1>3 DEF BillingOf
  <2> QED BY <1>1, <2>1 DEF OutcomeStep, Outcome!outcomes
<1>4. CASE BillingOf'[r] # BillingOf[r]
  <2>1. machine'[r] = m
    BY DEF RowsOK
  <2>2. CASE machine[r] = "none" /\ m = "asked" /\ ~IsSettled(r)
    <3>1. OutcomeOf[r] = "open" /\ BillingOf[r] = "never" /\ BillingOf'[r] = "may"
      BY <2>1, <2>2 DEF OutcomeOf, BillingOf
    <3>2. Outcome!Ask(r)
      BY <1>1, <1>2, <3>1 DEF Outcome!Ask, Outcome!Open
    <3> QED BY <3>2 DEF OutcomeStep, Outcome!Next
  <2>3. CASE machine[r] = "asked" /\ m = "none" /\ ~IsSettled(r)
    <3>1. OutcomeOf[r] = "open" /\ BillingOf[r] = "may" /\ BillingOf'[r] = "never"
      BY <2>1, <2>3 DEF OutcomeOf, BillingOf
    <3>2. Outcome!Decline(r)
      BY <1>1, <1>2, <3>1 DEF Outcome!Decline, Outcome!Open
    <3> QED BY <3>2 DEF OutcomeStep, Outcome!Next
  <2>4. CASE machine[r] = "up" /\ m = "gone"
    <3>1. BillingOf[r] = "may" /\ BillingOf'[r] = "ended"
      BY <2>1, <2>4 DEF BillingOf
    <3>2. Outcome!End(r)
      BY <1>1, <1>2, <3>1 DEF Outcome!End
    <3> QED BY <3>2 DEF OutcomeStep, Outcome!Next
  <2> QED BY <1>4, <2>1, <2>2, <2>3, <2>4 DEF BillingOf, Machines
<1> QED BY <1>3, <1>4

\* Cache.resolve of a bound row decides an open run, or is not seen.
LEMMA ResolveSeen ==
    ASSUME RowsOK, NEW r \in Runs, bound[r], NEW isStop \in BOOLEAN, NEW word,
           Resolve(r, isStop, word), UNCHANGED <<machine, declared>>
    PROVE  OutcomeStep
<1>1. CASE IsSettled(r)
  <2>1. verdict' = verdict /\ reported' = reported
    BY <1>1, SettledReaches DEF Resolve, IsSettled, RowsOK, RegistryTypeOK
  <2> QED BY <2>1, Unseen
<1>2. /\ verdict' = [verdict EXCEPT ![r] = verdict'[r]] /\ reported' = reported
  BY DEF Resolve, RowsOK, RegistryTypeOK
<1>3. CASE ~IsSettled(r) /\ IsSettled(r)'
  BY <1>2, <1>3, DecideSeen
<1>4. CASE ~IsSettled(r) /\ ~IsSettled(r)'
  <2>1. \A s \in Runs : /\ IsSettled(s)' = IsSettled(s)
                        /\ IsSettled(s) => verdict'[s] = verdict[s] /\ reported'[s] = reported[s]
    BY <1>2, <1>4 DEF IsSettled, RowsOK, RegistryTypeOK
  <2> QED BY <2>1, UnseenRows
<1> QED BY <1>1, <1>3, <1>4

\* The writes of a row still being created: reserved, sent, reopened or bound
\* is not seen, and given up is its decision, delivered at once.
LEMMA CreationSeen ==
    ASSUME RowsOK, NEW r \in Runs, UNCHANGED <<machine, declared>>,
           \/ Reserve(r, "not_started") \/ Reopen(r) \/ Bind(r)
           \/ \E word \in Words, withLease \in BOOLEAN : Prepared(r, word, withLease)
    PROVE  OutcomeStep
<1>0. verdict[r] \in {NoRow, "prepared", "submitting"}
  BY DEF Reserve, Exists, Reopen, IsSubmitting, Bind, Prepared, IsPrepared
<1>1. ~IsSettled(r)
  BY <1>0, SettledWords DEF IsSettled, NoRow
<1>2. /\ verdict' = [verdict EXCEPT ![r] = verdict'[r]]
      /\ reported' = [reported EXCEPT ![r] = reported'[r]]
  BY DEF Reserve, Reopen, Bind, Prepared, Row, RowsOK, RegistryTypeOK
<1>3. CASE ~IsSettled(r)'
  <2>1. \A s \in Runs : /\ IsSettled(s)' = IsSettled(s)
                        /\ IsSettled(s) => verdict'[s] = verdict[s] /\ reported'[s] = reported[s]
    BY <1>1, <1>2, <1>3 DEF IsSettled, RowsOK, RegistryTypeOK
  <2> QED BY <2>1, UnseenRows
<1>4. CASE IsSettled(r)'
  <2>1. PICK word \in Words, withLease \in BOOLEAN : Prepared(r, word, withLease)
    <3>1. ~Reserve(r, "not_started") /\ ~Reopen(r) /\ ~Bind(r)
      BY <1>4, SettledWords DEF IsSettled, Reserve, Reopen, Bind, Row, RowsOK, RegistryTypeOK
    <3> QED BY <3>1
  <2>2. verdict'[r] = word /\ word \in Settled
    BY <1>4, <2>1 DEF IsSettled, Prepared, Row, RowsOK, RegistryTypeOK
  <2>3. reported' = [reported EXCEPT ![r] = verdict'[r]]
    BY <2>1, <2>2 DEF Prepared, Row
  <2>4. machine[r] = "none"
    BY <2>1 DEF Prepared, IsPrepared, RowsOK, RowInv, Pending
  <2> QED BY <1>1, <1>2, <1>4, <2>3, <2>4, DecideSeen
<1> QED BY <1>3, <1>4

\* ProviderBackend.cancel, or the provider itself, ends the billing.
LEMMA EndSeen ==
    ASSUME RowsOK, NEW r \in Runs, machine[r] \in {"up", "gone"}, EndMachine(r),
           UNCHANGED <<registry, declared>>
    PROVE  OutcomeStep
  BY MachineSeen DEF EndMachine, registry, Machines

\* The world on its own: a machine appears unseen or is preempted.
LEMMA EnvironmentSeen ==
    ASSUME RowsOK, NEW r \in Runs, Passing(r)
    PROVE  OutcomeStep
<1> USE DEF registry, clockVars
<1>1. CASE Appear(r)
  <2>1. ~IsSettled(r)
    BY <1>1, AskedSubmitting, SettledWords DEF Appear, IsSettled
  <2> QED BY <1>1, <2>1, MachineSeen DEF Appear, Machines
<1>2. CASE Preempted(r)
  BY <1>2, EndSeen DEF Preempted
<1>3. CASE JobEnds(r) \/ LeasePasses(r) \/ GracePasses(r)
  BY <1>3, Unseen DEF JobEnds, LeasePasses, GracePasses
<1> QED BY <1>1, <1>2, <1>3 DEF Passing

\* A target dropped from the manifest takes every delivery back.
LEMMA UndeclareSeen ==
    ASSUME Undeclare
    PROVE  OutcomeStep
<1>1. OutcomeOf' = OutcomeOf /\ BillingOf' = BillingOf
  BY DEF Undeclare, registry, OutcomeOf, BillingOf, IsSettled
<1>2. DeliveredOf' = [r \in Runs |-> DeliveredOf[r] /\ r \notin Runs]
  BY DEF Undeclare, DeliveredOf
<1>3. Outcome!Recall
  BY <1>1, <1>2 DEF Outcome!Recall
<1> QED BY <1>3 DEF OutcomeStep, Outcome!Next

\* A landing asks, is declined, decides a creation that never happened, or
\* ends its machine.
LEMMA LandSeen ==
    ASSUME RowsOK, NEW r \in Runs, LandInv(r), LandStep(r)
    PROVE  OutcomeStep
<1> USE DEF world, clockVars, registry
<1>b. land[r] \in LandBound => bound[r] /\ machine[r] \in {"up", "gone"}
  BY BoundMachine DEF LandInv
<1>1. CASE Allocate(r)
  BY <1>1, CreationSeen DEF Allocate
<1>2. CASE Begin(r)
  BY <1>2, CreationSeen, Unseen DEF Begin, Words
<1>3. CASE Create(r)
  <2>1. ~IsSettled(r) /\ machine[r] = "none"
    BY <1>3, SettledWords DEF Create, Goto, LandInv, IsSettled
  <2> QED BY <1>3, <2>1, MachineSeen DEF Create, Machines
<1>4. CASE Answered(r)
  <2>1. CASE machine[r] = "asked" /\ machine' = [machine EXCEPT ![r] = "none"]
    <3>1. ~IsSettled(r)
      BY <2>1, AskedSubmitting, SettledWords DEF IsSettled
    <3> QED BY <1>4, <2>1, <3>1, MachineSeen DEF Answered, Machines
  <2> QED BY <1>4, <2>1, Unseen DEF Answered
<1>5. CASE Refused(r)
  BY <1>5, CreationSeen, Unseen DEF Refused
<1>6. CASE Created(r)
  BY <1>6, CreationSeen, Unseen DEF Created
<1>7. CASE Interrupted(r)
  BY <1>7, CreationSeen, Unseen DEF Interrupted, Words
<1>8. CASE InterruptFail(r) \/ AbortFail(r)
  BY <1>8, <1>b, ResolveSeen DEF InterruptFail, AbortFail, Goto, LandBound
<1>9. CASE Unreachable(r) \/ AbortCancel(r)
  BY <1>9, <1>b, EndSeen, Unseen DEF Unreachable, AbortCancel, Goto, LandBound
<1>10. CASE Mark(r)
  BY <1>10, Unseen DEF Mark, Delivery
<1>11. CASE \/ GiveUp(r) \/ Boot(r) \/ Equip(r) \/ Claim(r) \/ CheckSettled(r)
            \/ Start(r) \/ Abort(r) \/ LandCrash(r)
  BY <1>11, Unseen DEF GiveUp, Boot, Equip, Claim, CheckSettled, Start, Abort, LandCrash
<1> QED BY <1>1, <1>2, <1>3, <1>4, <1>5, <1>6, <1>7, <1>8, <1>9, <1>10, <1>11
       DEF LandStep

\* A settling pass decides, ends and delivers.
LEMMA PassSeen ==
    ASSUME RowsOK, PassTypeOK, NEW p \in Passes, PassInv(p), PassStep(p)
    PROVE  OutcomeStep
<1> USE DEF world, clockVars, registry
<1>e. ASSUME NEW status, Evidence(at[p], status), UNCHANGED <<machine, declared>>
      PROVE  OutcomeStep
  BY <1>e, Unseen DEF Evidence, Delivery
<1>1. CASE ExpireCancel(p) \/ HarvestRelease(p) \/ UnlaunchedRelease(p)
  <2>1. at[p] \in Runs /\ machine[at[p]] \in {"up", "gone"}
    BY <1>1, AtBound DEF ExpireCancel, HarvestRelease, UnlaunchedRelease, Move, PassResting
  <2> QED BY <1>1, <2>1, EndSeen, Unseen DEF ExpireCancel, HarvestRelease, UnlaunchedRelease
<1>2. CASE ExpireClose(p)
  <2>1. at[p] \in Runs /\ bound[at[p]]
    BY <1>2, AtBound DEF ExpireClose, Move, PassResting
  <2> QED BY <1>2, <2>1, ResolveSeen DEF ExpireClose
<1>3. CASE ExpireReport(p) \/ HarvestReport(p) \/ UnlaunchedReport(p)
  <2>1. at[p] \in Runs /\ machine[at[p]] = "gone" /\ IsSettled(at[p])
    BY <1>3, AtBound DEF ExpireReport, HarvestReport, UnlaunchedReport, Move, PassResting,
                         PassReleased, PassExpiring
  <2> QED BY <1>3, <2>1, ReportSeen DEF ExpireReport, HarvestReport, UnlaunchedReport
<1>4. ASSUME NEW r \in Runs, Settle(p, r) PROVE OutcomeStep
  <2>1. bound[r] /\ stopped[r] \in BOOLEAN
    BY <1>4 DEF Settle, PassInv, RowsOK, RegistryTypeOK
  <2> QED BY <1>4, <2>1, ResolveSeen DEF Settle
<1>5. CASE \/ ExpireMark(p) \/ ExpireSeal(p) \/ HarvestPending(p) \/ HarvestCopied(p)
           \/ HarvestRetry(p) \/ HarvestSeal(p) \/ UnlaunchedMark(p)
  BY <1>5, <1>e, Unseen DEF ExpireMark, ExpireSeal, HarvestPending, HarvestCopied,
                            HarvestRetry, HarvestSeal, UnlaunchedMark
<1>6. ASSUME NEW r \in Runs, ExpireRead(p, r) \/ Poll(p, r) PROVE OutcomeStep
  BY <1>6, Unseen DEF ExpireRead, Poll
<1>7. CASE \/ PassStart(p) \/ ExpireStuck(p) \/ PassClaim(p) \/ PassBusy(p)
           \/ Collect(p) \/ Recover(p) \/ PassDone(p) \/ PassCrash(p)
  BY <1>7, Unseen DEF PassStart, ExpireStuck, PassClaim, PassBusy, Collect, Recover,
                      PassDone, PassCrash
<1> QED BY <1>1, <1>2, <1>3, <1>4, <1>5, <1>6, <1>7
       DEF PassStep, ExpireStep, SettleStep

\* So does a stopper; a creation it cancels is decided and delivered at once.
LEMMA StopSeen ==
    ASSUME RowsOK, NEW s \in Stoppers, StopInv(s), StopStep(s)
    PROVE  OutcomeStep
<1> USE DEF world, clockVars, registry
<1>a. /\ stage[s] # "idle" => run[s] \in Runs
      /\ stage[s] \notin {"idle", "unprepare"} =>
            bound[run[s]] /\ machine[run[s]] \in {"up", "gone"}
  BY BoundMachine DEF StopInv
<1>1. CASE Unprepare(s)
  BY <1>1, <1>a, CreationSeen, Unseen DEF Unprepare, Words
<1>2. CASE Forsake(s)
  BY <1>2, <1>a, ResolveSeen DEF Forsake, Advance
<1>3. CASE Stop(s)
  <2>1. (ended[s] = "cancelled") \in BOOLEAN
    OBVIOUS
  <2> QED BY <1>3, <2>1, <1>a, ResolveSeen DEF Stop, Advance
<1>4. CASE Disown(s) \/ StopReport(s)
  <2>1. IsSettled(run[s]) /\ (machine[run[s]] = "gone" \/ ~declared)
    BY <1>4 DEF Disown, StopReport, StopInv
  <2> QED BY <1>4, <1>a, <2>1, ReportSeen DEF Disown, StopReport
<1>5. CASE Kill(s) \/ StopRelease(s)
  BY <1>5, <1>a, EndSeen, Unseen DEF Kill, StopRelease, Advance
<1>6. CASE Abandon(s) \/ Preserve(s) \/ StopSeal(s)
  BY <1>6, Unseen DEF Abandon, Preserve, StopSeal, Evidence, Delivery
<1>7. CASE Capture(s) \/ StopCrash(s)
  BY <1>7, Unseen DEF Capture, StopCrash
<1>8. ASSUME NEW r \in Runs, NEW word \in Endings, StopClaim(s, r, word)
      PROVE  OutcomeStep
  BY <1>8, Unseen DEF StopClaim
<1> QED BY <1>1, <1>2, <1>3, <1>4, <1>5, <1>6, <1>7, <1>8 DEF StopStep, StopWork

\* A reaper binds unseen, or ends.
LEMMA ReapSeen ==
    ASSUME RowsOK, NEW k \in Reapers, ReapInv(k), ReapStep(k)
    PROVE  OutcomeStep
<1> USE DEF world, clockVars, registry
<1>1. ASSUME NEW r \in Runs, Apply(k, r) PROVE OutcomeStep
  <2>1. machine[r] \in {"up", "gone"}
    BY <1>1 DEF Apply, ReapInv
  <2> QED BY <1>1, <2>1, CreationSeen, EndSeen, Unseen DEF Apply
<1>2. CASE ReapClaim(k) \/ Decide(k) \/ Retire(k)
  BY <1>2, Unseen DEF ReapClaim, Decide, Retire
<1> QED BY <1>1, <1>2 DEF ReapStep, ReapWork, ReapDone, ReapCrash

\* Every step of the lifecycle is a step of the outcome, or is not seen.
LEMMA StepSeen == IInv /\ [Next]_vars => [Outcome!Next]_(Outcome!outcomes)
<1> SUFFICES ASSUME IInv, [Next]_vars PROVE OutcomeStep
  BY DEF OutcomeStep
<1>i. /\ RowsOK /\ PassTypeOK
      /\ \A r \in Runs : LandInv(r)
      /\ \A p \in Passes : PassInv(p)
      /\ \A s \in Stoppers : StopInv(s)
      /\ \A k \in Reapers : ReapInv(k)
  BY Parts
<1>1. ASSUME NEW r \in Runs, Environment(r) PROVE OutcomeStep
  BY <1>1, <1>i, EnvironmentSeen DEF Environment
<1>2. CASE Drop
  BY <1>2, UndeclareSeen DEF Drop
<1>3. ASSUME NEW r \in Runs, Lander(r) PROVE OutcomeStep
  BY <1>3, <1>i, LandSeen DEF Lander
<1>4. ASSUME NEW p \in Passes, Settler(p) PROVE OutcomeStep
  BY <1>4, <1>i, PassSeen DEF Settler
<1>5. ASSUME NEW s \in Stoppers, Stopper(s) PROVE OutcomeStep
  BY <1>5, <1>i, StopSeen DEF Stopper
<1>6. ASSUME NEW k \in Reapers, Collector(k) PROVE OutcomeStep
  BY <1>6, <1>i, ReapSeen DEF Collector
<1>7. CASE UNCHANGED vars
  BY <1>7, Unseen DEF vars, registry, world, clockVars
<1> QED BY <1>1, <1>2, <1>3, <1>4, <1>5, <1>6, <1>7 DEF Next

\* A new workspace has decided, rented and delivered nothing.
LEMMA InitSeen == Init => Outcome!Init
<1> SUFFICES ASSUME Init PROVE Outcome!Init
  OBVIOUS
<1> USE DEF Init, RentalInit, RegistryInit
<1>1. \A r \in Runs : ~IsSettled(r)
  BY SettledWords DEF IsSettled, NoRow
<1>2. OutcomeOf = [r \in Runs |-> "open"] /\ BillingOf = [r \in Runs |-> "never"]
  BY <1>1 DEF OutcomeOf, BillingOf
<1>3. DeliveredOf = [r \in Runs |-> FALSE]
  BY <1>1 DEF DeliveredOf, Closed
<1> QED BY <1>2, <1>3 DEF Outcome!Init, Outcome!Open

\* Landing, settling, stopping and reaping together implement RunOutcome: a
\* run is decided once, nothing is rented for it afterwards, and its outcome
\* is delivered only when nothing bills for it.
THEOREM LifecycleOutcome == Spec => KeepsOutcome
<1>1. Spec => []IInv
  BY LifecycleInvariant
<1> QED BY <1>1, InitSeen, StepSeen, PTL DEF Spec, KeepsOutcome, Outcome!Spec

(***************************************************************************)
(* The settlement lock, and what it protects: whoever stands inside the    *)
(* lock's scope holds it, so nothing decided there changes before use,     *)
(* except by the deadlines, which take no lock.                            *)
(***************************************************************************)
LandLocked == {"check", "mark", "start"}
PassUnlocked == {"idle", "expire", "xMark", "xCancel", "xClose", "xSeal", "xReport"}

LockInv ==
    /\ \A r \in Runs : land[r] \in LandLocked => lock = r
    /\ \A p \in Passes : point[p] \notin PassUnlocked => lock = p
    /\ \A s \in Stoppers : stage[s] # "idle" => lock = s
    /\ \A k \in Reapers : spot[k] # "idle" => lock = k

\* A launched job has a bound row whose evidence is no longer `not_started`,
\* already so when the launch is handed over; a row settled under a landing
\* about to launch lost its machine first; a landing that gives up has
\* launched nothing.
LaunchInv(r) ==
    /\ Launched(r) => bound[r] /\ evidence[r] # "not_started"
    /\ land[r] = "start" => evidence[r] # "not_started"
    /\ land[r] \in {"mark", "start"} /\ IsSettled(r) => machine[r] = "gone"
    /\ land[r] \in {"abortFail", "abortCancel"} => ~Launched(r)

\* A pass that is about to record that nothing started is right about it.
UnstartedInv(p) ==
    point[p] = "uMark" \/ (point[p] = "uRelease" /\ ~flag[p]) => ~Launched(at[p])

\* What was ruled to be ended is still closed or overdue when it is ended.
RuledInv(k) ==
    spot[k] = "apply" => \A r \in listed[k] :
        ruled[k][r] = "end" => bound[r] /\ (Closed(r) \/ Overdue(r))

LockedInv ==
    /\ LockInv
    /\ \A r \in Runs : LaunchInv(r)
    /\ \A p \in Passes : UnstartedInv(p)
    /\ \A k \in Reapers : RuledInv(k)

\* A new workspace: nobody is inside the lock, nothing was launched or ruled.
LEMMA InitLocked == Init => LockedInv
  BY DEF Init, RentalInit, RegistryInit, LandInit, PassInit, StopInit, ReapInit,
         LockedInv, LockInv, LaunchInv, UnstartedInv, RuledInv, LandLocked, PassUnlocked,
         Launched

\* How a process x may use the lock: it stays where it was, takes the free
\* lock, or leaves the scope and frees it.
UsesLock(x, before, after) ==
    \/ lock' = lock /\ (after => before)
    \/ lock = None /\ lock' = x
    \/ Release(x) /\ ~after

\* A landing takes and frees the lock around its launch.
LEMMA LandLocks ==
    ASSUME land \in [Runs -> LandPoints], NEW r \in Runs, LandStep(r)
    PROVE  /\ UsesLock(r, land[r] \in LandLocked, land'[r] \in LandLocked)
           /\ \A s \in Runs \ {r} : land'[s] = land[s]
<1> USE DEF world, clockVars, UsesLock, LandLocked, Goto
<1>1. CASE Allocate(r) \/ GiveUp(r) \/ Begin(r) \/ Create(r) \/ Answered(r)
  BY <1>1 DEF Allocate, GiveUp, Begin, Create, Answered
<1>2. CASE Refused(r) \/ Created(r) \/ Boot(r) \/ Unreachable(r)
  BY <1>2 DEF Refused, Created, Boot, Unreachable
<1>3. CASE Interrupted(r) \/ InterruptFail(r) \/ Equip(r) \/ Mark(r)
  BY <1>3 DEF Interrupted, InterruptFail, Equip, Mark
<1>4. CASE Claim(r)
  BY <1>4 DEF Claim, Acquire
<1>5. CASE CheckSettled(r)
  BY <1>5 DEF CheckSettled
<1>6. CASE Start(r) \/ LandCrash(r)
  BY <1>6 DEF Start, LandCrash
<1>7. CASE Abort(r) \/ AbortFail(r) \/ AbortCancel(r)
  BY <1>7 DEF Abort, AbortFail, AbortCancel
<1> QED BY <1>1, <1>2, <1>3, <1>4, <1>5, <1>6, <1>7 DEF LandStep

\* A settling pass takes the lock for its sweep and keeps it to the end.
LEMMA PassLocks ==
    ASSUME PassTypeOK, NEW p \in Passes, PassStep(p)
    PROVE  /\ UsesLock(p, point[p] \notin PassUnlocked, point'[p] \notin PassUnlocked)
           /\ \A q \in Passes \ {p} : point'[q] = point[q]
<1> USE DEF world, clockVars, UsesLock, PassUnlocked, Move, PassTypeOK
<1>1. CASE PassStart(p) \/ ExpireMark(p) \/ ExpireClose(p) \/ ExpireSeal(p)
  BY <1>1 DEF PassStart, ExpireMark, ExpireClose, ExpireSeal
<1>2. ASSUME NEW r \in Runs, ExpireRead(p, r)
      PROVE  /\ UsesLock(p, point[p] \notin PassUnlocked, point'[p] \notin PassUnlocked)
             /\ \A q \in Passes \ {p} : point'[q] = point[q]
  BY <1>2 DEF ExpireRead
<1>3. CASE ExpireCancel(p) \/ ExpireReport(p) \/ ExpireStuck(p)
  BY <1>3 DEF ExpireCancel, ExpireReport, ExpireStuck, Expiring
<1>4. CASE PassClaim(p)
  BY <1>4 DEF PassClaim, Acquire
<1>5. CASE PassBusy(p) \/ PassDone(p) \/ PassCrash(p)
  BY <1>5 DEF PassBusy, PassDone, PassCrash
<1>6. ASSUME NEW r \in Runs, Poll(p, r)
      PROVE  /\ UsesLock(p, point[p] \notin PassUnlocked, point'[p] \notin PassUnlocked)
             /\ \A q \in Passes \ {p} : point'[q] = point[q]
  BY <1>6 DEF Poll, Leave
<1>7. ASSUME NEW r \in Runs, Settle(p, r)
      PROVE  /\ UsesLock(p, point[p] \notin PassUnlocked, point'[p] \notin PassUnlocked)
             /\ \A q \in Passes \ {p} : point'[q] = point[q]
  BY <1>7 DEF Settle, Leave
<1>8. CASE Collect(p) \/ Recover(p)
  BY <1>8 DEF Collect, Recover, Verified
<1>9. CASE HarvestPending(p) \/ HarvestRetry(p) \/ HarvestReport(p) \/ UnlaunchedReport(p)
  BY <1>9 DEF HarvestPending, HarvestRetry, HarvestReport, UnlaunchedReport, Leave
<1>10. CASE HarvestCopied(p) \/ HarvestRelease(p) \/ HarvestSeal(p) \/ UnlaunchedMark(p)
  BY <1>10 DEF HarvestCopied, HarvestRelease, HarvestSeal, UnlaunchedMark
<1>11. CASE UnlaunchedRelease(p)
  BY <1>11 DEF UnlaunchedRelease, Leave
<1> QED BY <1>1, <1>2, <1>3, <1>4, <1>5, <1>6, <1>7, <1>8, <1>9, <1>10, <1>11
       DEF PassStep, ExpireStep, SettleStep

\* A stopper holds the lock from its claim until it quits.
LEMMA StopLocks ==
    ASSUME StopTypeOK, NEW s \in Stoppers, StopStep(s)
    PROVE  /\ UsesLock(s, stage[s] # "idle", stage'[s] # "idle")
           /\ \A t \in Stoppers \ {s} : stage'[t] = stage[t]
           /\ stage[s] # "idle" \/ lock = None
<1> USE DEF world, clockVars, UsesLock, Advance, StopTypeOK
<1>1. ASSUME NEW r \in Runs, NEW word \in Endings, StopClaim(s, r, word)
      PROVE  /\ UsesLock(s, stage[s] # "idle", stage'[s] # "idle")
             /\ \A t \in Stoppers \ {s} : stage'[t] = stage[t]
             /\ stage[s] # "idle" \/ lock = None
  BY <1>1 DEF StopClaim, Acquire
<1>2. CASE Unprepare(s) \/ Disown(s) \/ StopReport(s) \/ StopCrash(s)
  BY <1>2 DEF Unprepare, Disown, StopReport, StopCrash, Quit
<1>3. CASE Abandon(s) \/ Forsake(s) \/ Capture(s) \/ Preserve(s) \/ Stop(s) \/ StopSeal(s)
  BY <1>3 DEF Abandon, Forsake, Capture, Preserve, Stop, StopSeal
<1>4. CASE Kill(s) \/ StopRelease(s)
  BY <1>4 DEF Kill, StopRelease, Quit
<1> QED BY <1>1, <1>2, <1>3, <1>4 DEF StopStep, StopWork

\* A reaper holds the lock from its listing until it retires.
LEMMA ReapLocks ==
    ASSUME ReapTypeOK, NEW k \in Reapers, ReapStep(k)
    PROVE  /\ UsesLock(k, spot[k] # "idle", spot'[k] # "idle")
           /\ \A j \in Reapers \ {k} : spot'[j] = spot[j]
           /\ spot[k] # "idle" \/ lock = None
<1> USE DEF world, clockVars, UsesLock, ReapTypeOK
<1>1. CASE ReapClaim(k)
  BY <1>1 DEF ReapClaim, Acquire
<1>2. CASE Decide(k)
  BY <1>2 DEF Decide
<1>3. ASSUME NEW r \in Runs, Apply(k, r)
      PROVE  /\ UsesLock(k, spot[k] # "idle", spot'[k] # "idle")
             /\ \A j \in Reapers \ {k} : spot'[j] = spot[j]
             /\ spot[k] # "idle" \/ lock = None
  BY <1>3 DEF Apply
<1>4. CASE ReapDone(k) \/ ReapCrash(k)
  BY <1>4 DEF ReapDone, ReapCrash, Retire
<1> QED BY <1>1, <1>2, <1>3, <1>4 DEF ReapStep, ReapWork

\* Whoever stands in the lock's scope holds the lock, after every step.
LEMMA LockKept ==
    ASSUME IInv, LockInv, [Next]_vars
    PROVE  LockInv'
<1> USE ActorsAssumption DEF LockInv
<1>i. land \in [Runs -> LandPoints] /\ PassTypeOK /\ StopTypeOK /\ ReapTypeOK
  BY Parts
<1>1. ASSUME NEW r \in Runs, Environment(r) PROVE LockInv'
  BY <1>1 DEF Environment, Passing, Appear, JobEnds, Preempted, LeasePasses, GracePasses,
              passVars, stopVars, reapVars
<1>2. CASE Drop
  BY <1>2 DEF Drop, Undeclare, passVars, stopVars, reapVars
<1>3. ASSUME NEW r \in Runs, Lander(r) PROVE LockInv'
  BY <1>3, <1>i, LandLocks DEF Lander, UsesLock, Release, passVars, stopVars, reapVars
<1>4. ASSUME NEW p \in Passes, Settler(p) PROVE LockInv'
  BY <1>4, <1>i, PassLocks DEF Settler, UsesLock, Release, stopVars, reapVars
<1>5. ASSUME NEW s \in Stoppers, Stopper(s) PROVE LockInv'
  BY <1>5, <1>i, StopLocks DEF Stopper, UsesLock, Release, passVars, reapVars
<1>6. ASSUME NEW k \in Reapers, Collector(k) PROVE LockInv'
  BY <1>6, <1>i, ReapLocks DEF Collector, UsesLock, Release, passVars, stopVars
<1>7. CASE UNCHANGED vars
  BY <1>7 DEF vars, world, passVars, stopVars, reapVars
<1> QED BY <1>1, <1>2, <1>3, <1>4, <1>5, <1>6, <1>7 DEF Next

\* While a stopper or a reaper works, nobody else is inside the lock.
LEMMA OutsideLock ==
    ASSUME LockInv, NEW x \in Stoppers \cup Reapers, lock = x \/ lock = None
    PROVE  /\ \A r \in Runs : land[r] \notin {"mark", "start"}
           /\ \A p \in Passes : point[p] \notin {"uMark", "uRelease"}
           /\ \A k \in Reapers \ {x} : spot[k] # "apply"
  BY ActorsAssumption DEF LockInv, LandLocked, PassUnlocked

\* Nothing is launched, and no evidence goes back to `not_started`.
NoLaunch(r) ==
    /\ Launched(r)' => Launched(r)
    /\ evidence'[r] = "not_started" => evidence[r] = "not_started"

\* A landing that does not move keeps what it knows of its launch.
LEMMA LaunchFrame ==
    ASSUME NEW X, RowsKept(X), NEW r \in Runs, LaunchInv(r), NoLaunch(r),
           land'[r] = land[r],
           land[r] \in {"mark", "start"} =>
              (IsSettled(r)' => IsSettled(r) \/ machine[r] = "gone")
    PROVE  LaunchInv(r)'
  BY DEF LaunchInv, NoLaunch, RowsKept

\* So does a pass, of the run it takes for unlaunched.
LEMMA UnstartedFrame ==
    ASSUME NEW p \in Passes, PassInv(p), UnstartedInv(p),
           point'[p] = point[p], flag'[p] = flag[p], at'[p] = at[p],
           point[p] \in {"uMark", "uRelease"} =>
              \A r \in Runs : Launched(r)' => Launched(r)
    PROVE  UnstartedInv(p)'
<1>1. CASE point[p] \in {"uMark", "uRelease"}
  <2>1. at[p] \in Runs
    BY <1>1 DEF PassInv, PassResting
  <2>2. PICK r \in Runs : r = at[p]
    BY <2>1
  <2>3. Launched(r)' => Launched(r)
    BY <1>1
  <2>4. Launched(at[p])' <=> Launched(r)'
    BY <2>2 DEF Launched
  <2> QED BY <2>2, <2>3, <2>4 DEF UnstartedInv
<1> QED BY <1>1 DEF UnstartedInv

\* So does a reaper, of the rows it ruled on: a bound row keeps its lease, and
\* outside the lock no closed row is reopened.
LEMMA RuledFrame ==
    ASSUME NEW X, RowsKept(X), ReapTypeOK, NEW k \in Reapers, RuledInv(k),
           spot'[k] = spot[k], listed'[k] \subseteq listed[k], ruled'[k] = ruled[k],
           spot[k] = "apply" =>
              \A r \in Runs : bound[r] =>
                 /\ Closed(r) => Closed(r)'
                 /\ Overdue(r) => Overdue(r)'
    PROVE  RuledInv(k)'
  BY DEF RuledInv, RowsKept, ReapTypeOK

LaunchedInv ==
    /\ \A r \in Runs : LaunchInv(r)
    /\ \A p \in Passes : UnstartedInv(p)
    /\ \A k \in Reapers : RuledInv(k)

\* A step that writes no row and moves no process: what it may do to jobs,
\* machines and leases disturbs nothing.
LEMMA WorldLaunch ==
    ASSUME IInv, LaunchedInv, NEW X, RowsKept(X), UNCHANGED registry,
           UNCHANGED <<land, passVars, stopVars, reapVars>>,
           \A r \in Runs : /\ Launched(r)' => Launched(r)
                           /\ term[r] = "overdue" => term'[r] = "overdue"
    PROVE  LaunchedInv'
<1> USE DEF LaunchedInv, registry, passVars, stopVars, reapVars
<1>i. ReapTypeOK /\ \A p \in Passes : PassInv(p)
  BY Parts
<1>1. \A r \in Runs : LaunchInv(r)'
  BY LaunchFrame DEF NoLaunch, IsSettled
<1>2. \A p \in Passes : UnstartedInv(p)'
  BY <1>i, UnstartedFrame
<1>3. \A k \in Reapers : RuledInv(k)'
  BY <1>i, RuledFrame DEF Closed, IsSettled, Overdue
<1> QED BY <1>1, <1>2, <1>3

\* The world on its own launches nothing and gives no lease back.
LEMMA EnvironmentLaunch ==
    ASSUME IInv, LaunchedInv, NEW r \in Runs, Environment(r)
    PROVE  LaunchedInv'
<1>i. RowsOK /\ WorldTypeOK
  BY Parts
<1>1. RowsKept({})
  BY <1>i, EnvironmentStep DEF Environment
<1>2. /\ UNCHANGED registry
      /\ \A s \in Runs : /\ Launched(s)' => Launched(s)
                         /\ term[s] = "overdue" => term'[s] = "overdue"
  <2>1. CASE Appear(r) \/ Preempted(r) \/ GracePasses(r)
    BY <2>1 DEF Appear, Preempted, GracePasses, clockVars, Launched
  <2>2. CASE JobEnds(r)
    BY <2>2, <1>i DEF JobEnds, clockVars, Launched, WorldTypeOK
  <2>3. CASE LeasePasses(r)
    BY <2>3, <1>i DEF LeasePasses, Launched, WorldTypeOK
  <2> QED BY <2>1, <2>2, <2>3 DEF Environment, Passing
<1> QED BY <1>1, <1>2, WorldLaunch DEF Environment

\* A landing launches only from the point where its row is marked, inside the
\* lock; it gives up only before that.
LEMMA LandLaunched ==
    ASSUME IInv, LockInv, LaunchedInv, NEW r \in Runs, Lander(r)
    PROVE  LaunchedInv'
<1> USE DEF registry, world, clockVars
<1>i. /\ RowsOK /\ WorldTypeOK /\ land \in [Runs -> LandPoints] /\ ReapTypeOK
      /\ \A s \in Runs : LandInv(s)
      /\ \A p \in Passes : PassInv(p)
  BY Parts
<1>s. LandStep(r)
  BY DEF Lander
<1>k. RowsKept({r}) /\ \A s \in Runs \ {r} : land'[s] = land[s]
  BY <1>i, <1>s, LandKeeps DEF LandGoal
<1>o. \A s \in Runs \ {r} :
         /\ verdict'[s] = verdict[s] /\ evidence'[s] = evidence[s] /\ job'[s] = job[s]
         /\ reported'[s] = reported[s] /\ leased'[s] = leased[s] /\ term'[s] = term[s]
  <2> USE <1>i DEF RowsOK, RegistryTypeOK, WorldTypeOK
  <2>1. CASE Allocate(r) \/ Begin(r) \/ Refused(r) \/ Created(r) \/ Interrupted(r)
    BY <2>1 DEF Allocate, Begin, Refused, Created, Interrupted, Reserve, Prepared, Reopen,
                Bind, Row
  <2>2. CASE Mark(r) \/ InterruptFail(r) \/ AbortFail(r)
    BY <2>2 DEF Mark, InterruptFail, AbortFail, Delivery, Resolve
  <2>3. CASE Start(r)
    BY <2>3 DEF Start
  <2>4. CASE \/ GiveUp(r) \/ Create(r) \/ Answered(r) \/ Boot(r) \/ Unreachable(r)
             \/ Equip(r) \/ Claim(r) \/ CheckSettled(r) \/ Abort(r) \/ AbortCancel(r)
             \/ LandCrash(r)
    BY <2>4 DEF GiveUp, Create, Answered, Boot, Unreachable, Equip, Claim, CheckSettled,
                Abort, AbortCancel, LandCrash
  <2> QED BY <1>s, <2>1, <2>2, <2>3, <2>4 DEF LandStep
<1>1. \A s \in Runs \ {r} : LaunchInv(s)'
  BY <1>k, <1>o, LaunchFrame DEF LaunchedInv, NoLaunch, Launched, IsSettled
<1>2. /\ Launched(r)' => Launched(r) \/ land[r] = "start"
      /\ bound[r] => /\ Closed(r) => Closed(r)'
                     /\ Overdue(r) => Overdue(r)'
  <2> USE <1>i DEF RowsOK, RegistryTypeOK, WorldTypeOK, Launched
  <2>1. CASE Allocate(r) \/ Begin(r) \/ Refused(r) \/ Created(r) \/ Interrupted(r)
    <3>1. \/ UNCHANGED <<registry, term>>
          \/ verdict[r] \in {NoRow, "prepared", "submitting"}
      BY <2>1 DEF Allocate, Begin, Refused, Created, Interrupted, Reserve, Exists, Prepared,
                  IsPrepared, Reopen, IsSubmitting, Bind
    <3>2. ~bound[r] \/ UNCHANGED <<registry, term>>
      BY <3>1 DEF RowInv, Pending
    <3>3. UNCHANGED job
      BY <2>1 DEF Allocate, Begin, Refused, Created, Interrupted
    <3> QED BY <3>2, <3>3 DEF Closed, IsSettled, Overdue
  <2>2. CASE InterruptFail(r) \/ AbortFail(r)
    <3>1. UNCHANGED <<job, leased, term, reported>>
      BY <2>2 DEF InterruptFail, AbortFail, Resolve
    <3> QED BY <1>k, <3>1 DEF RowsKept, Closed, IsSettled, Overdue
  <2>3. CASE Start(r)
    BY <2>3 DEF Start, Goto, Closed, IsSettled, Overdue
  <2>4. CASE Mark(r)
    BY <2>4 DEF Mark, Delivery, Closed, IsSettled, Overdue
  <2>5. CASE \/ GiveUp(r) \/ Create(r) \/ Answered(r) \/ Boot(r) \/ Unreachable(r)
             \/ Equip(r) \/ Claim(r) \/ CheckSettled(r) \/ Abort(r) \/ AbortCancel(r)
             \/ LandCrash(r)
    BY <2>5 DEF GiveUp, Create, Answered, Boot, Unreachable, Equip, Claim, CheckSettled,
                Abort, AbortCancel, LandCrash, Closed, IsSettled, Overdue
  <2> QED BY <1>s, <2>1, <2>2, <2>3, <2>4, <2>5 DEF LandStep
<1>3. LaunchInv(r)'
  <2> USE <1>i DEF RowsOK, RegistryTypeOK, WorldTypeOK, LaunchedInv, LaunchInv
  <2>0. land[r] \in LandBound => bound'[r]
    BY <1>k DEF RowsKept, LandInv
  <2>1. CASE Allocate(r) \/ Begin(r) \/ Refused(r) \/ Created(r) \/ Interrupted(r)
    <3>1. \/ UNCHANGED <<registry, job>>
          \/ verdict[r] \in {NoRow, "prepared", "submitting"} /\ UNCHANGED job
      BY <2>1 DEF Allocate, Begin, Refused, Created, Interrupted, Reserve, Exists, Prepared,
                  IsPrepared, Reopen, IsSubmitting, Bind
    <3>2. ~Launched(r)' \/ UNCHANGED <<registry, job>>
      BY <3>1 DEF RowInv, Pending, Launched
    <3>4. land'[r] \notin {"mark", "start", "abortFail", "abortCancel"}
      <4>1. CASE Allocate(r) \/ Refused(r)
        BY <4>1 DEF Allocate, Refused, Goto
      <4>2. CASE Begin(r)
        BY <4>2 DEF Begin, Goto
      <4>3. CASE Created(r)
        BY <4>3 DEF Created, Goto
      <4>4. CASE Interrupted(r)
        BY <4>4 DEF Interrupted, Goto
      <4> QED BY <2>1, <4>1, <4>2, <4>3, <4>4
    <3> QED BY <3>2, <3>4 DEF Launched
  <2>2. CASE InterruptFail(r)
    BY <2>2, <2>0 DEF Goto, InterruptFail, Resolve, Launched, LandBound
  <2>3. CASE AbortFail(r)
    BY <2>3, <2>0 DEF Goto, AbortFail, Resolve, Launched, LandBound
  <2>4. CASE Start(r)
    BY <2>4, <2>0 DEF Goto, Start, Launched, LandBound
  <2>5. CASE Mark(r)
    BY <2>5, <2>0 DEF Goto, Mark, Delivery, Launched, LandBound, IsSettled
  <2>6. CASE CheckSettled(r)
    BY <2>6, <2>0 DEF Goto, CheckSettled, Launched, LandBound, IsSettled
  <2>7. CASE Abort(r)
    BY <2>7, <2>0 DEF Goto, Abort, Launched, LandBound
  <2>8. CASE \/ GiveUp(r) \/ Create(r) \/ Answered(r) \/ Boot(r) \/ Unreachable(r)
             \/ Equip(r) \/ Claim(r) \/ AbortCancel(r) \/ LandCrash(r)
    BY <2>8 DEF Goto, GiveUp, Create, Answered, Boot, Unreachable, Equip, Claim, AbortCancel,
                LandCrash, Launched
  <2> QED BY <1>s, <2>1, <2>2, <2>3, <2>4, <2>5, <2>6, <2>7, <2>8 DEF LandStep
<1>4. \A p \in Passes : UnstartedInv(p)'
  <2> SUFFICES ASSUME NEW p \in Passes PROVE UnstartedInv(p)'
    OBVIOUS
  <2>1. point[p] \in {"uMark", "uRelease"} => land[r] # "start"
    BY ActorsAssumption DEF LockInv, LandLocked, PassUnlocked
  <2>2. point[p] \in {"uMark", "uRelease"} => \A s \in Runs : Launched(s)' => Launched(s)
    BY <2>1, <1>2, <1>o DEF Launched
  <2> QED BY <2>2, <1>i, UnstartedFrame DEF LaunchedInv, Lander, passVars
<1>5. \A k \in Reapers : RuledInv(k)'
  <2>1. \A s \in Runs : bound[s] => /\ Closed(s) => Closed(s)'
                                    /\ Overdue(s) => Overdue(s)'
    BY <1>2, <1>o DEF Closed, IsSettled, Overdue
  <2> QED BY <2>1, <1>i, <1>k, RuledFrame DEF LaunchedInv, Lander, reapVars
<1> QED BY <1>1, <1>3, <1>4, <1>5 DEF LaunchedInv

\* What a step of a settling pass writes: no job, no lease, and `not_started`
\* only where it was or where the pass takes the run for unlaunched; it settles
\* and reopens rows only inside the lock or with the machine gone.
LEMMA PassWrites ==
    ASSUME RowsOK, PassTypeOK, NEW p \in Passes, PassInv(p), PassStep(p)
    PROVE  /\ UNCHANGED <<job, term, leased>>
           /\ \A r \in Runs :
                 /\ evidence'[r] = "not_started" =>
                       \/ evidence[r] = "not_started"
                       \/ point[p] = "uMark" /\ r = at[p]
                 /\ IsSettled(r)' =>
                       IsSettled(r) \/ machine[r] = "gone" \/ point[p] \notin PassUnlocked
                 /\ Closed(r) => Closed(r)' \/ point[p] \notin PassUnlocked
<1> DEFINE Goal ==
           /\ UNCHANGED <<job, term, leased>>
           /\ \A r \in Runs :
                 /\ evidence'[r] = "not_started" =>
                       \/ evidence[r] = "not_started"
                       \/ point[p] = "uMark" /\ r = at[p]
                 /\ IsSettled(r)' =>
                       IsSettled(r) \/ machine[r] = "gone" \/ point[p] \notin PassUnlocked
                 /\ Closed(r) => Closed(r)' \/ point[p] \notin PassUnlocked
<1> SUFFICES Goal
  OBVIOUS
<1> USE DEF registry, world, clockVars
<1>n. ASSUME UNCHANGED <<job, term, registry>> PROVE Goal
  BY <1>n DEF IsSettled, Closed
<1>e. ASSUME NEW status, status # "not_started", Evidence(at[p], status), UNCHANGED <<job, term>>
      PROVE  Goal
  BY <1>e DEF Evidence, Delivery, IsSettled, Closed, RowsOK, RegistryTypeOK
<1>1. CASE ExpireMark(p) \/ ExpireSeal(p)
  BY <1>1, <1>e, <1>n DEF ExpireMark, ExpireSeal
<1>2. CASE HarvestPending(p) \/ HarvestCopied(p) \/ HarvestRetry(p) \/ HarvestSeal(p)
  BY <1>2, <1>e DEF HarvestPending, HarvestCopied, HarvestRetry, HarvestSeal
<1>3. CASE UnlaunchedMark(p)
  BY <1>3 DEF UnlaunchedMark, Move, Evidence, Delivery, IsSettled, Closed, RowsOK,
              RegistryTypeOK
<1>4. CASE ExpireClose(p)
  <2>1. at[p] \in Runs /\ bound[at[p]] /\ machine[at[p]] = "gone"
    BY <1>4, AtBound DEF ExpireClose, Move, PassResting, PassReleased
  <2>2. RowsKept({})
    BY <1>4, <2>1, ResolveWrite DEF ExpireClose
  <2>3. /\ UNCHANGED <<job, term, leased, evidence, reported>>
        /\ \A r \in Runs \ {at[p]} : verdict'[r] = verdict[r]
    BY <1>4 DEF ExpireClose, Resolve, RowsOK, RegistryTypeOK
  <2> QED BY <2>1, <2>2, <2>3 DEF RowsKept, IsSettled, Closed
<1>5. CASE ExpireReport(p)
  BY <1>5 DEF ExpireReport, Report, IsSettled, Closed, RowsOK, RegistryTypeOK
<1>6. CASE HarvestReport(p) \/ UnlaunchedReport(p)
  BY <1>6 DEF HarvestReport, UnlaunchedReport, Report, IsSettled, PassUnlocked
<1>7. ASSUME NEW r \in Runs, Settle(p, r) PROVE Goal
  BY <1>7 DEF Settle, Resolve, PassUnlocked
<1>8. ASSUME NEW r \in Runs, ExpireRead(p, r) \/ Poll(p, r) PROVE Goal
  BY <1>8, <1>n DEF ExpireRead, Poll
<1>9. CASE \/ PassStart(p) \/ ExpireCancel(p) \/ ExpireStuck(p) \/ PassClaim(p)
           \/ PassBusy(p) \/ Collect(p) \/ Recover(p) \/ HarvestRelease(p)
           \/ UnlaunchedRelease(p) \/ PassDone(p) \/ PassCrash(p)
  BY <1>9, <1>n DEF PassStart, ExpireCancel, ExpireStuck, PassClaim, PassBusy, Collect,
                    Recover, HarvestRelease, UnlaunchedRelease, PassDone, PassCrash
<1> HIDE DEF Goal
<1> QED BY <1>1, <1>2, <1>3, <1>4, <1>5, <1>6, <1>7, <1>8, <1>9
       DEF PassStep, ExpireStep, SettleStep

\* A pass decides about its own run only.
LEMMA PassFlag ==
    ASSUME PassTypeOK, NEW p \in Passes, PassStep(p), NEW q \in Passes \ {p}
    PROVE  flag'[q] = flag[q]
<1> USE DEF PassTypeOK, Take, KeepRun
<1>1. CASE ExpireStep(p)
  BY <1>1 DEF ExpireStep, PassStart, ExpireRead, ExpireMark, ExpireCancel, ExpireClose,
              ExpireSeal, ExpireReport, ExpireStuck, Expiring
<1>2. CASE PassCrash(p)
  BY <1>2 DEF PassCrash
<1>3. CASE SettleStep(p)
  <2>1. CASE PassClaim(p) \/ PassBusy(p) \/ PassDone(p)
    BY <2>1 DEF PassClaim, PassBusy, PassDone
  <2>2. ASSUME NEW r \in Runs, Poll(p, r) \/ Settle(p, r) PROVE flag'[q] = flag[q]
    BY <2>2 DEF Poll, Settle, Leave
  <2>3. CASE Collect(p) \/ Recover(p)
    BY <2>3 DEF Collect, Recover, Verified
  <2>4. CASE \/ HarvestPending(p) \/ HarvestCopied(p) \/ HarvestRelease(p)
             \/ HarvestRetry(p) \/ HarvestSeal(p) \/ HarvestReport(p)
    BY <2>4 DEF HarvestPending, HarvestCopied, HarvestRelease, HarvestRetry, HarvestSeal,
                HarvestReport, Leave
  <2>5. CASE UnlaunchedRelease(p) \/ UnlaunchedMark(p) \/ UnlaunchedReport(p)
    BY <2>5 DEF UnlaunchedRelease, UnlaunchedMark, UnlaunchedReport, Leave
  <2> QED BY <1>3, <2>1, <2>2, <2>3, <2>4, <2>5 DEF SettleStep
<1> QED BY <1>1, <1>2, <1>3 DEF PassStep

\* Where a pass takes a run for unlaunched: settled with `not_started` on the
\* record, then released, then marked.
LEMMA PassUnstarted ==
    ASSUME IInv, LaunchedInv, NEW p \in Passes, PassStep(p)
    PROVE  UnstartedInv(p)'
<1> USE DEF PassTypeOK
<1>i. PassTypeOK /\ PassInv(p) /\ RowsOK
  BY Parts
<1>j. job' = job
  BY <1>i, PassWrites
<1>1. CASE UnlaunchedRelease(p)
  <2>1. CASE UNCHANGED machine /\ Leave(p, at[p])
    BY <1>i, <2>1 DEF Leave, UnstartedInv
  <2>2. CASE EndMachine(at[p]) /\ KeepRun
             /\ Move(p, "uRelease", IF flag[p] THEN "uReport" ELSE "uMark")
    BY <1>i, <1>j, <2>2 DEF Move, KeepRun, UnstartedInv, LaunchedInv, Launched
  <2> QED BY <1>1, <2>1, <2>2 DEF UnlaunchedRelease
<1>2. ASSUME NEW r \in Runs, Settle(p, r) PROVE UnstartedInv(p)'
  <2>1. CASE Leave(p, r)
    BY <1>i, <2>1 DEF Leave, UnstartedInv
  <2>2. CASE Unlaunched(r) /\ Move(p, "settle", "uRelease") /\ Take(p, r, Discarded(r))
    <3>1. point'[p] = "uRelease" /\ at'[p] = r /\ flag'[p] = Discarded(r)
      BY <1>i, <2>2 DEF Move, Take
    <3>2. ~Discarded(r) => ~Launched(r)
      BY <2>2 DEF Unlaunched, LaunchedInv, LaunchInv
    <3>3. Launched(r)' <=> Launched(r)
      BY <1>j DEF Launched
    <3> QED BY <3>1, <3>2, <3>3 DEF UnstartedInv, Launched
  <2>3. CASE point'[p] \in {"recover", "collect"}
    BY <2>3 DEF UnstartedInv
  <2> QED BY <1>i, <1>2, <2>1, <2>2, <2>3 DEF Settle, Move
<1>3. CASE point'[p] \notin {"uRelease", "uMark"}
  BY <1>3 DEF UnstartedInv
<1>4. CASE ~UnlaunchedRelease(p) /\ ~(\E r \in Runs : Settle(p, r))
  <2>1. point'[p] \notin {"uRelease", "uMark"}
    <3> USE <1>i DEF Move
    <3>1. CASE PassStart(p) \/ ExpireMark(p) \/ ExpireClose(p) \/ ExpireSeal(p)
      BY <3>1 DEF PassStart, ExpireMark, ExpireClose, ExpireSeal
    <3>2. CASE ExpireCancel(p) \/ ExpireReport(p) \/ ExpireStuck(p)
      BY <3>2 DEF ExpireCancel, ExpireReport, ExpireStuck, Expiring
    <3>3. CASE PassClaim(p) \/ PassBusy(p) \/ PassDone(p) \/ PassCrash(p)
      BY <3>3 DEF PassClaim, PassBusy, PassDone, PassCrash
    <3>4. ASSUME NEW r \in Runs, ExpireRead(p, r) \/ Poll(p, r)
          PROVE  point'[p] \notin {"uRelease", "uMark"}
      BY <3>4 DEF ExpireRead, Poll, Leave
    <3>5. CASE Collect(p) \/ Recover(p)
      BY <3>5 DEF Collect, Recover, Verified
    <3>6. CASE HarvestPending(p) \/ HarvestRetry(p) \/ HarvestReport(p) \/ UnlaunchedReport(p)
      BY <3>6 DEF HarvestPending, HarvestRetry, HarvestReport, UnlaunchedReport, Leave
    <3>7. CASE HarvestCopied(p) \/ HarvestRelease(p) \/ HarvestSeal(p) \/ UnlaunchedMark(p)
      BY <3>7 DEF HarvestCopied, HarvestRelease, HarvestSeal, UnlaunchedMark
    <3> QED BY <1>4, <3>1, <3>2, <3>3, <3>4, <3>5, <3>6, <3>7
           DEF PassStep, ExpireStep, SettleStep
  <2> QED BY <2>1 DEF UnstartedInv
<1> QED BY <1>1, <1>2, <1>4

\* A settling pass launches nothing, and what the lock protects from it stays.
LEMMA PassLaunched ==
    ASSUME IInv, LockInv, LaunchedInv, NEW p \in Passes, Settler(p)
    PROVE  LaunchedInv'
<1>i. /\ RowsOK /\ WorldTypeOK /\ PassTypeOK /\ ReapTypeOK
      /\ \A q \in Passes : PassInv(q)
  BY Parts
<1>s. PassStep(p)
  BY DEF Settler
<1>k. RowsKept({}) /\ \A q \in Passes \ {p} : point'[q] = point[q] /\ at'[q] = at[q]
  BY <1>i, <1>s, PassKeeps DEF PassGoal, PassOthers
<1>w. /\ UNCHANGED <<job, term, leased>>
      /\ \A r \in Runs :
            /\ evidence'[r] = "not_started" =>
                  \/ evidence[r] = "not_started"
                  \/ point[p] = "uMark" /\ r = at[p]
            /\ IsSettled(r)' =>
                  IsSettled(r) \/ machine[r] = "gone" \/ point[p] \notin PassUnlocked
            /\ Closed(r) => Closed(r)' \/ point[p] \notin PassUnlocked
  BY <1>i, <1>s, PassWrites
<1>1. \A r \in Runs : LaunchInv(r)'
  <2> SUFFICES ASSUME NEW r \in Runs PROVE LaunchInv(r)'
    OBVIOUS
  <2>1. land[r] \in {"mark", "start"} => point[p] \in PassUnlocked
    BY ActorsAssumption DEF LockInv, LandLocked
  <2>2. CASE NoLaunch(r)
    BY <1>k, <1>w, <2>1, <2>2, LaunchFrame DEF LaunchedInv, Settler
  <2>3. CASE ~NoLaunch(r)
    <3>1. point[p] = "uMark" /\ r = at[p]
      BY <1>w, <2>3 DEF NoLaunch, Launched
    <3>2. ~Launched(r) /\ ~Launched(r)'
      BY <1>w, <3>1 DEF LaunchedInv, UnstartedInv, Launched
    <3>3. land'[r] = land[r] /\ land[r] \notin {"mark", "start"}
      BY <2>1, <3>1 DEF PassUnlocked, Settler
    <3> QED BY <3>2, <3>3 DEF LaunchInv
  <2> QED BY <2>2, <2>3
<1>2. \A q \in Passes : UnstartedInv(q)'
  <2>1. UnstartedInv(p)'
    BY <1>s, PassUnstarted
  <2>2. ASSUME NEW q \in Passes \ {p} PROVE UnstartedInv(q)'
    <3>1. point[q] \in {"uMark", "uRelease"} => lock = q
      BY DEF LockInv, PassUnlocked
    <3>2. flag'[q] = flag[q]
      BY <1>i, <1>s, PassFlag
    <3>3. \A r \in Runs : Launched(r)' => Launched(r)
      BY <1>w DEF Launched
    <3> QED BY <1>i, <1>k, <3>2, <3>3, UnstartedFrame DEF LaunchedInv
  <2> QED BY <2>1, <2>2
<1>3. \A k \in Reapers : RuledInv(k)'
  <2> SUFFICES ASSUME NEW k \in Reapers PROVE RuledInv(k)'
    OBVIOUS
  <2>1. spot[k] = "apply" => point[p] \in PassUnlocked
    BY ActorsAssumption DEF LockInv
  <2>2. spot'[k] = spot[k] /\ listed'[k] \subseteq listed[k] /\ ruled'[k] = ruled[k]
    BY DEF Settler, reapVars
  <2>3. spot[k] = "apply" => \A r \in Runs : /\ Closed(r) => Closed(r)'
                                             /\ Overdue(r) => Overdue(r)'
    BY <1>w, <2>1 DEF Overdue
  <2> QED BY <1>i, <1>k, <2>2, <2>3, RuledFrame DEF LaunchedInv
<1> QED BY <1>1, <1>2, <1>3 DEF LaunchedInv

\* A stopper works alone inside the lock; it writes `not_started` nowhere.
LEMMA StopLaunched ==
    ASSUME IInv, LockInv, LaunchedInv, NEW s \in Stoppers, Stopper(s)
    PROVE  LaunchedInv'
<1> USE DEF registry, world, clockVars
<1>i. /\ RowsOK /\ WorldTypeOK /\ StopTypeOK /\ ReapTypeOK /\ StopInv(s)
      /\ \A p \in Passes : PassInv(p)
  BY Parts
<1>s. StopStep(s)
  BY DEF Stopper
<1>k. RowsKept({}) /\ (stage[s] # "idle" \/ lock = None)
  BY <1>i, <1>s, StopKeeps, StopLocks DEF StopGoal
<1>o. /\ \A r \in Runs : land[r] \notin {"mark", "start"}
      /\ \A p \in Passes : point[p] \notin {"uMark", "uRelease"}
      /\ \A k \in Reapers : spot[k] # "apply"
  BY <1>k, OutsideLock, ActorsAssumption DEF LockInv
<1>w. /\ job' = job
      /\ \A r \in Runs : evidence'[r] = "not_started" => evidence[r] = "not_started"
  <2> USE <1>i DEF RowsOK, RegistryTypeOK
  <2>1. CASE Abandon(s) \/ Preserve(s) \/ StopSeal(s)
    BY <2>1 DEF Abandon, Preserve, StopSeal, Evidence, Delivery
  <2>2. CASE Unprepare(s)
    <3>1. run[s] \in Runs
      BY <2>2 DEF Unprepare, StopInv
    <3> QED BY <2>2, <3>1 DEF Unprepare, Prepared, Row
  <2>3. CASE Forsake(s) \/ Stop(s)
    BY <2>3 DEF Forsake, Stop, Resolve
  <2>4. CASE Disown(s) \/ StopReport(s)
    BY <2>4 DEF Disown, StopReport, Report
  <2>5. CASE Capture(s) \/ Kill(s) \/ StopRelease(s) \/ StopCrash(s)
    BY <2>5 DEF Capture, Kill, StopRelease, StopCrash
  <2>6. CASE \E r \in Runs, word \in Endings : StopClaim(s, r, word)
    BY <2>6 DEF StopClaim
  <2> QED BY <1>s, <2>1, <2>2, <2>3, <2>4, <2>5, <2>6 DEF StopStep, StopWork
<1>1. \A r \in Runs : LaunchInv(r)'
  BY <1>k, <1>o, <1>w, LaunchFrame DEF LaunchedInv, Stopper, NoLaunch, Launched
<1>2. \A p \in Passes : UnstartedInv(p)'
  BY <1>o DEF UnstartedInv, Stopper, passVars
<1>3. \A k \in Reapers : RuledInv(k)'
  BY <1>o DEF RuledInv, Stopper, reapVars
<1> QED BY <1>1, <1>2, <1>3 DEF LaunchedInv

\* A reaper works alone inside the lock, and rules on rows as they stand.
LEMMA ReapLaunched ==
    ASSUME IInv, LockInv, LaunchedInv, NEW k \in Reapers, Collector(k)
    PROVE  LaunchedInv'
<1> USE DEF registry, world, clockVars
<1>i. RowsOK /\ WorldTypeOK /\ ReapTypeOK /\ ReapInv(k)
  BY Parts
<1>s. ReapStep(k)
  BY DEF Collector
<1>k. RowsKept({}) /\ (spot[k] # "idle" \/ lock = None)
  BY <1>i, <1>s, ReapKeeps, ReapLocks DEF ReapGoal
<1>o. /\ \A r \in Runs : land[r] \notin {"mark", "start"}
      /\ \A p \in Passes : point[p] \notin {"uMark", "uRelease"}
      /\ \A j \in Reapers \ {k} : spot[j] # "apply"
  BY <1>k, OutsideLock DEF LockInv
<1>w. /\ job' = job
      /\ \A r \in Runs : evidence'[r] = evidence[r]
  <2>1. ASSUME NEW r \in Runs, Apply(k, r)
        PROVE  job' = job /\ \A s \in Runs : evidence'[s] = evidence[s]
    BY <2>1, <1>i DEF Apply, Bind, Row, RowsOK, RegistryTypeOK
  <2>2. CASE ReapClaim(k) \/ Decide(k) \/ Retire(k)
    BY <2>2 DEF ReapClaim, Decide, Retire
  <2> QED BY <1>s, <2>1, <2>2 DEF ReapStep, ReapWork, ReapDone, ReapCrash
<1>1. \A r \in Runs : LaunchInv(r)'
  BY <1>k, <1>o, <1>w, LaunchFrame DEF LaunchedInv, Collector, NoLaunch, Launched
<1>2. \A p \in Passes : UnstartedInv(p)'
  BY <1>o DEF UnstartedInv, Collector, passVars
<1>3. \A j \in Reapers \ {k} : RuledInv(j)'
  BY <1>i, <1>o, <1>s, ReapLocks DEF RuledInv
<1>4. RuledInv(k)'
  <2>1. CASE ReapClaim(k) \/ Retire(k)
    BY <2>1, <1>i DEF ReapClaim, Retire, RuledInv, ReapTypeOK
  <2>2. CASE Decide(k)
    <3> SUFFICES ASSUME NEW r \in listed'[k], ruled'[k][r] = "end"
                 PROVE  bound'[r] /\ (Closed(r)' \/ Overdue(r)')
      BY DEF RuledInv
    <3>1. r \in listed[k] /\ r \in Runs /\ ruled'[k][r] = Ruling(r)
      BY <2>2, <1>i DEF Decide, ReapTypeOK
    <3>2. verdict[r] \notin {"prepared", "submitting"} /\ (Closed(r) \/ Overdue(r))
      <4>1. Ruling(r) = "end"
        BY <3>1
      <4>2. ~IsPrepared(r)
        BY <4>1 DEF Ruling
      <4>3. ~IsSubmitting(r)
        BY <4>1, <4>2 DEF Ruling
      <4>4. Closed(r) \/ Overdue(r)
        BY <4>1, <4>2, <4>3 DEF Ruling
      <4> QED BY <4>2, <4>3, <4>4 DEF IsPrepared, IsSubmitting
    <3>3. bound[r]
      BY <1>i, <3>1, <3>2 DEF ReapInv, RowsOK, RowInv
    <3> QED BY <2>2, <3>2, <3>3 DEF Decide, Closed, IsSettled, Overdue
  <2>3. ASSUME NEW r \in Runs, Apply(k, r) PROVE RuledInv(k)'
    <3>1. /\ spot' = spot /\ ruled' = ruled /\ listed'[k] \subseteq listed[k]
      BY <2>3, <1>i DEF Apply, ReapTypeOK
    <3>2. \A s \in Runs : bound[s] => /\ Closed(s) => Closed(s)'
                                      /\ Overdue(s) => Overdue(s)'
      <4>1. CASE Bind(r)
        <5>1. ~bound[r]
          BY <4>1, <1>i DEF Bind, IsSubmitting, RowsOK, RowInv, Pending
        <5> QED BY <2>3, <4>1, <5>1, <1>i
               DEF Apply, Bind, Row, Closed, IsSettled, Overdue, RowsOK, RegistryTypeOK
      <4>2. CASE UNCHANGED registry
        BY <2>3, <4>2 DEF Apply, Closed, IsSettled, Overdue
      <4> QED BY <2>3, <4>1, <4>2 DEF Apply
    <3> QED BY <1>i, <1>k, <3>1, <3>2, RuledFrame DEF LaunchedInv
  <2> QED BY <1>s, <2>1, <2>2, <2>3 DEF ReapStep, ReapWork, ReapDone, ReapCrash
<1> QED BY <1>1, <1>2, <1>3, <1>4 DEF LaunchedInv

\* The invariant of the lock is inductive together with IInv.
LEMMA StepLocked == IInv /\ LockedInv /\ [Next]_vars => LockedInv'
<1> SUFFICES ASSUME IInv, LockInv, LaunchedInv, [Next]_vars PROVE LaunchedInv'
  BY LockKept DEF LockedInv, LaunchedInv
<1>1. CASE Drop
  <2>1. RowsKept({})
    BY <1>1, Parts, UndeclareStep DEF Drop
  <2> QED BY <1>1, <2>1, WorldLaunch DEF Drop, Undeclare, Launched
<1>2. CASE UNCHANGED vars
  <2>1. RowsKept({})
    BY <1>2, Parts, NoWrite DEF vars, world, clockVars
  <2> QED BY <1>2, <2>1, WorldLaunch DEF vars, world, clockVars, Launched
<1> QED BY <1>1, <1>2, EnvironmentLaunch, LandLaunched, PassLaunched, StopLaunched,
           ReapLaunched DEF Next

\* Whoever is inside the settlement lock holds it, and what was decided there
\* stands until it is acted on.
LEMMA LockedHolds == Spec => []LockedInv
  BY LifecycleInvariant, InitLocked, StepLocked, PTL DEF Spec

\* A job is handed over only to an unsettled row, although Landing.equip reads
\* the row, marks it and launches in three steps.
THEOREM LifecycleLaunch == Spec => LaunchOnlyUnsettled
<1>1. ASSUME IInv, LockedInv, [Next]_vars, NEW r \in Runs, job[r] = "idle", job'[r] = "running"
      PROVE  ~IsSettled(r)
  <2>i. /\ RowsOK /\ WorldTypeOK /\ PassTypeOK
        /\ \A p \in Passes : PassInv(p)
    BY <1>1, Parts
  <2> USE DEF world, clockVars
  <2>1. PICK s \in Runs : Lander(s)
    <3>1. ASSUME NEW s \in Runs, Environment(s) PROVE FALSE
      BY <1>1, <3>1, <2>i DEF Environment, Passing, Appear, JobEnds, Preempted, LeasePasses,
                         GracePasses, WorldTypeOK
    <3>2. ~Drop /\ ~UNCHANGED vars
      BY <1>1 DEF Drop, Undeclare, vars
    <3>3. ASSUME NEW p \in Passes, Settler(p) PROVE FALSE
      BY <1>1, <3>3, <2>i, PassWrites DEF Settler
    <3>4. ASSUME NEW q \in Stoppers, Stopper(q) PROVE FALSE
      BY <1>1, <3>4 DEF Stopper, StopStep, StopWork, Unprepare, Abandon, Forsake, Disown,
           Capture, Preserve, Kill, Stop, StopRelease, StopSeal, StopReport, StopCrash,
           StopClaim
    <3>5. ASSUME NEW k \in Reapers, Collector(k) PROVE FALSE
      BY <1>1, <3>5 DEF Collector, ReapStep, ReapWork, ReapClaim, Decide, Apply, ReapDone,
           ReapCrash, Retire
    <3> QED BY <1>1, <3>1, <3>2, <3>3, <3>4, <3>5 DEF Next
  <2>2. Start(s)
    BY <1>1, <2>1 DEF Lander, LandStep, Allocate, GiveUp, Begin, Create, Answered, Refused,
         Created, Boot, Unreachable, Interrupted, InterruptFail, Equip, Claim, CheckSettled,
         Mark, Abort, AbortFail, AbortCancel, LandCrash
  <2>3. s = r /\ machine[r] = "up" /\ land[r] = "start"
    BY <1>1, <2>2, <2>i DEF Start, Goto, WorldTypeOK
  <2> QED BY <1>1, <2>3 DEF LockedInv, LaunchInv
<1>2. IInv /\ LockedInv /\ [Next]_vars =>
        [\A r \in Runs : job[r] = "idle" /\ job'[r] = "running" => ~IsSettled(r)]_vars
  BY <1>1
<1> QED BY <1>2, LifecycleInvariant, LockedHolds, PTL DEF Spec, LaunchOnlyUnsettled

\* A landing that gives up ends its machine only when nothing was launched on
\* it (Landing._abort).
THEOREM LifecycleAbort == Spec => AbortSparesLaunched
<1>1. LockedInv => \A r \in Runs : land[r] = "abortCancel" => ~Launched(r)
  BY DEF LockedInv, LaunchInv
<1>2. LockedInv /\ [Next]_vars =>
        [\A r \in Runs :
            /\ land[r] = "abortCancel" /\ land'[r] = "done"
            /\ machine'[r] # machine[r]
            => ~Launched(r)]_vars
  BY <1>1
<1> QED BY <1>2, LockedHolds, PTL DEF Spec, AbortSparesLaunched

\* The reaper ends only what is closed or overdue at that moment
\* (Reaper._attempt), although it ruled on an earlier reading of the row.
THEOREM LifecycleReaper == Spec => ReaperSpares
<1>1. ASSUME IInv, LockedInv, [Next]_vars, NEW k \in Reapers, NEW r \in Runs,
             spot[k] = "apply", listed'[k] # listed[k], machine'[r] # machine[r]
      PROVE  Closed(r) \/ Overdue(r)
  <2>i. ReapTypeOK
    BY <1>1, Parts
  <2>1. PICK j \in Reapers : Collector(j)
    BY <1>1 DEF Next, Environment, Drop, Lander, Settler, Stopper, vars, reapVars
  <2>2. j = k
    BY <1>1, <2>1, <2>i, Parts, ReapKeeps DEF Collector, ReapGoal
  <2>3. PICK s \in Runs : Apply(k, s)
    BY <1>1, <2>1, <2>2 DEF Collector, ReapStep, ReapWork, ReapClaim, Decide, ReapDone,
         ReapCrash, Retire, world
  <2>4. EndMachine(s) /\ ruled[k][s] = "end" /\ s \in listed[k] /\ s = r
    BY <1>1, <2>3, Parts DEF Apply, EndMachine, RowsOK
  <2> QED BY <1>1, <2>4 DEF LockedInv, RuledInv
<1>2. IInv /\ LockedInv /\ [Next]_vars =>
        [\A k \in Reapers, r \in Runs :
            spot[k] = "apply" /\ listed'[k] # listed[k] /\ machine'[r] # machine[r]
            => Closed(r) \/ Overdue(r)]_vars
  BY <1>1
<1> QED BY <1>2, LifecycleInvariant, LockedHolds, PTL DEF Spec, ReaperSpares

(***************************************************************************)
(* Evidence of a run that nobody stops by hand: a job that is over stays   *)
(* over, so what is read after it is the whole log, and what was decided   *)
(* to be whole stays so.  EvidenceStep(r) says what a step may do to the   *)
(* evidence of run r, unless it is a stopper's at r.                       *)
(***************************************************************************)
EvidenceStep(r) ==
    /\ land[r] \in LandOver => land'[r] \in LandOver
    /\ land'[r] \notin {"abort", "done"} => ~Launched(r)'
    /\ Launched(r)' => Launched(r) \/ (land[r] = "start" /\ machine[r] = "up" /\ job[r] = "idle")
    /\ Ended(r) => Ended(r)'
    /\ job[r] = "unlanded" => job'[r] = "unlanded"
    /\ log'[r] # log[r] => log'[r] = "full" \/ (log'[r] = "partial" /\ Jobless(r))
    /\ evidence'[r] \in Copied \/ event'[r] = "copied" =>
          evidence[r] \in Copied \/ event[r] = "copied" \/ Whole(r)
    /\ IsSettled(r)' => IsSettled(r) \/ Over(r)

\* What is over stays over, what is whole stays whole.
LEMMA OverStays ==
    ASSUME NEW X, RowsKept(X), NEW r \in Runs, EvidenceStep(r)
    PROVE  /\ Jobless(r) => Jobless(r)'
           /\ Over(r) => Over(r)'
           /\ Whole(r) => Whole(r)'
<1>1. machine[r] = "gone" => machine'[r] = "gone"
  BY DEF RowsKept
<1>2. Jobless(r) => Jobless(r)'
  BY <1>1 DEF EvidenceStep, Jobless, LandOver
<1> QED BY <1>1, <1>2 DEF EvidenceStep, Over, Whole

\* So the row's part of the invariant is kept.
LEMMA RowEvidence ==
    ASSUME NEW X, RowsKept(X), NEW r \in Runs, EvidenceRow(r), EvidenceStep(r)
    PROVE  EvidenceRow(r)'
<1>1. /\ Jobless(r) => Jobless(r)'
      /\ Over(r) => Over(r)'
      /\ Whole(r) => Whole(r)'
  BY OverStays
<1> QED BY <1>1 DEF EvidenceRow, EvidenceStep

\* And that of a pass that rests.
LEMMA PassEvidenceFrame ==
    ASSUME NEW X, RowsKept(X), NEW r \in Runs, EvidenceStep(r),
           NEW p \in Passes, EvidencePass(p, r),
           point'[p] = point[p], told'[p] = told[p], at'[p] = at[p], flag'[p] = flag[p]
    PROVE  EvidencePass(p, r)'
<1>1. (Over(r) => Over(r)') /\ (Whole(r) => Whole(r)')
  BY OverStays
<1> QED BY <1>1 DEF EvidencePass

\* A step that leaves a run's job, log, evidence and verdict alone.
SameRun(r) ==
    /\ job'[r] = job[r] /\ log'[r] = log[r] /\ event'[r] = event[r]
    /\ evidence'[r] = evidence[r] /\ verdict'[r] = verdict[r] /\ land'[r] = land[r]

LEMMA SameRunStep ==
    ASSUME NEW r \in Runs, EvidenceRow(r), SameRun(r)
    PROVE  EvidenceStep(r)
  BY DEF SameRun, EvidenceStep, EvidenceRow, Launched, Ended, IsSettled

\* The world acting by itself ends jobs and launches none.
LEMMA EnvironmentEvidence ==
    ASSUME RowsOK, WorldTypeOK, NEW r \in Runs, Environment(r),
           NEW s \in Runs, EvidenceRow(s)
    PROVE  EvidenceStep(s)
<1> USE DEF Environment, registry, clockVars
<1>1. CASE Appear(r) \/ Preempted(r) \/ LeasePasses(r) \/ GracePasses(r)
  BY <1>1, SameRunStep DEF Appear, Preempted, LeasePasses, GracePasses, SameRun
<1>2. CASE JobEnds(r)
  <2>1. CASE s # r
    BY <1>2, <2>1, SameRunStep DEF JobEnds, SameRun, WorldTypeOK
  <2>2. CASE s = r
    BY <1>2, <2>2 DEF JobEnds, WorldTypeOK, EvidenceStep, EvidenceRow, Launched, Ended,
                      IsSettled
  <2> QED BY <2>1, <2>2
<1> QED BY <1>1, <1>2 DEF Passing

\* A landing that settles its row has launched nothing and will not; the one
\* that launches has the row still open.
LEMMA LandEvidence ==
    ASSUME RowsOK, WorldTypeOK, land \in [Runs -> LandPoints], NEW r \in Runs, LandStep(r),
           LaunchInv(r), NEW s \in Runs, EvidenceRow(s)
    PROVE  EvidenceStep(s)
<1> USE DEF registry, world, clockVars, Goto, LandOver
<1>r. /\ verdict \in [Runs -> Words \cup {NoRow, Unresolved}]
      /\ evidence \in [Runs -> Deliveries] /\ log \in [Runs -> {"unread", "partial", "full"}]
      /\ job \in [Runs -> {"idle", "running", "ok", "failed", "unlanded"}]
  BY DEF RowsOK, RegistryTypeOK, WorldTypeOK
<1>1. CASE s # r
  <2>1. SameRun(s)
    <3> USE <1>r, <1>1 DEF SameRun
    <3>1. CASE \/ GiveUp(r) \/ Create(r) \/ Answered(r) \/ Boot(r) \/ Unreachable(r)
               \/ Equip(r) \/ Claim(r) \/ CheckSettled(r) \/ Abort(r) \/ AbortCancel(r)
               \/ LandCrash(r)
      BY <3>1 DEF GiveUp, Create, Answered, Boot, Unreachable, Equip, Claim, CheckSettled,
                  Abort, AbortCancel, LandCrash
    <3>2. CASE Allocate(r) \/ Begin(r) \/ Refused(r) \/ Created(r) \/ Interrupted(r)
      BY <3>2 DEF Allocate, Begin, Refused, Created, Interrupted, Reserve, Prepared, Reopen,
                  Bind, Row
    <3>3. CASE InterruptFail(r) \/ AbortFail(r)
      BY <3>3 DEF InterruptFail, AbortFail, Resolve
    <3>4. CASE Mark(r) \/ Start(r)
      BY <3>4 DEF Mark, Delivery, Start
    <3> QED BY <3>1, <3>2, <3>3, <3>4 DEF LandStep
  <2> QED BY <2>1, SameRunStep
<1>2. CASE s = r
  <2> USE <1>r
  <2> SUFFICES EvidenceStep(r)
    BY <1>2
  <2>e. EvidenceRow(r)
    BY <1>2
  <2>1. CASE \/ GiveUp(r) \/ Create(r) \/ Answered(r) \/ Boot(r) \/ Unreachable(r)
             \/ Equip(r) \/ Claim(r) \/ CheckSettled(r)
    BY <2>e, <2>1
       DEF GiveUp, Create, Answered, Boot, Unreachable, Equip, Claim, CheckSettled,
           EvidenceStep, EvidenceRow, Launched, Ended, IsSettled
  <2>2. CASE Abort(r) \/ AbortCancel(r) \/ LandCrash(r)
    BY <2>e, <2>2
       DEF Abort, AbortCancel, LandCrash, LaunchInv, EvidenceStep, EvidenceRow, Launched,
           Ended, IsSettled
  <2>3. CASE Allocate(r) \/ Refused(r) \/ Created(r)
    <3>1. /\ evidence'[r] \notin Copied \/ evidence'[r] = evidence[r]
          /\ UNCHANGED <<job, log, event>>
          /\ land[r] \notin LandOver \cup {"start"}
      BY <2>3 DEF Allocate, Refused, Created, Reserve, Reopen, Bind, Row, Copied
    <3>2. land'[r] # "abort"
      BY <2>3 DEF Allocate, Refused, Created
    <3>3. IsSettled(r)' => IsSettled(r) \/ Over(r)
      BY <2>3, SettledWords
         DEF Allocate, Refused, Created, Reserve, Reopen, Bind, Row, IsSettled
    <3> QED BY <2>e, <3>1, <3>2, <3>3
           DEF EvidenceStep, EvidenceRow, Launched, Ended
  <2>4. CASE Begin(r)
    <3>1. /\ evidence'[r] = evidence[r] /\ UNCHANGED <<job, log, event>>
          /\ land[r] = "prepared"
      BY <2>4 DEF Begin, Prepared, Row
    <3>2. IsSettled(r)' => IsSettled(r)
      BY <2>4, SettledWords DEF Begin, Prepared, Row, IsSettled
    <3> QED BY <2>e, <3>1, <3>2 DEF EvidenceStep, EvidenceRow, Launched, Ended
  <2>5. CASE Interrupted(r) \/ InterruptFail(r) \/ AbortFail(r)
    <3>1. /\ evidence'[r] = evidence[r] /\ UNCHANGED <<job, log, event>>
          /\ land[r] \in {"interrupted", "interruptFail", "abortFail"}
          /\ land'[r] \in LandOver
      BY <2>5 DEF Interrupted, InterruptFail, AbortFail, Prepared, Row, Resolve
    <3>2. Jobless(r) /\ ~Launched(r)'
      BY <2>e, <3>1 DEF EvidenceRow, Jobless, Launched
    <3> QED BY <2>e, <3>1, <3>2 DEF EvidenceStep, EvidenceRow, Over, Ended
  <2>6. CASE Mark(r)
    BY <2>e, <2>6
       DEF Mark, Delivery, Copied, EvidenceStep, EvidenceRow, Launched, Ended, IsSettled
  <2>7. CASE Start(r)
    BY <2>e, <2>7 DEF Start, EvidenceStep, EvidenceRow, Launched, Ended, IsSettled
  <2> QED BY <2>1, <2>2, <2>3, <2>4, <2>5, <2>6, <2>7 DEF LandStep
<1> QED BY <1>1, <1>2

\* A reaper binds rows and ends machines; it reads no log.
LEMMA ReapEvidence ==
    ASSUME RowsOK, NEW k \in Reapers, Collector(k), NEW s \in Runs, EvidenceRow(s)
    PROVE  EvidenceStep(s)
<1> USE DEF Collector, registry, world, clockVars
<1>1. CASE ReapClaim(k) \/ Decide(k) \/ ReapDone(k) \/ ReapCrash(k)
  BY <1>1, SameRunStep DEF ReapClaim, Decide, ReapDone, ReapCrash, Retire, SameRun
<1>2. ASSUME NEW r \in Runs, Apply(k, r) PROVE EvidenceStep(s)
  <2>1. CASE Bind(r)
    <3>1. evidence'[s] = evidence[s] /\ (IsSettled(s)' => IsSettled(s))
      BY <2>1, SettledWords DEF Bind, Row, IsSettled, RowsOK, RegistryTypeOK
    <3> QED BY <1>2, <3>1 DEF Apply, EvidenceStep, EvidenceRow, Launched, Ended
  <2>2. CASE UNCHANGED registry
    BY <1>2, <2>2, SameRunStep DEF Apply, SameRun
  <2> QED BY <1>2, <2>1, <2>2 DEF Apply
<1> QED BY <1>1, <1>2 DEF ReapStep, ReapWork

\* What a pass writes of a run's evidence and verdict: it reads the log only of
\* a run that is over, and records as arrived only what is whole.
LEMMA PassEvidence ==
    ASSUME RowsOK, WorldTypeOK, PassTypeOK, NEW p \in Passes, Settler(p), PassInv(p),
           NEW s \in Runs, EvidenceRow(s), EvidencePass(p, s)
    PROVE  EvidenceStep(s)
<1> USE DEF Settler, registry, world, clockVars
<1>r. /\ verdict \in [Runs -> Words \cup {NoRow, Unresolved}]
      /\ evidence \in [Runs -> Deliveries] /\ log \in [Runs -> {"unread", "partial", "full"}]
      /\ event \in [Runs -> {"none", "copied", "other"}]
  BY DEF RowsOK, RegistryTypeOK, WorldTypeOK
<1>e. ASSUME NEW status \in Deliveries, Evidence(at[p], status), UNCHANGED <<job, log>>,
             status \in Copied /\ at[p] = s => Whole(s)
      PROVE  EvidenceStep(s)
  <2>1. CASE s # at[p]
    BY <1>r, <1>e, <2>1, SameRunStep DEF Evidence, Delivery, SameRun
  <2>2. CASE s = at[p]
    <3>1. /\ verdict' = verdict
          /\ evidence'[s] \in Copied => Whole(s)
          /\ event'[s] = "copied" => event[s] = "copied" \/ Whole(s)
      BY <1>r, <1>e, <2>2 DEF Evidence, Delivery
    <3> QED BY <1>e, <3>1 DEF EvidenceStep, EvidenceRow, Launched, Ended, IsSettled
  <2> QED BY <2>1, <2>2
<1>n. ASSUME UNCHANGED <<job, log, event, evidence, verdict>> PROVE EvidenceStep(s)
  BY <1>n, SameRunStep DEF SameRun
<1>s. {"copied", "verified", "unverified", "pending", "not_started"} \subseteq Deliveries
  BY DEF Deliveries
<1>1. CASE ExpireMark(p) \/ ExpireSeal(p)
  <2>1. flag[p] /\ at[p] = s => Whole(s)
    BY <1>1 DEF ExpireMark, ExpireSeal, Move, EvidencePass, PassDue
  <2>2. CASE UNCHANGED <<registry, event>>
    BY <1>1, <1>n, <2>2 DEF ExpireMark, ExpireSeal
  <2>3. CASE Evidence(at[p], IF flag[p] THEN "copied" ELSE "unverified")
    BY <1>1, <1>e, <1>s, <2>1, <2>3 DEF ExpireMark, ExpireSeal, Copied
  <2>4. CASE Evidence(at[p], IF flag[p] THEN "verified" ELSE "unverified")
    BY <1>1, <1>e, <1>s, <2>1, <2>4 DEF ExpireMark, ExpireSeal, Copied
  <2> QED BY <1>1, <2>2, <2>3, <2>4 DEF ExpireMark, ExpireSeal
<1>2. CASE HarvestCopied(p) \/ HarvestRetry(p) \/ HarvestSeal(p)
  <2>1. at[p] = s => Whole(s)
    BY <1>2 DEF HarvestCopied, HarvestRetry, HarvestSeal, Move, EvidencePass, PassCopied
  <2> QED BY <1>2, <1>e, <1>s, <2>1 DEF HarvestCopied, HarvestRetry, HarvestSeal
<1>3. CASE HarvestPending(p) \/ UnlaunchedMark(p)
  BY <1>3, <1>e, <1>s DEF HarvestPending, UnlaunchedMark, Copied
<1>4. CASE ExpireClose(p)
  <2>1. machine[at[p]] = "gone"
    BY <1>4 DEF ExpireClose, Move, PassInv, PassReleased
  <2>2. /\ UNCHANGED <<job, log, event, evidence, land>>
        /\ s # at[p] => verdict'[s] = verdict[s]
    BY <1>r, <1>4 DEF ExpireClose, Resolve
  <2>3. IsSettled(s)' => IsSettled(s) \/ Over(s)
    BY <2>1, <2>2 DEF IsSettled, Over
  <2> QED BY <2>2, <2>3 DEF EvidenceStep, EvidenceRow, Launched, Ended
<1>5. CASE ExpireReport(p) \/ HarvestReport(p) \/ UnlaunchedReport(p)
  BY <1>5, <1>n DEF ExpireReport, HarvestReport, UnlaunchedReport, Report
<1>6. ASSUME NEW r \in Runs, Settle(p, r) PROVE EvidenceStep(s)
  <2>1. /\ UNCHANGED <<job, log, event, evidence, land>>
        /\ s # r => verdict'[s] = verdict[s]
        /\ verdict'[r] \in {verdict[r], told[p][r]}
    BY <1>r, <1>6 DEF Settle, Resolve
  <2>2. IsSettled(s)' => IsSettled(s) \/ Over(s)
    BY <2>1 DEF IsSettled, EvidencePass
  <2> QED BY <2>1, <2>2 DEF EvidenceStep, EvidenceRow, Launched, Ended
<1>7. CASE Collect(p)
  <2>1. /\ UNCHANGED <<job, event, evidence, verdict, land>>
        /\ at[p] = s => Over(s)
        /\ log' = log \/ ReadLog(at[p])
    BY <1>7 DEF Collect, EvidencePass
  <2>2. log'[s] # log[s] => log'[s] = "full" \/ (log'[s] = "partial" /\ Jobless(s))
    <3> SUFFICES ASSUME ReadLog(at[p]), log'[s] # log[s]
                 PROVE  log'[s] = "full" \/ (log'[s] = "partial" /\ Jobless(s))
      BY <2>1
    <3>1. s = at[p] /\ machine[s] = "up" /\ log'[s] = IF Ended(s) THEN "full" ELSE "partial"
      BY <1>r DEF ReadLog
    <3> QED BY <2>1, <3>1 DEF Over
  <2> QED BY <2>1, <2>2 DEF EvidenceStep, EvidenceRow, Launched, Ended, IsSettled
<1>8. ASSUME NEW r \in Runs, ExpireRead(p, r) \/ Poll(p, r) PROVE EvidenceStep(s)
  BY <1>8, <1>n DEF ExpireRead, Poll
<1>9. CASE \/ PassStart(p) \/ ExpireCancel(p) \/ ExpireStuck(p) \/ PassClaim(p)
           \/ PassBusy(p) \/ Recover(p) \/ HarvestRelease(p)
           \/ UnlaunchedRelease(p) \/ PassDone(p) \/ PassCrash(p)
  BY <1>9, <1>n DEF PassStart, ExpireCancel, ExpireStuck, PassClaim, PassBusy,
                    Recover, HarvestRelease, UnlaunchedRelease, PassDone, PassCrash
<1> QED BY <1>1, <1>2, <1>3, <1>4, <1>5, <1>6, <1>7, <1>8, <1>9
       DEF PassStep, ExpireStep, SettleStep

\* Where a pass goes, it knows the run to be over, and its evidence whole.
LEMMA PassKnows ==
    ASSUME IInv, NEW p \in Passes, Settler(p),
           NEW s \in Runs, EvidenceRow(s), EvidenceStep(s), EvidencePass(p, s)
    PROVE  EvidencePass(p, s)'
<1> USE DEF Settler, registry, world, clockVars
<1>i. /\ RowsOK /\ WorldTypeOK /\ PassTypeOK /\ PassInv(p)
  BY Parts
<1>o. (Over(s) => Over(s)') /\ (Whole(s) => Whole(s)')
  <2>1. RowsKept({})
    BY <1>i, PassKeeps DEF PassGoal
  <2> QED BY <2>1, OverStays
<1>a. Ask \notin Settled
  BY SettledWords DEF Ask
<1> DEFINE Told == told'[p][s] \in Settled => Over(s)'
           Has == /\ point'[p] = "collect" => Over(s)
                  /\ point'[p] \in PassCopied => Whole(s)
                  /\ point'[p] \in PassDue /\ flag'[p] => Whole(s)
           Rests == point'[p] \in PassResting
                       \cup {"xReport", "hPending", "hReport", "uRelease", "uMark", "uReport"}
<1>q1. ASSUME Told, at'[p] = s => Has PROVE EvidencePass(p, s)'
  BY <1>o, <1>q1 DEF EvidencePass
<1>q2. ASSUME Told, Rests PROVE EvidencePass(p, s)'
  BY <1>q2 DEF EvidencePass, PassResting, PassCopied, PassDue
<1>t. ASSUME told'[p][s] \in {told[p][s], Ask} PROVE Told
  BY <1>t, <1>o, <1>a DEF EvidencePass
<1> HIDE DEF Told, Has, Rests
<1>l. ASSUME NEW r, Leave(p, r) PROVE EvidencePass(p, s)'
  <2>1. point'[p] = "settle" /\ told'[p][s] \in {told[p][s], Ask}
    BY <1>l, <1>i DEF Leave, PassTypeOK
  <2> QED BY <2>1, <1>t, <1>q2 DEF Rests, PassResting
<1>h. ASSUME UNCHANGED <<told, at>>,
             \/ point'[p] \in {"hPending", "hReport", "uMark", "uReport"}
             \/ point'[p] \in PassCopied /\ (at[p] = s => Whole(s))
      PROVE  EvidencePass(p, s)'
  <2>1. (at[p] = s => Has) /\ Told
    BY <1>h, <1>t DEF Has, PassCopied, PassDue
  <2> QED BY <1>h, <2>1, <1>q1
<1>v. ASSUME Verified(p)
      PROVE  UNCHANGED <<told, at>> /\ point'[p] \in {"hPending", "hCopied"}
  BY <1>v, <1>i DEF Verified, Move, PassTypeOK
<1>1. CASE PassStart(p) \/ ExpireReport(p) \/ ExpireStuck(p) \/ PassBusy(p) \/ PassDone(p)
  <2>1. told'[p] = told[p] /\ point'[p] \in PassResting
    BY <1>1, <1>i DEF PassStart, ExpireReport, ExpireStuck, PassBusy, PassDone, Move,
                     Expiring, KeepRun, PassTypeOK, PassResting
  <2> QED BY <2>1, <1>t, <1>q2 DEF Rests
<1>2. ASSUME NEW r \in Runs, ExpireRead(p, r) PROVE EvidencePass(p, s)'
  <2>1. Told
    BY <1>2, <1>t DEF ExpireRead
  <2>2. CASE Take(p, r, evidence[r] \in Copied) /\ Move(p, "expire", "xMark")
    <3>1. at'[p] = r /\ point'[p] = "xMark" /\ (flag'[p] => evidence[r] \in Copied)
      BY <1>i, <2>2 DEF Take, Move, PassTypeOK
    <3>2. r = s => Has
      BY <3>1 DEF Has, EvidenceRow, PassCopied
    <3> QED BY <2>1, <3>1, <3>2, <1>q1
  <2>3. CASE point[p] = "expire" /\ UNCHANGED point
    BY <2>1, <2>3, <1>q2 DEF Rests, PassResting
  <2> QED BY <1>2, <2>2, <2>3 DEF ExpireRead
<1>3. CASE ExpireMark(p) \/ ExpireClose(p) \/ ExpireSeal(p)
  <2>1. /\ told'[p] = told[p] /\ at'[p] = at[p] /\ flag'[p] = flag[p]
        /\ point[p] \in {"xMark", "xClose", "xSeal"}
        /\ point'[p] \in {"xCancel", "xSeal", "xReport"}
    BY <1>3, <1>i DEF ExpireMark, ExpireClose, ExpireSeal, Move, KeepRun, PassTypeOK
  <2>2. (at[p] = s => Has) /\ Told
    BY <2>1, <1>t DEF Has, EvidencePass, PassDue, PassCopied
  <2> QED BY <2>1, <2>2, <1>q1
<1>4. CASE ExpireCancel(p)
  <2>1. CASE Move(p, "xCancel", "xClose") /\ KeepRun
    <3>1. /\ told' = told /\ at' = at /\ flag' = flag
          /\ point[p] = "xCancel" /\ point'[p] = "xClose"
      BY <1>i, <2>1 DEF Move, KeepRun, PassTypeOK
    <3>2. (at[p] = s => Has) /\ Told
      BY <3>1, <1>t DEF Has, EvidencePass, PassDue, PassCopied
    <3> QED BY <3>1, <3>2, <1>q1
  <2>2. CASE Expiring(p, "expire")
    <3>1. told' = told /\ point'[p] = "expire"
      BY <1>i, <2>2 DEF Expiring, Move, PassTypeOK
    <3> QED BY <3>1, <1>t, <1>q2 DEF Rests, PassResting
  <2> QED BY <1>4, <2>1, <2>2 DEF ExpireCancel
<1>5. CASE PassClaim(p)
  <2>1. /\ point'[p] = "settle"
        /\ told'[p][s] = IF IsSwept(s) /\ IsSettled(s) THEN verdict[s] ELSE Ask
    BY <1>5, <1>i DEF PassClaim, Move, PassTypeOK
  <2>2. Told
    BY <2>1, <1>o, <1>a DEF Told, EvidenceRow, IsSettled
  <2> QED BY <2>1, <2>2, <1>q2 DEF Rests, PassResting
<1>6. ASSUME NEW r \in Runs, Poll(p, r) PROVE EvidencePass(p, s)'
  <2>1. ASSUME NEW w \in Polled(r), told' = [told EXCEPT ![p][r] = w],
               point[p] = "settle", UNCHANGED <<point, due, todo, at, flag>>
        PROVE  EvidencePass(p, s)'
    <3>1. w \in Settled => Over(r)
      BY <2>1, SettledWords DEF Polled, Over
    <3>2. told'[p][s] = IF s = r THEN w ELSE told[p][s]
      BY <2>1, <1>i DEF PassTypeOK
    <3>3. Told
      BY <3>1, <3>2, <1>o DEF Told, EvidencePass
    <3> QED BY <2>1, <3>3, <1>q2 DEF Rests, PassResting
  <2> QED BY <1>6, <2>1, <1>l DEF Poll
<1>7. ASSUME NEW r \in Runs, Settle(p, r) PROVE EvidencePass(p, s)'
  <2>1. CASE told[p][r] \in Settled /\ Take(p, r, Discarded(r)) /\ told' = told
    <3>1. at'[p] = r /\ Told /\ (r = s => Over(s))
      BY <2>1, <1>i, <1>t DEF Take, PassTypeOK, EvidencePass
    <3>2. \/ point'[p] = "recover" /\ KnownCopied(r)
          \/ point'[p] \in {"uRelease", "collect"}
      BY <1>7, <2>1, <1>i DEF Settle, Move, Leave, PassTypeOK
    <3>3. r = s => Has
      BY <3>1, <3>2 DEF Has, PassCopied, PassDue, KnownCopied, EvidenceRow
    <3> QED BY <3>1, <3>3, <1>q1
  <2> QED BY <1>7, <2>1, <1>l DEF Settle
<1>8. CASE Collect(p)
  <2>1. at[p] = s => Over(s)
    BY <1>8 DEF Collect, EvidencePass
  <2>2. CASE ReadLog(at[p]) /\ Verified(p)
    <3>1. at[p] = s => Whole(s)'
      <4> SUFFICES ASSUME at[p] = s PROVE Whole(s)'
        OBVIOUS
      <4>1. machine[s] = "up" /\ log'[s] = IF Ended(s) THEN "full" ELSE "partial"
        BY <1>i, <2>2 DEF ReadLog, WorldTypeOK
      <4>2. Jobless(s) => Jobless(s)'
        <5>1. RowsKept({})
          BY <1>i, PassKeeps DEF PassGoal
        <5> QED BY <5>1, OverStays
      <4> QED BY <2>1, <4>1, <4>2 DEF Over, Whole
    <3>2. /\ UNCHANGED <<told, at>> /\ point'[p] \in {"hPending", "hCopied"}
      BY <1>v, <2>2
    <3>3. Told
      BY <3>2, <1>t
    <3> QED BY <3>1, <3>2, <3>3 DEF EvidencePass, Told, PassCopied, PassDue
  <2>3. CASE log[at[p]] # "unread" /\ Verified(p)
    <3>1. at[p] = s => Whole(s)
      BY <1>i, <2>3 DEF EvidenceRow, Whole, WorldTypeOK
    <3> QED BY <1>h, <1>v, <2>3, <3>1 DEF PassCopied
  <2>4. CASE Move(p, "collect", "hPending") /\ KeepRun
    BY <1>h, <1>i, <2>4 DEF Move, KeepRun, PassTypeOK
  <2> QED BY <1>8, <2>2, <2>3, <2>4 DEF Collect
<1>9. CASE Recover(p)
  <2>1. at[p] = s => Whole(s)
    BY <1>9 DEF Recover, EvidencePass, PassCopied
  <2>2. UNCHANGED <<told, at>> /\ point'[p] \in {"hPending", "hCopied"}
    BY <1>9, <1>i, <1>v DEF Recover, Move, KeepRun, PassTypeOK
  <2> QED BY <1>h, <2>1, <2>2 DEF PassCopied
<1>10. CASE HarvestCopied(p) \/ HarvestRelease(p) \/ HarvestSeal(p)
  <2>1. /\ point[p] \in {"hCopied", "hRelease", "hSeal"}
        /\ point'[p] \in {"hRelease", "hSeal", "hRetry", "hReport"}
        /\ UNCHANGED <<told, at>>
    BY <1>10, <1>i DEF HarvestCopied, HarvestRelease, HarvestSeal, Move, KeepRun, PassTypeOK
  <2>2. at[p] = s => Whole(s)
    BY <2>1 DEF EvidencePass, PassCopied
  <2> QED BY <1>h, <2>1, <2>2 DEF PassCopied
<1>11. CASE UnlaunchedRelease(p) \/ UnlaunchedMark(p)
  <2>1. CASE KeepRun /\ point'[p] \in {"uMark", "uReport"}
    BY <2>1, <1>h DEF KeepRun
  <2> QED BY <1>11, <1>i, <1>l, <2>1 DEF UnlaunchedRelease, UnlaunchedMark, Move, PassTypeOK
<1>12. CASE HarvestPending(p) \/ HarvestRetry(p) \/ HarvestReport(p) \/ UnlaunchedReport(p)
  BY <1>12, <1>l DEF HarvestPending, HarvestRetry, HarvestReport, UnlaunchedReport
<1>13. CASE PassCrash(p)
  <2>1. point'[p] = "idle" /\ told'[p][s] = Ask
    BY <1>13, <1>i DEF PassCrash, PassTypeOK, Unasked
  <2> QED BY <2>1, <1>t, <1>q2 DEF Rests, PassResting
<1> QED BY <1>1, <1>2, <1>3, <1>4, <1>5, <1>6, <1>7, <1>8, <1>9, <1>10, <1>11, <1>12, <1>13
       DEF PassStep, ExpireStep, SettleStep

\* A stopper writes the run it stops, and no other.
LEMMA StopEvidence ==
    ASSUME RowsOK, WorldTypeOK, NEW q \in Stoppers, Stopper(q),
           NEW s \in Runs, EvidenceRow(s), run[q] # s
    PROVE  EvidenceStep(s)
<1> USE DEF Stopper, registry, world, clockVars
<1>r. /\ verdict \in [Runs -> Words \cup {NoRow, Unresolved}]
      /\ evidence \in [Runs -> Deliveries] /\ log \in [Runs -> {"unread", "partial", "full"}]
      /\ event \in [Runs -> {"none", "copied", "other"}]
  BY DEF RowsOK, RegistryTypeOK, WorldTypeOK
<1> SUFFICES SameRun(s)
  BY SameRunStep
<1> USE <1>r DEF SameRun
<1>1. CASE Unprepare(q) \/ Forsake(q) \/ Stop(q) \/ Disown(q) \/ StopReport(q)
  BY <1>1 DEF Unprepare, Forsake, Stop, Disown, StopReport, Prepared, Row, Resolve, Report
<1>2. CASE Abandon(q) \/ Preserve(q) \/ StopSeal(q)
  BY <1>2 DEF Abandon, Preserve, StopSeal, Evidence, Delivery
<1>3. CASE Capture(q) \/ Kill(q) \/ StopRelease(q) \/ StopCrash(q)
  BY <1>3 DEF Capture, ReadLog, Kill, StopRelease, StopCrash
<1>4. ASSUME NEW r \in Runs, NEW word, StopClaim(q, r, word) PROVE SameRun(s)
  BY <1>4 DEF StopClaim
<1> QED BY <1>1, <1>2, <1>3, <1>4 DEF StopStep, StopWork

\* Nobody is stopping run r.
Unstopped(r) == \A q \in Stoppers : run[q] # r

\* Nothing is landed, read or recorded yet.
LEMMA InitEvidence == ASSUME Init, NEW r \in Runs PROVE EvidenceInv(r)
<1> USE DEF Init, RentalInit, RegistryInit, LandInit, PassInit
<1>1. /\ job[r] = "idle" /\ log[r] = "unread" /\ event[r] = "none"
      /\ evidence[r] = "unset" /\ verdict[r] = "no row" /\ land[r] = "new"
  BY DEF RegistryInit, NoRow
<1>2. EvidenceRow(r)
  BY <1>1, SettledWords DEF EvidenceRow, Launched, Copied, IsSettled
<1>3. \A p \in Passes : EvidencePass(p, r)
  BY SettledWords DEF EvidencePass, PassCopied, PassDue, Unasked, Ask
<1> QED BY <1>2, <1>3 DEF EvidenceInv

\* Every step keeps the invariant of a run nobody is stopping: of its row, and
\* of every pass, the one that acts and those that rest.
LEMMA StepEvidence ==
    ASSUME IInv, LockedInv, [Next]_vars, NEW r \in Runs, Unstopped(r), EvidenceInv(r)
    PROVE  EvidenceInv(r)'
<1>i. /\ RowsOK /\ WorldTypeOK /\ land \in [Runs -> LandPoints] /\ PassTypeOK
      /\ \A p \in Passes : PassInv(p) /\ EvidencePass(p, r)
      /\ \A s \in Runs : LaunchInv(s)
      /\ EvidenceRow(r)
  BY Parts DEF LockedInv, EvidenceInv
<1>k. PICK X : RowsKept(X)
  BY NextRows
<1>1. EvidenceStep(r)
  <2>1. CASE Drop \/ UNCHANGED vars
    BY <1>i, <2>1, SameRunStep DEF Drop, Undeclare, vars, world, registry, SameRun
  <2> QED BY <1>i, <2>1, EnvironmentEvidence, LandEvidence, PassEvidence, ReapEvidence,
             StopEvidence DEF Next, Lander, Unstopped
<1>2. EvidenceRow(r)'
  BY <1>i, <1>k, <1>1, RowEvidence
<1>3. ASSUME UNCHANGED passVars PROVE \A p \in Passes : EvidencePass(p, r)'
  BY <1>i, <1>k, <1>1, <1>3, PassEvidenceFrame DEF passVars
<1>4. ASSUME NEW p \in Passes, Settler(p) PROVE \A q \in Passes : EvidencePass(q, r)'
  <2>1. EvidencePass(p, r)'
    BY <1>i, <1>1, <1>4, PassKnows
  <2>2. ASSUME NEW q \in Passes \ {p} PROVE EvidencePass(q, r)'
    <3>1. PassStep(p) /\ PassOthers(p)
      BY <1>i, <1>4, PassKeeps DEF Settler, PassGoal
    <3>2. flag'[q] = flag[q]
      BY <1>i, <3>1, PassFlag
    <3> QED BY <1>i, <1>k, <1>1, <3>1, <3>2, PassEvidenceFrame DEF PassOthers
  <2> QED BY <2>1, <2>2
<1>5. \A p \in Passes : EvidencePass(p, r)'
  BY <1>3, <1>4 DEF Next, Environment, Drop, Lander, Stopper, Collector, vars
<1> QED BY <1>2, <1>5 DEF EvidenceInv

\* Whole evidence of a launched job is its full log.
LEMMA WholeLog ==
    ASSUME NEW r \in Runs, EvidenceInv(r), Launched(r), evidence[r] \in Copied
    PROVE  log[r] = "full"
  BY DEF EvidenceInv, EvidenceRow, Whole, Jobless

\* Of a run that nobody ever stops by hand, what is recorded as arrived is the
\* log of the whole job (Monitor._collected, Monitor._recovered and
\* Deadlines._released), whatever lands, settles, reaps, races or dies, and
\* whatever is done to the other runs.
THEOREM LifecycleEvidence ==
    ASSUME NEW r \in Runs
    PROVE  Spec /\ []Unstopped(r) =>
              [](Launched(r) /\ evidence[r] \in Copied => log[r] = "full")
<1>1. Init => EvidenceInv(r)
  BY InitEvidence
<1>2. IInv /\ LockedInv /\ Unstopped(r) /\ EvidenceInv(r) /\ [Next]_vars => EvidenceInv(r)'
  BY StepEvidence
<1>3. EvidenceInv(r) => (Launched(r) /\ evidence[r] \in Copied => log[r] = "full")
  BY WholeLog
<1> QED BY <1>1, <1>2, <1>3, LifecycleInvariant, LockedHolds, PTL DEF Spec

\* And of such a run a pass releases the machine only with the log of the whole
\* job captured ("Capture must precede release", settlement.py).
Captured(r) ==
    \A p \in Passes :
        /\ at[p] = r /\ point[p] = "hRelease" /\ point'[p] = "hSeal"
        /\ machine[r] = "up" /\ Launched(r)
        => log[r] = "full"

THEOREM LifecycleCapture ==
    ASSUME NEW r \in Runs
    PROVE  Spec /\ []Unstopped(r) => [][Captured(r)]_vars
<1>1. Init => EvidenceInv(r)
  BY InitEvidence
<1>2. IInv /\ LockedInv /\ Unstopped(r) /\ EvidenceInv(r) /\ [Next]_vars => EvidenceInv(r)'
  BY StepEvidence
<1>3. EvidenceInv(r) => [Captured(r)]_vars
  BY DEF EvidenceInv, EvidencePass, PassCopied, Whole, Jobless, Captured
<1> QED BY <1>1, <1>2, <1>3, LifecycleInvariant, LockedHolds, PTL DEF Spec

(***************************************************************************)
(* The casts: their behaviours are the lifecycle's, and in a cast without  *)
(* a stopper nobody ever stops a run.                                      *)
(***************************************************************************)
Casts == {Cancel, Reaped, TwoPasses, Abandoned, Retried}

CastInv ==
    /\ cast \in Casts
    /\ cast.stoppers = {} => \A r \in Runs : Unstopped(r) /\ EvidenceInv(r)

LEMMA CastStep ==
    ASSUME cast \in Casts, [CastNext]_<<vars, cast>>
    PROVE  /\ [Next]_vars
           /\ cast' = cast
           /\ cast.stoppers = {} => UNCHANGED stopVars
<1>1. /\ cast.runs \subseteq Runs /\ cast.passes \subseteq Passes
      /\ cast.stoppers \subseteq Stoppers /\ cast.reapers \subseteq Reapers
  BY CastAssumption DEF Casts, Cancel, Reaped, TwoPasses, Abandoned, Retried, Cast
<1>2. CASE CastNext
  <2>1. [Next]_vars /\ cast' = cast
    BY <1>1, <1>2 DEF CastNext, Next
  <2>2. cast.stoppers = {} => UNCHANGED stopVars
    BY <1>2 DEF CastNext, Environment, Drop, Lander, Settler, Collector
  <2> QED BY <2>1, <2>2
<1> QED BY <1>2 DEF vars

\* In every cast without a stopper, evidence recorded as arrived is the log of
\* the whole job (Monitor._collected, Monitor._recovered, Deadlines._released).
THEOREM CastEvidence == CastSpec => []EvidenceUnlessStopped
<1>1. CastInit => Init /\ CastInv
  BY InitEvidence, ActorsAssumption DEF CastInit, CastInv, Casts, Init, StopInit, Unstopped
<1>2. CastInv /\ [CastNext]_<<vars, cast>> => [Next]_vars /\ cast' = cast
  BY CastStep DEF CastInv
<1>3. ASSUME IInv, LockedInv, CastInv, [CastNext]_<<vars, cast>> PROVE CastInv'
  <2>1. [Next]_vars /\ cast' = cast /\ (cast.stoppers = {} => UNCHANGED stopVars)
    BY <1>3, CastStep DEF CastInv
  <2>2. ASSUME cast.stoppers = {}, NEW r \in Runs PROVE Unstopped(r)' /\ EvidenceInv(r)'
    BY <1>3, <2>1, <2>2, StepEvidence DEF CastInv, Unstopped, stopVars
  <2> QED BY <1>3, <2>1, <2>2 DEF CastInv
<1>4. CastInv => EvidenceUnlessStopped
  BY WholeLog DEF CastInv, EvidenceUnlessStopped, EvidenceIsComplete
<1> QED BY <1>1, <1>2, <1>3, <1>4, InitInv, StepInv, InitLocked, StepLocked, PTL
       DEF CastSpec
==============================================================================
