SPECIFICATION CastSpec
CONSTANTS
  r1 = r1
  r2 = r2
  p1 = p1
  p2 = p2
  s1 = s1
  k1 = k1
  None = None
  Request <- OneRequest
  Runs = {r1, r2}
  Placeholders = {}
  Passes = {p1, p2}
  Stoppers = {s1}
  Reapers = {k1}
  MayUndeclare = TRUE
  GraceEnds = TRUE
  ReapDeletes = TRUE
  Endings = {"cancelled", "failed"}
INVARIANTS
  IInv
  ClosedMeansEnded
  SettledUnboundNeverAsked
  OneUncertainMachine
  EvidenceUnlessStopped
PROPERTIES
  LaunchOnlyUnsettled
  AbortSparesLaunched
  ReaperSpares
  KeepsOutcome
CHECK_DEADLOCK FALSE
