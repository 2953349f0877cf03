SPECIFICATION FairSpec
CONSTANTS
  r1 = r1
  r2 = r2
  p1 = p1
  p2 = p2
  s1 = s1
  k1 = k1
  None = None
  Request <- OneRequest
  Runs = {r1}
  Placeholders = {}
  Passes = {p1}
  Stoppers = {}
  Reapers = {}
  MayUndeclare = TRUE
  GraceEnds = FALSE
  ReapDeletes = TRUE
  Endings = {"cancelled"}
PROPERTIES
  BoundRunsClose
CHECK_DEADLOCK FALSE
