SPECIFICATION CastSpec
CONSTANTS
  j1 = j1
  j2 = j2
  p1 = p1
  p2 = p2
  a1 = a1
  b1 = b1
  c1 = c1
  a2 = a2
  run1 = run1
  pass1 = pass1
  pass2 = pass2
  stop1 = stop1
  w1 = w1
  w2 = w2
  None = None
  Request <- Asked
  Jobs = {j1}
  Runs = {p1, a1, b1, c1}
  Placeholders = {p1}
  Runners = {run1}
  Passes = {pass1, pass2}
  Stoppers = {stop1}
  Watches = {w1}
  Refusals = {"quota", "outage", "rejected"}
  MaxDeaths = 1
  MaxRuns = 2
  Stops = TRUE
INVARIANTS
  DispatchedOnce
  StraysAreAccounted
  HeldIsKept
  SettledLineTrue
  SettledLineOnce
CHECK_DEADLOCK FALSE
