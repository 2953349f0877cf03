SPECIFICATION CastSpec
CONSTANTS
  h1 = h1
  h2 = h2
  pass1 = pass1
  cancel1 = cancel1
  None = None
  Entries = {h1, h2}
  Gens = {1, 2}
  MaxLines = 2
  Slots = 2
  Releases = TRUE
  Faults = FALSE
  Passes = {}
  Cancellers = {cancel1}
  Losses = {"late"}
INVARIANTS
  ReleaseSparesJobs
  StartedOnce
PROPERTIES
  OlderKeeperStops
  CancelIsFinal
CHECK_DEADLOCK FALSE
