SPECIFICATION FairSpec
CONSTANTS
  h1 = h1
  h2 = h2
  pass1 = pass1
  cancel1 = cancel1
  None = None
  Entries = {h1}
  Gens = {1, 2}
  MaxLines = 1
  Slots = 1
  Releases = TRUE
  Faults = TRUE
  Passes = {pass1}
  Cancellers = {}
  Losses = {"lost"}
PROPERTIES
  QueuedIsSettled
CHECK_DEADLOCK FALSE
