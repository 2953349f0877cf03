SPECIFICATION CastSpec
CONSTANTS
  writer1 = writer1
  writer2 = writer2
  collect = collect
  drain = drain
  None = None
  Writers = {writer1, writer2}
  Passes = {collect, drain}
  MaxEvents = 2
  MaxFiles = 2
  MaxCuts = 2
INVARIANTS
  ResentOnlyIfCut
  KeptWhileHeld
PROPERTIES
  SentWhileHeld
CHECK_DEADLOCK FALSE
