SPECIFICATION Spec
CONSTANTS
  SECONDS_PER_HOUR = 10
  RELEASE_SECONDS = 2
  Quotes <- quotes
INVARIANTS
  WithinBudget
  WalltimeFits
CHECK_DEADLOCK FALSE
