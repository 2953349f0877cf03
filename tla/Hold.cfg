SPECIFICATION FairSpec
CONSTANTS
  rental = rental
  user = user
  expirer = expirer
  run = rental
  Runs = {rental}
  Placeholders = {}
  Request <- request
  Lifetime = 2
  Duration = 2
  MaxTime = 4
  Enders = {user, expirer}
  Expirer = expirer
INVARIANTS
  UpIsTracked
  KeptUntilDue
PROPERTIES
  MachineEnds
  
CHECK_DEADLOCK FALSE
