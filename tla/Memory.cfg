SPECIFICATION FairSpec
CONSTANTS
  k1 = k1
  k2 = k2
  call1 = call1
  call2 = call2
  pass1 = pass1
  reader1 = reader1
  None = None
  Keys = {k1}
  Files = {k1}
  Keepers = {call1, call2}
  Passes = {pass1}
  Readers = {reader1}
  Mortal = {call1, call2}
  MaxSent = 1
INVARIANTS
  NeverLost
  SetAsideIsRefused
PROPERTIES
  SpooledIsSettled
CHECK_DEADLOCK FALSE
