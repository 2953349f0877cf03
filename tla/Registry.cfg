SPECIFICATION RegistrySpec
CONSTANTS
  a = a
  b = b
  line = line
  held = held
  Runs = {a, b, line, held}
  Lines = {line}
  Placeholders = {held}
  Request <- SharedRequest
  Said = {"ok"}
  Statuses = {"not_started"}
INVARIANTS
  RegistryTypeOK
  OneCreationPerRequest
  BoundIsNoIntent
PROPERTIES
  SettledRowIsFinal
SYMMETRY Interchangeable
CHECK_DEADLOCK FALSE
