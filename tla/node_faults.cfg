CONSTANTS
  Bits = 1
  Self = 1
  Peers = {0}
  Existing = 0
  Notifiers = {0}
  Faulty = {0}
  Workers = {w1}
  Keys = {0}
  Lookups = {0}
  SUCCESSOR_LIST_SIZE = 2
  replication_factor = 3
  MayLeave = TRUE
  MalformedNotify = TRUE
SPECIFICATION Spec
PROPERTIES
  WedgeIsFinal
CHECK_DEADLOCK FALSE
