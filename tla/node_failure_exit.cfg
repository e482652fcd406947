CONSTANTS
  Bits = 1
  Self = 1
  Peers = {0}
  Existing = 0
  Notifiers = {}
  Faulty = {0}
  Workers = {w1}
  Keys = {}
  Lookups = {}
  SUCCESSOR_LIST_SIZE = 1
  replication_factor = 3
  MayLeave = FALSE
  MalformedNotify = FALSE
SPECIFICATION FairSpec
PROPERTIES
  StoppedThreadsExit
CHECK_DEADLOCK FALSE
