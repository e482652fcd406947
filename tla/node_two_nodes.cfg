CONSTANTS
  Bits = 2
  Self = 1
  Peers = {2, 3}
  Existing = 3
  Notifiers = {2}
  Faulty = {}
  Workers = {w1}
  Keys = {0}
  Lookups = {2}
  SUCCESSOR_LIST_SIZE = 1
  replication_factor = 3
  MayLeave = FALSE
  MalformedNotify = FALSE
SPECIFICATION FairSpec
INVARIANTS
  TypeOK
  NoSelfDeadlock
  RingCovered
  LookupsStayLocal
PROPERTIES
  RequestsAnswered
  StoppedThreadsExit
