CONSTANTS
  Bits = 1
  Self = 1
  Peers = {0}
  Existing = 0
  Notifiers = {0}
  Faulty = {}
  Workers = {w1, w2}
  Keys = {0}
  Lookups = {}
  SUCCESSOR_LIST_SIZE = 1
  replication_factor = 3
  MayLeave = FALSE
  MalformedNotify = FALSE
SYMMETRY WorkerSymmetry
SPECIFICATION Spec
INVARIANTS
  ForwardsElsewhere
