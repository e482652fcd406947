CONSTANTS
  Bits = 2
  Self = 1
  Peers = {2, 3}
  Existing = 3
  Notifiers = {2, 3}
  Faulty = {}
  Workers = {w1, w2}
  Keys = {0}
  Lookups = {}
  SUCCESSOR_LIST_SIZE = 1
  replication_factor = 3
  MayLeave = FALSE
  MalformedNotify = FALSE
SYMMETRY WorkerSymmetry
SPECIFICATION Spec
PROPERTIES
  TransferKeepsOwnKeys
