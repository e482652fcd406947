SPECIFICATION Spec
CONSTANTS
  Producers = {p1, p2}
  NumReplicas = 1
  replication_factor = 3
  max_retries = 1
  MaxTasks = 2
INVARIANTS TypeOK StaleOnlyAfterFailure
PROPERTIES ImplementsDelivery StopReturns
