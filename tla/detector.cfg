CONSTANTS
  failure_threshold = 3
  max_age = 3
SPECIFICATION Spec
INVARIANTS
  TypeOK
  FailedIsExplained
PROPERTIES
  DownPeerReported
