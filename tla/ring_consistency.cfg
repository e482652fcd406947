SPECIFICATION Spec
CONSTANTS
  MaxNode = 1
  Workers = 1
  MaxRequests = 2
  MaxOpen = 1
  MaxRestarts = 0
PROPERTY EventuallyConsistent
CHECK_DEADLOCK FALSE
