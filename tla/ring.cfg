SPECIFICATION Spec
CONSTANTS
  MaxNode = 2
  Workers = 1
  MaxRequests = 3
  MaxOpen = 2
  MaxRestarts = 1
INVARIANTS TypeOK AckedPutOnPath AckedKeyReadable DeletedStaysDeleted NoPoolDeadlock
CHECK_DEADLOCK FALSE
