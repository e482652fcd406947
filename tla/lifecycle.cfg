SPECIFICATION LSpec
CONSTANTS
  Workers = {w1, w2}
  MaxTasks = 1
INVARIANTS LTypeOK WakeupOnItsWay FreedAfterDisable CrashIsExplained NoEarlyBase
PROPERTIES EveryTaskTaken ShutdownCompletes
CHECK_DEADLOCK FALSE
