SPECIFICATION Spec
CONSTANTS
  Radix = 2
  LengthBytes = 3
  Keys <- MCKeys
  Redirected <- MCRedirected
  MaxCalls = 2
  MaxConnections = 2
  MaxShort = 1
INVARIANTS TypeOK FramesDecode AnswerIsOwn ReadsExplained KilledOnlyMidReply
PROPERTIES CallReturns
CHECK_DEADLOCK FALSE
