SPECIFICATION FairSpec
CONSTANTS
  Interrupts <- None
  Ins <- NoIn
  Interval = 1
  MaxPacket = 2
  Sizes <- Bytes
  RetryAttempts = 3
  ControlNaks = 1
  AppCalls <- RequestCalls
  NoToken = NoToken
  NoResult = NoResult
INVARIANTS
  RequestInvariant AnswersAreFinal
PROPERTIES
  TransfersEnd
