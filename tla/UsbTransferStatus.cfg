SPECIFICATION Spec
CONSTANTS
  Interrupts <- None
  Ins <- NoIn
  Interval = 1
  MaxPacket = 2
  Sizes <- Bytes
  RetryAttempts = 2
  ControlNaks = 1
  AppCalls <- RequestOnly
  NoToken = NoToken
  NoResult = NoResult
INVARIANT SuccessIsAccepted
