SPECIFICATION Spec
CONSTANTS
  Interrupts <- Mouse
  Ins <- In
  Interval = 1
  MaxPacket = 2
  Sizes <- OneByte
  RetryAttempts = 2
  ControlNaks = 1
  AppCalls <- StopCalls
  NoToken = NoToken
  NoResult = NoResult
INVARIANT CompleteTransfersAreOver
