SPECIFICATION Spec
CONSTANTS
  Interrupts <- Lights
  Ins <- NoIn
  Interval = 1
  MaxPacket = 2
  Sizes <- OneByte
  RetryAttempts = 2
  ControlNaks = 0
  AppCalls <- OutputCalls
  NoToken = NoToken
  NoResult = NoResult
INVARIANTS
  OneTokenAtATime
