SPECIFICATION Spec
CONSTANTS
  Interrupts <- Mouse
  Ins <- In
  Interval = 1
  MaxPacket = 2
  Sizes <- OneByte
  RetryAttempts = 2
  ControlNaks = 1
  AppCalls <- SleepCalls
  NoToken = NoToken
  NoResult = NoResult
PROPERTY SilentWhileSuspended
