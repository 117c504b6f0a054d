SPECIFICATION FairSpec
CONSTANTS
  Interrupts <- TwoInputs
  Ins <- TwoIn
  Interval = 1
  MaxPacket = 2
  Sizes <- OneByte
  RetryAttempts = 2
  ControlNaks = 0
  AppCalls <- ReadCalls
  NoToken = NoToken
  NoResult = NoResult
PROPERTY InterruptsAreServed
