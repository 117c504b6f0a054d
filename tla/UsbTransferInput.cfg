SPECIFICATION FairSpec
CONSTANTS
  Interrupts <- Mouse
  Ins <- In
  Interval = 1
  MaxPacket = 2
  Sizes <- Packets
  RetryAttempts = 2
  ControlNaks = 0
  AppCalls <- InputCalls
  NoToken = NoToken
  NoResult = NoResult
INVARIANTS
  TogglesAgree CompleteTransfersAreOver
PROPERTIES
  ImplementsPipes
