SPECIFICATION Spec
CONSTANTS
  CommandTries = 2
  EnumerationTries = 2
  WaitTime = 2
  Devices <- FullSpeed
  DetachIsLevel = FALSE
  PowerAnswers <- YesOrNo
  ClientAnswers <- YesOrNo
  MemoryAnswers <- YesOrNo
  AppCalls <- NoCalls
  ChosenConfigurations <- Configuration
  NoState = NoState
  NoDevice = NoDevice
INVARIANTS RetryReachesDevice
