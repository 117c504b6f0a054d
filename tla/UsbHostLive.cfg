SPECIFICATION FairSpec
CONSTANTS
  CommandTries = 2
  EnumerationTries = 2
  WaitTime = 1
  Devices <- Usual
  DetachIsLevel = TRUE
  PowerAnswers <- Always
  ClientAnswers <- YesOrNo
  MemoryAnswers <- Always
  AppCalls <- WakeCalls
  ChosenConfigurations <- Configuration
  NoState = NoState
  NoDevice = NoDevice
INVARIANT BudgetsLast
PROPERTIES AttachedDeviceSettles DetachIsNoticed
