SPECIFICATION FairSpec
CONSTANTS
  CommandTries = 2
  EnumerationTries = 2
  WaitTime = 2
  Devices <- FullSpeed
  DetachIsLevel = FALSE
  PowerAnswers <- Always
  ClientAnswers <- YesOrNo
  MemoryAnswers <- YesOrNo
  AppCalls <- PowerCalls
  ChosenConfigurations <- Configuration
  NoState = NoState
  NoDevice = NoDevice
PROPERTIES OvercurrentUntilAvailable
