SPECIFICATION Spec
CONSTANTS
  CommandTries = 2
  EnumerationTries = 2
  WaitTime = 2
  Devices <- FullSpeed
  DetachIsLevel = FALSE
  PowerAnswers <- YesOrNo
  ClientAnswers <- YesOrNo
  MemoryAnswers <- YesOrNo
  AppCalls <- Configuring
  ChosenConfigurations <- UnknownConfiguration
  NoState = NoState
  NoDevice = NoDevice
\* GivesUpDetached is violated here too.
INVARIANTS InvalidConfigurationHolds
