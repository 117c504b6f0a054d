SPECIFICATION Spec
CONSTANTS
  CommandTries = 2
  EnumerationTries = 2
  WaitTime = 2
  Devices <- AllDevices
  DetachIsLevel = FALSE
  PowerAnswers <- YesOrNo
  ClientAnswers <- YesOrNo
  MemoryAnswers <- YesOrNo
  AppCalls <- EveryCall
  ChosenConfigurations <- Configuration
  NoState = NoState
  NoDevice = NoDevice
INVARIANTS
  HostInvariant ClientReleased EnumeratesOneDevice TimerOnlyInWaits
PROPERTIES
  ImplementsLifecycle
