SPECIFICATION Spec
CONSTANTS
  CommandTries = 2
  EnumerationTries = 2
  WaitTime = 2
  Devices <- FullSpeed
  DetachIsLevel = FALSE
  PowerAnswers <- Always
  ClientAnswers <- YesOrNo
  MemoryAnswers <- Always
  AppCalls <- WakeCalls
  ChosenConfigurations <- Configuration
  NoState = NoState
  NoDevice = NoDevice
\* ClientReleased is violated here too.
INVARIANTS TimerOnlyInWaits
