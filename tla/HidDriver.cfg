SPECIFICATION Spec
CONSTANTS
  Devices <- Refused
  NoDevice = NoDevice
  MaxInterfaces = 2
  MemoryAnswers <- YesOrNo
  Results <- AnyResult
  AppCalls <- EveryCall
INVARIANTS
  DriverInvariant
PROPERTIES
  UsesPipes
