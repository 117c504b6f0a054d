SPECIFICATION MouseFairSpec
CONSTANTS
  Devices <- Mixed
  NoDevice = NoDevice
  MaxInterfaces = 2
  MemoryAnswers <- YesOrNo
  Results <- AnyResult
  AppCalls <- NoCalls
INVARIANTS
  ReadsAreUnderwayOrOver
PROPERTIES
  ProcessesFreshReport UnplugIsNoticed MouseIsRead ReportsAreProcessed
