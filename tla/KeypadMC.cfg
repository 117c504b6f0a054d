SPECIFICATION FairHSpec
CONSTANTS
  CounterMax = 31
  Touches <- TwoKeys
  None = None
PROPERTIES
  QuietBeforeRelease HeldKeyRecordedOnce RecordsPressedKey ImplementsKeyPress ReaderSettles
