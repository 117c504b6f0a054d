SPECIFICATION LabsSpec
CONSTANTS
  Size = 4
  Top = 3
  Values <- MCValues
  Songs <- MCSongs
  OpUnit = 4
  Ratio = 8
  MaxPlayed = 6
  MaxValue = 15
  Digit <- MCDigit
  BufferSize = 10
  FifoSize = 2
  FreeLength = 4
  Characters <- MCCharacters
  Lines <- MCLines
  Junk = {0, 7}
  HMAX = 6
  HSTART = 4
  WIDTH = 2
  HSyncStart = 1
  HSyncEnd = 3
  VMAX = 6
  VSTART = 3
  HEIGHT = 2
  VSyncStart = 1
  VSyncEnd = 2
  FrameBits = 4
  WordBits = 3
  Frames <- MCFrames
  Gaps = {0, 1, 2}
INVARIANTS
  SortCorrect FollowsScore AnswersAreRight StoresLastFrame
PROPERTIES
  KeepsTime PictureIsWhole ProgramsProgress
