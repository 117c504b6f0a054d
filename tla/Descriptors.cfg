SPECIFICATION DescriptorsSpec
CONSTANTS
  Descriptors <- MCDescriptors
  Reports <- MCReports
  JunkSizes = {2}
  MaxParses = 2
  Devices <- MCConfigured
  PowerAnswers = {TRUE, FALSE}
  MemoryAnswers = {TRUE, FALSE}
  Numbers = {0, 1}
  Alternates = {0, 1}
  Addresses = {0, 129, 130, 2}
INVARIANTS
  FitsRoom TablesFollowDescriptor CollectionsFormTree UsagesAreFound EndpointListIsSound
PROPERTIES
  ReadsReports
CHECK_DEADLOCK FALSE
