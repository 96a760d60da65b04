SPECIFICATION FairSpec
CONSTANTS
  NoSize = NoSize
  NoLocation = NoLocation
  UnsignedWidth = 6
  DwarfWidth = 8
  MAXIMUM_SANE_OFFSET = 32
  Aggregates <- MCAggregates
INVARIANTS
  SearchExact
  LaidOutAgain
PROPERTIES
  Terminates
CHECK_DEADLOCK FALSE
