SPECIFICATION Spec
CONSTANTS
  NoSize = NoSize
  NoLocation = NoLocation
  UnsignedWidth = 6
  DwarfWidth = 8
  MAXIMUM_SANE_OFFSET = 32
  Aggregates <- AtZero
INVARIANTS
  LocatedAsSpecified
CHECK_DEADLOCK FALSE
