SPECIFICATION FairSpec
CONSTANTS
  Void = Void
  a = a
  a2 = a2
  t = t
  w = w
  n = n
  v = v
  A = A
  T = T
  W = W
  V = V
  NoName = NoName
  Die <- MCDie
  TypeRank <- MCTypeRank
  TypeDie <- MCTypeDie
  ConcreteType <- MCConcreteType
  CxxName <- MCCxxName
  Jobs <- MCJobs
INVARIANTS
  TypeOK
  WorklistExact
  ConstraintsExact
  OpenOnlyThroughTypedefs
  ClosedForWriter
PROPERTIES
  GeneratesReachable
  Terminates
CHECK_DEADLOCK FALSE
