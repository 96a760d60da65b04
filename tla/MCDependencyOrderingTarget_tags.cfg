SPECIFICATION Spec
CONSTANTS
  Void = Void
  Base = Base
  Ptr = Ptr
  Arr = Arr
  S = S
  S2 = S2
  U = U
  R = R
  Enm = Enm
  T = T
  T2 = T2
  V = V
  F = F
  struct_S = struct_S
  struct_R = struct_R
  n_T = n_T
  n_V = n_V
  n_F = n_F
  n_S = n_S
  n_R = n_R
  NoName = NoName
  NoCode = NoCode
  Die <- MCDie
  TypeRank <- MCTypeRank
  TypeDie <- MCTypeDie
  ConcreteType <- MCConcreteType
  CxxName <- MCCxxName
  SummaryCode <- IncompleteR
  Outputs <- MCOutputs
  DieGraphs <- CGraphs
  NameHere <- TagsAsTypedefs
INVARIANTS
  TagsAndTypedefsDontConflict
CHECK_DEADLOCK FALSE
