SPECIFICATION FairSpec
CONSTANTS
  s = s
  s2 = s2
  x = x
  i = i
  v = v
  S = S
  NoName = NoName
  NoCode = NoCode
  Die <- MCDie
  TypeRank <- MCTypeRank
  TypeDie <- MCTypeDie
  NameHere <- MCNameHere
  SummaryCode <- MCSummaryCode
  Inputs <- MCInputs
INVARIANTS
  TypeOK
  FragmentsConserved
  ConstraintsExact
  DependenciesFirst
  StuckOnlyOnCycle
  OneDefinitionPerName
  SuppressedHasNamesake
PROPERTIES
  EmitsInDependencyOrder
  Terminates
CHECK_DEADLOCK FALSE
