SPECIFICATION FairSpec
CONSTANTS
  Void = Void
  s = s
  s2 = s2
  p = p
  f = f
  q = q
  c = c
  en = en
  bt = bt
  v = v
  n = n
  Die = {s, s2, p, f, q, c, en, bt, v, n}
  Variable = {v}
  Type = {s, s2, p, f, q, c, en, bt}
  Alias = {c}
  Raw = {en}
  Roots <- MCRoots
INVARIANTS
  TypeOK
  OneOfEachType
  NoTypeWithinItself
  Closing
  GathersReachable
  PrintedReferencesGathered
PROPERTIES
  Terminates
CHECK_DEADLOCK FALSE
