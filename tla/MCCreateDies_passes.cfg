SPECIFICATION FairSpec
CONSTANTS
  a = a
  b = b
  c = c
  d = d
  x = x
  y = y
  z = z
  u = u
  NoNode = NoNode
  NoName = NoName
  Node = {a, b, c, d}
  Name = {x, y, z, u}
  Texts <- MCTexts
INVARIANTS
  TypeOK
  NothingForgotten
  DoneIsComplete
  OnePassResolves
  GivesUpOnUnknownNames
PROPERTIES
  Terminates
CHECK_DEADLOCK FALSE
