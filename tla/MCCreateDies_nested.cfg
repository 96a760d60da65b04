SPECIFICATION Spec
CONSTANTS
  a = a
  b = b
  c = c
  d = d
  x = x
  y = y
  z = z
  u = u
  NoNode = NoNode
  NoName = NoName
  Node = {a, b, c, d}
  Name = {x, y, z, u}
  Texts <- Nested
INVARIANTS
  NestedAlreadyCreated
CHECK_DEADLOCK FALSE
