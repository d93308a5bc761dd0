SPECIFICATION Spec
CONSTANTS
  p1 = p1
  p2 = p2
  g = g
  NoTran = 0
  NoVersion = NoVersion
  Latest = 0
  Version = {1}
  Poster = {p1, p2}
  Getter = {g}
  Selection <- One
  Tran = {1, 2, 3}
  MaxForce = 0
  MaxFault = 1
SYMMETRY Symmetric
INVARIANTS
  TypeOK
  AppendsAccounted
  SuccessAppended
PROPERTIES
  TranNotOverwritten
