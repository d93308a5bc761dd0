SPECIFICATION LiveSpec
CONSTANTS
  p1 = p1
  p2 = p2
  g = g
  NoTran = 0
  NoVersion = NoVersion
  Latest = 0
  Version = {1}
  Poster = {p1}
  Getter = {g}
  Selection <- NumberedOrTwice
  Tran = {1, 2, 3, 4}
  MaxForce = 1
  MaxFault = 1
PROPERTIES
  FileEnds
