SPECIFICATION LiveSpec
CONSTANTS
  r1 = r1
  r2 = r2
  NoTran = 0
  NoRow = NoRow
  RowId = {1}
  Thread = {r1, r2}
  Tran = {1, 2, 3, 4}
  MaxAttempts = 3
  MaxPolls = 2
  MaxFault = 3
CHECK_DEADLOCK FALSE
INVARIANTS
  TypeOK
  RegistrationsAccounted
  VerdictBacked
  ProcessFiredRight
PROPERTIES
  RowResolves
  ImplementsRowFate
