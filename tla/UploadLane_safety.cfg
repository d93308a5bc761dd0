SPECIFICATION Spec
CONSTANTS
  b1 = b1
  b2 = b2
  fa = fa
  fb = fb
  sa = sa
  sb = sb
  z = z
  p1 = p1
  p2 = p2
  NoPid = NoPid
  NoBatch = NoBatch
  NoFile = NoFile
  Batch = {b1, b2}
  File = {fa}
  Listed <- AllListed
  Slot = {sa}
  Match <- OneEach
  ZeroStep = {z}
  Template = {z}
  Allowlist = {}
  Pid = {p1, p2}
  HolidayCheckEnforced = TRUE
  CbosMaxRetries = 2
  MaxAbort = 1
  MaxLost = 1
  MayRun <- Status
INVARIANTS
  TypeOK
  UploadedIsRegistered
  EntriesAccounted
  AtMostOnce
PROPERTIES
  ImplementsFileFate
