SPECIFICATION FairSpec
CONSTANTS
  b1 = b1
  b2 = b2
  fa = fa
  fb = fb
  sa = sa
  sb = sb
  z = z
  p1 = p1
  p2 = p2
  NoPid = NoPid
  NoBatch = NoBatch
  NoFile = NoFile
  Batch = {b1, b2}
  File = {fa}
  Listed <- AllListed
  Slot = {sa}
  Match <- OneEach
  ZeroStep = {}
  Template = {}
  Allowlist = {}
  Pid = {p1}
  HolidayCheckEnforced = FALSE
  CbosMaxRetries = 1
  MaxAbort = 0
  MaxLost = 0
  MayRun <- Status
PROPERTIES
  RefusedIsSentAgain
