SPECIFICATION LiveSpec
CONSTANTS
  None = None
  Failed = Failed
  E1 = E1
  E2 = E2
  c1 = c1
  c2 = c2
  Lower <- CaseOf
  Digit <- Digits
  Days = 3
  MaxLateStampDays = 1
  ValidateColumns = TRUE
  RewriteDate = TRUE
  Table <- Tables
  File <- Files
  PostSlot <- PostSlots
  PostFile <- PostFiles
  Caller = {c1, c2}
  Configured = ","
  MaxFault = 2
CHECK_DEADLOCK FALSE
INVARIANTS
  TypeOK
  OrderIrrelevant
  CatchAllLast
  NothingStartsFailing
  RewriteSafe
  DeclaredAccepted
PROPERTIES
  PublishedIsSettled
