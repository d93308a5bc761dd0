SPECIFICATION Spec
CONSTANTS
  Lanes <- AllLanes
  MaxSize = 6
  ChunkSize = 2
  HeaderScan = 3
  Retries = 2
  MaxFault = 3
CHECK_DEADLOCK FALSE
INVARIANTS
  WholeFile
  RowsKept
