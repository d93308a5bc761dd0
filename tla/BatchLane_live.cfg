SPECIFICATION LiveSpec
CONSTANTS
  b1 = b1
  b2 = b2
  f1 = f1
  h1 = h1
  h2 = h2
  s1 = s1
  NoBatch = NoBatch
  Batch = {b1, b2}
  EmptyBatch = {b2}
  Folder = {f1}
  FolderOf <- OneFolder
  Slot = {}
  Handler = {h1, h2}
  MaxSize = 1
  MaxRestart = 1
PROPERTIES
  GuardReleased
  ShutdownCompletes
  RepostRecovers
