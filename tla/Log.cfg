SPECIFICATION FairSpec
CONSTANTS
  Blocks = {b1, b2}
  Vals = {0, 1}
  Threads = {t1, t2, t3}
  LOGBLOCKS = 6
  MAXOPBLOCKS = 3
  OpBlocks = 2
  Absent = Absent
INVARIANTS
  LogConsistent
PROPERTIES
  Atomic
  LogProgress
