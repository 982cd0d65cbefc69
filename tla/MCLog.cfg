CONSTANTS
  p1 = p1  p2 = p2
  b1 = b1  b2 = b2
  v1 = v1  v2 = v2
  Proc <- Procs
  initproc = p1
  Block <- Blocks
  Val <- Vals
  NotCached = NotCached
  LOGSIZE = 2
  NLog = 4
SPECIFICATION FairSpec
PROPERTIES Implements LogGoesOn

