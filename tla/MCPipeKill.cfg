CONSTANTS
  p1 = p1  p2 = p2  p3 = p3
  Proc <- Procs
  Ends0 <- EndsRace
  Killable <- ReaderKilled
  Byte = {0}
  PIPESIZE = 2
  UINT = 4
  MaxCount = 3
  NoProc = NoProc
SPECIFICATION FairSpec
PROPERTY KilledReturns
CHECK_DEADLOCK FALSE
