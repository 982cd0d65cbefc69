CONSTANTS
  p1 = p1  p2 = p2  p3 = p3
  Proc <- Procs
  Ends0 <- EndsRace
  Killable <- WriterKilled
  Byte = {0, 1}
  PIPESIZE = 2
  UINT = 4
  MaxCount = 2
  NoProc = NoProc
SPECIFICATION FairSpec
INVARIANT PipeInv
PROPERTIES Implements EndOfFileIsFinal PipeMoves
CHECK_DEADLOCK FALSE
