CONSTANTS
  c0 = c0  c1 = c1
  CPU <- CPUs
  cpu0 = c0
  NPROC = 2
  MaxSleep = 1
  Calls = {"exit"}
  NoProc = NoProc
  Free = Free
SPECIFICATION FairSpec
PROPERTY SchedMoves
