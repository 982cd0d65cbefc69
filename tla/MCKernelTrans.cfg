CONSTANTS
  p1 = p1  p2 = p2
  Proc <- Procs
  initproc = p1
  NInum = 3
  NINODE = 3
  NBlock = 3
  NFILE = 1
  NOFILE = 1
  MAXFILE = 2
  MaxChunk = 2
  Name = {"a", "b"}
  Calls <- PathCalls
  NoProc = NoProc
  MemProc <- Procs
  firstproc = p1
  NPage = 11
  NPTE = 2
  NKPT = 1
  MaxSz = 5
  ProgSz = 1
  MaxCalls = 4
  KBD_C_QUEUE_LENGTH = 3
  MaxMsg = 5
  Key = {"a", "ctl", "rctl", "shift", "rshift", "ralt", "caps", "up"}
  MaxHeld = 3
  XMax = 1
  YMax = 1
  TooFar = 100
  Move <- Moves
  Reader <- Procs
  INPUT_BUF = 3
  UINT = 9
  MaxRead = 2
SPECIFICATION KernelSpec
INVARIANT NoWriteOutside
CHECK_DEADLOCK FALSE
