CONSTANTS
  p1 = p1  p2 = p2  p3 = p3
  s1 = s1  s2 = s2  s3 = s3
  v1 = v1  v2 = v2
  Proc <- Procs
  NBUF = 2
  Sector <- Sectors
  NoSector = NoSector
  Reads <- Calls
  Val <- Vals
  Puts <- Contents1
  MaxPinned = 1
  MaxHeld = 2
  DiskFaults = TRUE
  NoProc = NoProc
SPECIFICATION Spec
PROPERTY Implements
CHECK_DEADLOCK FALSE
