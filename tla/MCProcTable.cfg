SPECIFICATION FairSpec
CONSTANTS
  NPROC = 4
  MaxPid = 5
  KillArgs <- KillPids
INVARIANTS WaitersHaveLiveChildren MemoryOfProcesses
PROPERTY OrphansReaped
CHECK_DEADLOCK FALSE
