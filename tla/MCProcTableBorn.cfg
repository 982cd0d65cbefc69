SPECIFICATION Spec
CONSTANTS
  NPROC = 3
  MaxPid = 4
  KillArgs <- PidZero
PROPERTIES
  BornAlive
CHECK_DEADLOCK FALSE
