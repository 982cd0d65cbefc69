CONSTANTS
  c0 = c0  c1 = c1
  CPU <- CPUs
  cpu0 = c0
  NPROC = 3
  MaxSleep = 1
  Calls = {"exit", "wait", "kill"}
  NoProc = NoProc
  Free = Free
SPECIFICATION Spec
INVARIANTS NoPanic OneCpuPerStack NoLostWakeup InterruptsRestored
