\* proc_3.c on one CPU: aging against programs that keep raising priorities.
CONSTANTS
  c1 = c1
  NoCPU = NoCPU
  CPU = {c1}
  BootCPU = c1
  NPROC = 3
  MaxPid = 3
  TickMod = 1
  SleepTicks = 1
  Syscalls = {"fork", "setpri"}
  PidArgs = {3}
  NewPriorities = {3}
  Default = 2
  MaxPri = 3
  AgeLimit = 2
SPECIFICATION FairSpec
PROPERTIES
  RunnableRuns
