\* kill of a pid that no process has.
CONSTANTS
  c1 = c1
  c2 = c2
  NoCPU = NoCPU
  CPU = {c1, c2}
  BootCPU = c1
  NPROC = 3
  MaxPid = 3
  TickMod = 1
  SleepTicks = 1
  Syscalls = {"fork", "kill"}
  PidArgs = {0}
  NewPriorities = {}
  Default = 5
  MaxPri = 20
  AgeLimit = 0
SPECIFICATION Spec
PROPERTY BornAlive
