\* Every system call against the scheduler and the timer, on two CPUs and two slots.
CONSTANTS
  c1 = c1
  c2 = c2
  NoCPU = NoCPU
  CPU = {c1, c2}
  BootCPU = c1
  NPROC = 2
  MaxPid = 3
  TickMod = 3
  SleepTicks = 2
  Syscalls = {"fork", "exit", "wait", "kill", "setpri", "sleep"}
  PidArgs = {0, 2}
  NewPriorities = {0, 1}
  Default = 5
  MaxPri = 20
  AgeLimit = 0
SPECIFICATION Spec
INVARIANTS
  IInv
  OneCPU
  StackInUse
  NoLostWakeup

  
