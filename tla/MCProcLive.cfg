\* kill against fork, exit and sys_sleep on one CPU, three slots, all priorities equal; a
\* single CPU takes a free spinlock as soon as it wants it.
\* With TickMod = 1 a sleep is never over: only kill ends it.
CONSTANTS
  c1 = c1
  NoCPU = NoCPU
  CPU = {c1}
  BootCPU = c1
  NPROC = 3
  MaxPid = 3
  TickMod = 1
  SleepTicks = 1
  Syscalls = {"fork", "exit", "kill", "sleep"}
  PidArgs = {2}
  NewPriorities = {}
  Default = 5
  MaxPri = 20
  AgeLimit = 0
SPECIFICATION FairSpec
INVARIANTS
  FamilyTree
PROPERTIES
  RunnableRuns
  KilledExits
