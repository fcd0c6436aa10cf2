--------------------------- MODULE ProcCallProofs ---------------------------
(***************************************************************************)
(* The second part of the proof that IInv is preserved by every step: the  *)
(* steps of sleep and fork.                                                *)
(***************************************************************************)
EXTENDS ProcSchedProofs

\* sleep(&ticks, &tickslock) takes ptable.lock, then releases tickslock.
LEMMA SleepInv ==
  ASSUME IInv, NEW c \in CPU, NEW p \in Slot, Sleep(c, p)
  PROVE  IInv'
<1> USE DEF table, thread, cpu, clock
<1>0. /\ state \in [Slot -> States]
      /\ chan \in [Slot -> Slot \cup {NULL, Ticks}]
      /\ ctx \in [Slot -> Ctxs]
      /\ ticks0 \in [Slot -> 0..TickMod-1]
      /\ ticks \in 0..TickMod-1
  BY Zenon, HasTypeOK DEF TypeOK, TableOK, ThreadOK, CPUOK
<1>r. state[p] = "RUNNING"
  BY Zenon, SlotFacts, ProcAssumption, HasOneCPU DEF Sleep, Exec, OneCPU
<1>1. TypeOK'
  BY Zenon, HasTypeOK DEF Sleep, TypeOK, Ctxs, States, CPUOK, TableOK, ThreadOK
<1>2. OneCPU' /\ CPUInv'
  BY ProcAssumption, <1>0, HasOneCPU, HasCPUInv DEF Sleep, Exec, OneCPU, CPUInv
<1>3. StackInUse'
  <2>1. SameStack
    BY Zenon, SlotTypes, <1>r DEF Sleep, SameStack
  <2>2. UNCHANGED <<kstack, np, proc>>
    BY Zenon DEF Sleep
  <2>3. QED BY Zenon, <2>1, <2>2, StackFrame, HasStackInUse
<1>4. SchedHolding'
  BY ProcAssumption, HasSchedHolding, HasTickInv DEF Sleep, Exec, SchedHolding,
    TickInv
<1>5. NoLostTick' /\ NoLostChild' /\ KilledNotInWait'
  BY <1>0, ProcAssumption, SlotFacts, HasNoLostTick, HasNoLostChild,
    HasKilledNotInWait, HasCtxInv, HasTickInv DEF Sleep, Exec, NoLostTick,
    TickInv, Elapsed, NoLostChild, CtxInv, Kids, Zombies, KilledNotInWait
<1>6. FamilyTree' /\ InitInv'
  <2>1. SameTree
    BY Zenon, SlotTypes, <1>r DEF Sleep, SameTree, Live
  <2>2. UNCHANGED <<pid, parent, nextpid, op>>
    BY Zenon DEF Sleep
  <2>3. QED BY Zenon, <2>1, <2>2, SlotTypes, TreeFrame, InitFrame, HasFamilyTree,
    HasInitInv
<1>7. CtxInv'
  BY <1>0, HasCtxInv DEF Sleep, CtxInv
<1>8. ForkInv'
  <2>1. SameFork
    BY Zenon, SlotTypes, <1>r DEF Sleep, SameFork
  <2>2. UNCHANGED <<pid, parent, kstack, np>>
    BY Zenon DEF Sleep
  <2>3. QED BY Zenon, <2>1, <2>2, SlotTypes, ForkFrame, HasForkInv
<1>9. TickInv'
  BY <1>0, ProcAssumption, HasTickInv DEF Sleep, Exec, TickInv, Elapsed
<1>10. QED BY Zenon, <1>1, <1>2, <1>3, <1>4, <1>5, <1>6, <1>7, <1>8, <1>9, Whole

\* sys_sleep() tests its loop condition under tickslock.
LEMMA SysSleepTestInv ==
  ASSUME IInv, NEW c \in CPU, NEW p \in Slot, SysSleepTest(c, p)
  PROVE  IInv'
<1> USE DEF table, thread, cpu, clock
<1>0. /\ op \in [Slot -> Ops]
      /\ ticks0 \in [Slot -> 0..TickMod-1]
      /\ ticks \in 0..TickMod-1
  BY Zenon, HasTypeOK DEF TypeOK, ThreadOK, CPUOK
<1>1. TypeOK'
  <2>1. op' \in [Slot -> Ops]
    BY Zenon, <1>0 DEF SysSleepTest, Ops
  <2>2. ticks0' \in [Slot -> 0..TickMod-1] /\ tlock' \in CPU \cup {NoCPU}
    BY <1>0, ProcAssumption, HasTypeOK DEF SysSleepTest, TypeOK, CPUOK
  <2>3. QED BY Zenon, <2>1, <2>2, TypeFrames, HasTypeOK DEF SysSleepTest,
    TypeOK, ThreadOK, CPUOK
<1>2. StackInUse'
  <2>1. SameStack
    BY Zenon, SlotTypes DEF SysSleepTest, SameStack
  <2>2. UNCHANGED <<kstack, np, proc>>
    BY Zenon DEF SysSleepTest
  <2>3. QED BY Zenon, <2>1, <2>2, StackFrame, HasStackInUse
<1>3. SchedHolding'
  BY Zenon, ProcAssumption, HasSchedHolding DEF SysSleepTest, SchedHolding
<1>4. NoLostTick'
  BY Zenon, <1>0, HasNoLostTick, HasCtxInv DEF SysSleepTest, SleepOver,
    NoLostTick, CtxInv, Elapsed
<1>5. CtxInv'
  BY <1>0, HasCtxInv DEF SysSleepTest, CtxInv
<1>6. ForkInv'
  <2>1. SameFork
    BY Zenon, SlotTypes DEF SysSleepTest, SameFork
  <2>2. UNCHANGED <<pid, parent, kstack, np>>
    BY Zenon DEF SysSleepTest
  <2>3. QED BY Zenon, <2>1, <2>2, SlotTypes, ForkFrame, HasForkInv
<1>7. TickInv'
  BY <1>0, ProcAssumption, HasTickInv DEF SysSleepTest, Exec, SleepOver,
    TickInv, Elapsed
<1>8. InitInv'
  BY Zenon, <1>0, SlotFacts, HasInitInv DEF SysSleepTest, InitInv
<1>9. UNCHANGED <<state, pid, parent, killed, chan, ctx, proc, irq, lock>>
  BY Zenon DEF SysSleepTest
<1>10. QED BY Zenon, <1>1, <1>2, <1>3, <1>4, <1>5, <1>6, <1>7, <1>8, <1>9,
  Frames, Parts, Whole

\* sys_sleep() takes tickslock and notes the time.
LEMMA SysSleepInv ==
  ASSUME IInv, NEW c \in CPU, NEW p \in Slot, SysSleep(c, p)
  PROVE  IInv'
<1> USE DEF table, thread, cpu, clock
<1>0. /\ op \in [Slot -> Ops]
      /\ ticks0 \in [Slot -> 0..TickMod-1]
  BY Zenon, HasTypeOK DEF TypeOK, ThreadOK
<1>1. TypeOK'
  BY Zenon, TypeFrames, HasTypeOK DEF SysSleep, TypeOK, Ops, CPUOK, ThreadOK
<1>2. StackInUse'
  <2>1. SameStack
    BY Zenon, SlotTypes DEF SysSleep, SameStack
  <2>2. UNCHANGED <<kstack, np, proc>>
    BY Zenon DEF SysSleep
  <2>3. QED BY Zenon, <2>1, <2>2, StackFrame, HasStackInUse
<1>3. SchedHolding'
  BY Zenon, HasSchedHolding DEF SysSleep, Exec, SchedHolding
<1>4. NoLostTick'
  BY HasNoLostTick, HasCtxInv DEF SysSleep, NoLostTick, CtxInv, Elapsed
<1>5. CtxInv'
  BY <1>0, HasCtxInv DEF SysSleep, Exec, CtxInv
<1>6. ForkInv'
  <2>1. SameFork
    BY Zenon, SlotTypes DEF SysSleep, SameFork
  <2>2. UNCHANGED <<pid, parent, kstack, np>>
    BY Zenon DEF SysSleep
  <2>3. QED BY Zenon, <2>1, <2>2, SlotTypes, ForkFrame, HasForkInv
<1>7. TickInv'
  BY <1>0, ProcAssumption, SlotFacts, HasOneCPU, HasTickInv DEF SysSleep, Exec,
    TickInv, OneCPU, Elapsed
<1>8. InitInv'
  BY HasInitInv DEF SysSleep, InitInv
<1>9. UNCHANGED <<state, pid, parent, killed, chan, ctx, proc, irq, lock>>
  BY Zenon DEF SysSleep
<1>10. QED BY Zenon, <1>1, <1>2, <1>3, <1>4, <1>5, <1>6, <1>7, <1>8, <1>9,
  Frames, Parts, Whole

\* sleep() returns from sched() and releases ptable.lock.
LEMMA SleepWokenInv ==
  ASSUME IInv, NEW c \in CPU, NEW p \in Slot, SleepWoken(c, p)
  PROVE  IInv'
<1> USE DEF table, thread, cpu, clock
<1>0. /\ chan \in [Slot -> Slot \cup {NULL, Ticks}]
      /\ op \in [Slot -> Ops]
      /\ ctx \in [Slot -> Ctxs]
  BY Zenon, HasTypeOK DEF TypeOK, TableOK, ThreadOK
<1>1. TypeOK'
  BY Zenon, HasTypeOK DEF SleepWoken, TypeOK, Ops, Ctxs, TableOK, CPUOK,
    ThreadOK
<1>2. OneCPU' /\ CPUInv'
  BY SlotFacts, ProcAssumption, HasOneCPU, HasSchedHolding, HasCtxInv, HasCPUInv
    DEF SleepWoken, OneCPU, SchedHolding, CtxInv, CPUInv
<1>3. StackInUse'
  <2>1. SameStack
    BY Zenon, SlotTypes, HasCtxInv DEF SleepWoken, SameStack, CtxInv
  <2>2. UNCHANGED <<kstack, np, proc>>
    BY Zenon DEF SleepWoken
  <2>3. QED BY Zenon, <2>1, <2>2, StackFrame, HasStackInUse
<1>4. SchedHolding'
  BY <1>0, SlotFacts, HasSchedHolding DEF SleepWoken, SchedHolding
<1>5. NoLostTick' /\ NoLostChild' /\ KilledNotInWait'
  <2>1. NoNewSleeper
    BY Zenon, SlotTypes DEF SleepWoken, NoNewSleeper
  <2>2. UNCHANGED <<parent, ticks0, ticks>>
    BY Zenon DEF SleepWoken
  <2>3. irq[BootCPU] = "wake" => irq'[BootCPU] = "wake"
    BY Zenon DEF SleepWoken
  <2>4. QED BY Zenon, <2>1, <2>2, <2>3, SleepFrame, HasNoLostTick,
    HasNoLostChild, HasKilledNotInWait
<1>6. CtxInv'
  BY <1>0, HasCtxInv DEF SleepWoken, CtxInv
<1>7. ForkInv'
  <2>1. SameFork
    BY Zenon, SlotTypes, HasCtxInv DEF SleepWoken, SameFork, CtxInv
  <2>2. UNCHANGED <<pid, parent, kstack, np>>
    BY Zenon DEF SleepWoken
  <2>3. QED BY Zenon, <2>1, <2>2, SlotTypes, ForkFrame, HasForkInv
<1>8. TickInv'
  <2>1. SameSleep
    BY Zenon, SlotTypes, HasCtxInv DEF SleepWoken, SameSleep, CtxInv
  <2>2. UNCHANGED <<ticks0, proc, irq, tlock, ticks>>
    BY Zenon DEF SleepWoken
  <2>3. QED BY Zenon, <2>1, <2>2, TickFrame, HasTickInv
<1>9. InitInv'
  BY HasInitInv DEF SleepWoken, InitInv
<1>10. UNCHANGED <<state, pid, parent>>
  BY Zenon DEF SleepWoken
<1>11. QED BY Zenon, <1>1, <1>2, <1>3, <1>4, <1>5, <1>6, <1>7, <1>8, <1>9,
  <1>10, Frames, Parts, Whole

\* sleep() takes tickslock back.
LEMMA SleepRelockInv ==
  ASSUME IInv, NEW c \in CPU, NEW p \in Slot, SleepRelock(c, p)
  PROVE  IInv'
<1> USE DEF table, thread, cpu, clock
<1>0. op \in [Slot -> Ops]
  BY Zenon, HasTypeOK DEF TypeOK, ThreadOK
<1>1. TypeOK'
  BY Zenon, TypeFrames, HasTypeOK DEF SleepRelock, TypeOK, Ops, CPUOK, ThreadOK
<1>2. StackInUse'
  <2>1. SameStack
    BY Zenon, SlotTypes DEF SleepRelock, SameStack
  <2>2. UNCHANGED <<kstack, np, proc>>
    BY Zenon DEF SleepRelock
  <2>3. QED BY Zenon, <2>1, <2>2, StackFrame, HasStackInUse
<1>3. SchedHolding'
  BY Zenon, HasSchedHolding DEF SleepRelock, Exec, SchedHolding
<1>4. CtxInv'
  BY HasCtxInv DEF SleepRelock, Exec, CtxInv
<1>5. ForkInv'
  <2>1. SameFork
    BY Zenon, SlotTypes DEF SleepRelock, SameFork
  <2>2. UNCHANGED <<pid, parent, kstack, np>>
    BY Zenon DEF SleepRelock
  <2>3. QED BY Zenon, <2>1, <2>2, SlotTypes, ForkFrame, HasForkInv
<1>6. TickInv'
  BY <1>0, ProcAssumption, SlotFacts, HasOneCPU, HasTickInv DEF SleepRelock,
    Exec, TickInv, OneCPU, Elapsed
<1>7. InitInv'
  BY HasInitInv DEF SleepRelock, InitInv
<1>8. UNCHANGED <<state, pid, parent, killed, chan, ctx, ticks0, proc, irq,
                  lock, ticks>>
  BY Zenon DEF SleepRelock
<1>9. QED BY Zenon, <1>1, <1>2, <1>3, <1>4, <1>5, <1>6, <1>7, <1>8, Frames,
  Parts, Whole

\* What fork() knows of the EMBRYO it is making.
LEMMA ForkOwns ==
  ASSUME IInv, NEW p \in Slot, op[p] \in {"fork1", "fork2"}
  PROVE  /\ np[p] \in Slot /\ state[np[p]] = "EMBRYO" /\ pid[p] < pid[np[p]]
         /\ \A q \in Slot : np[q] = np[p] => q = p
         /\ op[p] = "fork2" => parent[np[p]] = p
<1>1. np[p] # NULL
  BY Zenon, HasForkInv DEF ForkInv
<1>2. state[np[p]] = "EMBRYO" /\ pid[p] < pid[np[p]]
  BY Zenon, <1>1, HasForkInv DEF ForkInv
<1>3. \A q \in Slot : np[q] = np[p] => q = p
  <2>1. \A q, r \in Slot : np[q] # NULL /\ np[q] = np[r] => q = r
    BY Zenon, HasForkInv DEF ForkInv
  <2>2. QED BY Zenon, <1>1, <2>1
<1>4. op[p] = "fork2" => parent[np[p]] = p
  BY Zenon, HasForkInv DEF ForkInv
<1>5. QED BY Zenon, <1>1, <1>2, <1>3, <1>4, SlotTypes

\* A slot no CPU executes changes state.
LEMMA OffCPU ==
  ASSUME OneCPU, CPUInv, proc \in [CPU -> Slot \cup {NULL}], NEW q \in Slot,
         \A d \in CPU : proc[d] # q, state'[q] # "RUNNING",
         \A r \in Slot : r # q => state'[r] = state[r],
         UNCHANGED <<ctx, proc, irq, lock>>
  PROVE  OneCPU' /\ CPUInv'
<1>1. \A d \in CPU : proc[d] # NULL => state'[proc[d]] = state[proc[d]]
  BY Zenon
<1>2. \A c, d \in CPU : proc'[c] # NULL /\ proc'[c] = proc'[d] => c = d
  BY Zenon DEF OneCPU
<1>3. \A r \in Slot : state'[r] = "RUNNING" => \E c \in CPU : proc'[c] = r
  BY Zenon DEF OneCPU
<1>4. \A c \in CPU : proc'[c] # NULL => state'[proc'[c]] = "RUNNING" \/ lock' = c
  <2>1. \A c \in CPU : proc[c] # NULL => state[proc[c]] = "RUNNING" \/ lock = c
    BY Zenon DEF OneCPU
  <2>2. QED BY Zenon, <1>1, <2>1
<1>5. CPUInv'
  BY Zenon, <1>1 DEF CPUInv
<1>6. QED BY Zenon, <1>2, <1>3, <1>4, <1>5 DEF OneCPU

\* fork() lets go of its EMBRYO, which it has started or given back.
LEMMA ForkLeave ==
  ASSUME IInv, NEW p \in Slot, op[p] \in {"fork1", "fork2"},
         np' = [np EXCEPT ![p] = NULL], op' = [op EXCEPT ![p] = "user"],
         UNCHANGED <<pid, parent, kstack, ctx>>,
         \A q \in Slot : q # np[p] => state'[q] = state[q]
  PROVE  ForkInv'
<1>1. /\ np'[p] = NULL /\ op'[p] = "user"
      /\ \A q \in Slot : q # p => np'[q] = np[q] /\ op'[q] = op[q]
  BY Zenon, SlotTypes
<1>2. ASSUME NEW q \in Slot, np'[q] # NULL
      PROVE  /\ q # p /\ np'[q] = np[q] /\ np[q] # NULL
             /\ np[q] \in Slot /\ state'[np[q]] = state[np[q]]
  <2>1. q # p /\ np'[q] = np[q] /\ np[q] # NULL /\ np[q] \in Slot
    BY Zenon, <1>1, <1>2, SlotTypes
  <2>2. np[q] # np[p]
    BY Zenon, <2>1, ForkOwns
  <2>3. QED BY Zenon, <2>1, <2>2
<1>3. \A q \in Slot : np'[q] # NULL <=> op'[q] \in {"fork1", "fork2"}
  <2>1. \A q \in Slot : np[q] # NULL <=> op[q] \in {"fork1", "fork2"}
    BY Zenon, HasForkInv DEF ForkInv
  <2>2. QED BY <1>1, <2>1
<1>4. \A q \in Slot : np'[q] # NULL => state'[np'[q]] = "EMBRYO" /\ pid'[q] < pid'[np'[q]]
  <2>1. \A q \in Slot : np[q] # NULL => state[np[q]] = "EMBRYO" /\ pid[q] < pid[np[q]]
    BY Zenon, HasForkInv DEF ForkInv
  <2>2. QED BY Zenon, <1>2, <2>1
<1>5. \A q, r \in Slot : np'[q] # NULL /\ np'[q] = np'[r] => q = r
  <2>1. \A q, r \in Slot : np[q] # NULL /\ np[q] = np[r] => q = r
    BY Zenon, HasForkInv DEF ForkInv
  <2>2. QED BY <1>1, <2>1
<1>6. \A q \in Slot : op'[q] = "fork1" => ctx'[np'[q]] = "none"
  <2>1. \A q \in Slot : op[q] = "fork1" => ctx[np[q]] = "none"
    BY Zenon, HasForkInv DEF ForkInv
  <2>2. QED BY <1>1, <2>1
<1>7. \A q \in Slot : op'[q] = "fork2" => parent'[np'[q]] = q /\ ctx'[np'[q]] = "forkret"
  <2>1. \A q \in Slot : op[q] = "fork2" => parent[np[q]] = q /\ ctx[np[q]] = "forkret"
    BY Zenon, HasForkInv DEF ForkInv
  <2>2. QED BY <1>1, <2>1
<1>8. \A q \in Slot : ~kstack'[q] => parent'[q] = NULL
  BY Zenon, HasForkInv DEF ForkInv
<1>9. QED BY Zenon, <1>3, <1>4, <1>5, <1>6, <1>7, <1>8 DEF ForkInv

\* fork() fills in the EMBRYO without the lock.
LEMMA ForkInitInv ==
  ASSUME IInv, NEW c \in CPU, NEW p \in Slot, ForkInit(c, p)
  PROVE  IInv'
<1> USE DEF table, thread, cpu, clock
<1>0. /\ parent \in [Slot -> Slot \cup {NULL}]
      /\ kstack \in [Slot -> BOOLEAN]
      /\ op \in [Slot -> Ops]
      /\ ctx \in [Slot -> Ctxs]
      /\ np \in [Slot -> Slot \cup {NULL}]
  BY Zenon, HasTypeOK DEF TypeOK, TableOK, ThreadOK
<1>1. PICK q \in Slot : q = np[p]
  BY <1>0, HasForkInv DEF ForkInit, ForkInv
<1>2. state[q] = "EMBRYO" /\ (\A d \in CPU : proc[d] # q) /\ p # q
  BY <1>0, <1>1, SlotFacts, HasCPUInv, HasForkInv DEF ForkInit, ForkInv, CPUInv,
    Exec
<1>3. TypeOK'
  BY Zenon, TypeFrames, HasTypeOK, HasForkInv DEF ForkInit, TypeOK, ForkInv,
    Ops, Ctxs, TableOK, ThreadOK
<1>4. StackInUse'
  BY <1>0, HasStackInUse, HasCtxInv, HasForkInv DEF ForkInit, StackInUse,
    CtxInv, ForkInv
<1>5. SchedHolding'
  BY <1>0, <1>1, <1>2, HasSchedHolding DEF ForkInit, SchedHolding, Exec
<1>6. NoLostChild'
  <2>1. \A x \in Slot : Kids(x) \subseteq Kids(x)' /\ Zombies(x)' = Zombies(x)
    BY <1>0, <1>1, <1>2, SlotFacts, HasStackInUse, HasForkInv DEF ForkInit,
      Kids, Zombies, ForkInv, StackInUse
  <2>2. QED BY Zenon, <2>1, HasNoLostChild DEF ForkInit, NoLostChild
<1>7. FamilyTree' /\ InitInv'
  BY <1>0, SlotFacts, HasFamilyTree, HasCtxInv, HasForkInv, HasInitInv DEF
    ForkInit, FamilyTree, ForkInv, CtxInv, InitInv
<1>8. CtxInv'
  BY <1>0, HasCtxInv, HasForkInv DEF ForkInit, CtxInv, ForkInv
<1>9. CPUInv'
  BY HasCPUInv DEF ForkInit, CPUInv
<1>10. ForkInv'
  BY <1>0, <1>1, <1>2, SlotFacts, HasCtxInv, HasForkInv DEF ForkInit, ForkInv,
    Exec, CtxInv
<1>11. TickInv'
  <2>1. SameSleep
    <3>1. op[p] = "fork1" /\ op[q] = "user"
      BY Zenon, <1>2, HasCtxInv DEF ForkInit, CtxInv
    <3>2. /\ op' = [op EXCEPT ![p] = "fork2", ![q] = "user"]
          /\ ctx' = [ctx EXCEPT ![q] = "forkret"]
      BY Zenon, <1>1 DEF ForkInit
    <3>3. QED BY Zenon, <1>0, <1>2, <3>1, <3>2 DEF SameSleep
  <2>2. UNCHANGED <<ticks0, proc, irq, tlock, ticks>>
    BY Zenon DEF ForkInit
  <2>3. QED BY Zenon, <2>1, <2>2, TickFrame, HasTickInv
<1>12. UNCHANGED <<state, killed, chan, ticks0, proc, irq, lock, ticks>>
  BY Zenon DEF ForkInit
<1>13. QED BY Zenon, <1>3, <1>4, <1>5, <1>6, <1>7, <1>8, <1>9, <1>10, <1>11,
  <1>12, Frames, Parts, Whole

\* allocproc() claims the first UNUSED slot.
LEMMA ForkAllocInv ==
  ASSUME IInv, NEW c \in CPU, NEW p \in Slot, ForkAlloc(c, p)
  PROVE  IInv'
<1> USE DEF table, thread, cpu, clock
<1>0. /\ state \in [Slot -> States]
      /\ pid \in [Slot -> Nat]
      /\ parent \in [Slot -> Slot \cup {NULL}]
      /\ nextpid \in Nat
      /\ op \in [Slot -> Ops]
      /\ np \in [Slot -> Slot \cup {NULL}]
      /\ priority \in [Slot -> 1..MaxPri]
  BY Zenon, HasTypeOK DEF TypeOK, TableOK, ThreadOK
<1>1. TypeOK'
  BY ProcAssumption, TypeFrames, HasTypeOK DEF ForkAlloc, TypeOK, Ops, States,
    TableOK, ThreadOK
<1>2. OneCPU' /\ CPUInv'
  BY HasOneCPU, HasCPUInv DEF ForkAlloc, IsFirst, OneCPU, CPUInv
<1>3. StackInUse'
  BY HasStackInUse DEF ForkAlloc, IsFirst, StackInUse
<1>4. NoLostTick' /\ NoLostChild' /\ KilledNotInWait'
  <2>1. NoNewSleeper
    BY Zenon, SlotTypes DEF ForkAlloc, NoNewSleeper, IsFirst
  <2>2. UNCHANGED <<parent, ticks0, ticks>>
    BY Zenon DEF ForkAlloc
  <2>3. irq[BootCPU] = "wake" => irq'[BootCPU] = "wake"
    BY Zenon DEF ForkAlloc
  <2>4. QED BY Zenon, <2>1, <2>2, <2>3, SleepFrame, HasNoLostTick,
    HasNoLostChild, HasKilledNotInWait
<1>5. FamilyTree' /\ InitInv'
  BY <1>0, HasFamilyTree, HasInitInv DEF ForkAlloc, IsFirst, FamilyTree, InitInv
<1>6. CtxInv'
  BY HasCtxInv DEF ForkAlloc, IsFirst, CtxInv
<1>7. ForkInv'
  BY <1>0, SlotFacts, HasCtxInv, HasForkInv, HasInitInv DEF ForkAlloc, IsFirst,
    ForkInv, CtxInv, InitInv
<1>8. TickInv'
  <2>1. SameSleep
    BY Zenon, SlotTypes DEF ForkAlloc, SameSleep
  <2>2. UNCHANGED <<ticks0, proc, irq, tlock, ticks>>
    BY Zenon DEF ForkAlloc
  <2>3. QED BY Zenon, <2>1, <2>2, TickFrame, HasTickInv
<1>9. UNCHANGED <<ctx, proc, irq, lock, tlock>>
  BY Zenon DEF ForkAlloc
<1>10. QED BY Zenon, <1>1, <1>2, <1>3, <1>4, <1>5, <1>6, <1>7, <1>8, <1>9,
  Frames, Parts, Whole

\* fork() makes the child RUNNABLE.
LEMMA ForkRunInv ==
  ASSUME IInv, NEW c \in CPU, NEW p \in Slot, ForkRun(c, p)
  PROVE  IInv'
<1> USE DEF table, thread, cpu, clock
<1>0. /\ state \in [Slot -> States]
      /\ op \in [Slot -> Ops]
      /\ np \in [Slot -> Slot \cup {NULL}]
  BY Zenon, HasTypeOK DEF TypeOK, TableOK, ThreadOK
<1>e. /\ np[p] \in Slot /\ state[np[p]] = "EMBRYO" /\ op[p] = "fork2"
      /\ state'[np[p]] = "RUNNABLE" /\ \A q \in Slot : q # np[p] => state'[q] = state[q]
  <2>1. op[p] = "fork2" /\ state' = [state EXCEPT ![np[p]] = "RUNNABLE"]
    BY Zenon DEF ForkRun
  <2>2. np[p] \in Slot /\ state[np[p]] = "EMBRYO"
    BY Zenon, <2>1, ForkOwns
  <2>3. QED BY Zenon, <1>0, <2>1, <2>2
<1>1. TypeOK'
  BY Zenon, TypeFrames, HasTypeOK, <1>e DEF ForkRun, TypeOK, Ops, States, TableOK,
    ThreadOK
<1>2. OneCPU' /\ CPUInv'
  <2>1. UNCHANGED <<proc, lock, irq, ctx>>
    BY Zenon DEF ForkRun
  <2>2. \A d \in CPU : proc[d] # np[p]
    BY Zenon, <1>e, SlotFacts, HasCPUInv DEF CPUInv
  <2>3. proc \in [CPU -> Slot \cup {NULL}]
    BY Zenon, HasTypeOK DEF TypeOK, CPUOK
  <2>4. QED BY Zenon, <1>e, <2>1, <2>2, <2>3, OffCPU, HasOneCPU, HasCPUInv
<1>3. StackInUse'
  BY <1>0, HasStackInUse DEF ForkRun, StackInUse
<1>4. NoLostTick' /\ NoLostChild' /\ KilledNotInWait'
  <2>1. NoNewSleeper
    BY Zenon, <1>e DEF ForkRun, NoNewSleeper
  <2>2. UNCHANGED <<parent, ticks0, ticks>>
    BY Zenon DEF ForkRun
  <2>3. irq[BootCPU] = "wake" => irq'[BootCPU] = "wake"
    BY Zenon DEF ForkRun
  <2>4. QED BY Zenon, <2>1, <2>2, <2>3, SleepFrame, HasNoLostTick,
    HasNoLostChild, HasKilledNotInWait
<1>5. FamilyTree' /\ InitInv'
  <2>1. UNCHANGED <<pid, parent, nextpid>> /\ op' = [op EXCEPT ![p] = "user"]
    BY Zenon DEF ForkRun
  <2>2. parent[np[p]] = p /\ np[p] # initproc
    BY Zenon, <1>e, SlotFacts, ForkOwns, HasInitInv DEF InitInv
  <2>3. \A q \in Slot : parent[q] # np[p]
    <3>1. \A q \in Slot : parent[q] # NULL => state[parent[q]] # "EMBRYO"
      BY Zenon, HasFamilyTree DEF FamilyTree
    <3>2. QED BY Zenon, SlotFacts, <1>e, <3>1
  <2>4. FamilyTree'
    <3>1. \A q \in Slot \ {initproc} :
            state'[q] \notin {"UNUSED", "EMBRYO"} => parent'[q] # NULL
      <4>1. \A q \in Slot \ {initproc} :
              state[q] \notin {"UNUSED", "EMBRYO"} => parent[q] # NULL
        BY Zenon, HasFamilyTree DEF FamilyTree
      <4>2. QED BY Zenon, <1>e, <2>1, <2>2, <4>1, SlotFacts
    <3>2. \A q \in Slot : parent'[q] # NULL =>
            /\ state'[parent'[q]] \notin {"UNUSED", "EMBRYO", "ZOMBIE"}
            /\ pid'[parent'[q]] < pid'[q]
      <4>1. \A q \in Slot : parent[q] # NULL =>
              /\ state[parent[q]] \notin {"UNUSED", "EMBRYO", "ZOMBIE"}
              /\ pid[parent[q]] < pid[q]
        BY Zenon, HasFamilyTree DEF FamilyTree
      <4>2. QED BY Zenon, SlotTypes, <1>e, <2>1, <2>3, <4>1
    <3>3. \A q, r \in Slot :
            state'[q] # "UNUSED" /\ state'[r] # "UNUSED" /\ pid'[q] = pid'[r] => q = r
      <4>1. \A q, r \in Slot :
              state[q] # "UNUSED" /\ state[r] # "UNUSED" /\ pid[q] = pid[r] => q = r
        BY Zenon, HasFamilyTree DEF FamilyTree
      <4>2. QED BY <1>e, <2>1, <4>1
    <3>4. QED BY Zenon, <3>1, <3>2, <3>3 DEF FamilyTree
  <2>5. InitInv'
    BY Zenon, <1>0, <1>e, <2>1, <2>2, SlotFacts, HasInitInv DEF InitInv
  <2>6. QED BY Zenon, <2>4, <2>5
<1>6. CtxInv'
  <2>1. /\ UNCHANGED <<ctx, chan>> /\ op' = [op EXCEPT ![p] = "user"] /\ ctx[p] = "none"
    BY Zenon DEF ForkRun, Exec
  <2>2. ctx[np[p]] = "forkret"
    BY Zenon, <1>e, HasForkInv DEF ForkInv
  <2>3. QED BY <1>0, <1>e, <2>1, <2>2, HasCtxInv DEF CtxInv
<1>7. ForkInv'
  <2>1. /\ np' = [np EXCEPT ![p] = NULL] /\ op' = [op EXCEPT ![p] = "user"]
        /\ UNCHANGED <<pid, parent, kstack, ctx>>
    BY Zenon DEF ForkRun
  <2>2. QED BY Zenon, <1>e, <2>1, ForkLeave
<1>8. TickInv'
  <2>1. SameSleep
    BY Zenon, SlotTypes DEF ForkRun, SameSleep
  <2>2. UNCHANGED <<ticks0, proc, irq, tlock, ticks>>
    BY Zenon DEF ForkRun
  <2>3. QED BY Zenon, <2>1, <2>2, TickFrame, HasTickInv
<1>9. UNCHANGED <<ctx, proc, irq, lock, tlock>>
  BY Zenon DEF ForkRun
<1>10. QED BY Zenon, <1>1, <1>2, <1>3, <1>4, <1>5, <1>6, <1>7, <1>8, <1>9,
  Frames, Parts, Whole

\* fork() gives the slot back without the lock: it is an EMBRYO nobody
\* else touches.
LEMMA ForkFailInv ==
  ASSUME IInv, NEW c \in CPU, NEW p \in Slot, ForkFail(c, p)
  PROVE  IInv'
<1> USE DEF table, thread, cpu, clock
<1>0. /\ state \in [Slot -> States]
      /\ op \in [Slot -> Ops]
      /\ np \in [Slot -> Slot \cup {NULL}]
  BY Zenon, HasTypeOK DEF TypeOK, TableOK, ThreadOK
<1>e. /\ np[p] \in Slot /\ state[np[p]] = "EMBRYO" /\ op[p] = "fork1"
      /\ state'[np[p]] = "UNUSED" /\ \A q \in Slot : q # np[p] => state'[q] = state[q]
  <2>1. op[p] = "fork1" /\ state' = [state EXCEPT ![np[p]] = "UNUSED"]
    BY Zenon DEF ForkFail
  <2>2. np[p] \in Slot /\ state[np[p]] = "EMBRYO"
    BY Zenon, <2>1, ForkOwns
  <2>3. QED BY Zenon, <1>0, <2>1, <2>2
<1>1. TypeOK'
  BY Zenon, TypeFrames, HasTypeOK, <1>e DEF ForkFail, TypeOK, Ops, States, TableOK,
    ThreadOK
<1>2. OneCPU' /\ CPUInv'
  <2>1. UNCHANGED <<proc, lock, irq, ctx>>
    BY Zenon DEF ForkFail
  <2>2. \A d \in CPU : proc[d] # np[p]
    BY Zenon, <1>e, SlotFacts, HasCPUInv DEF CPUInv
  <2>3. proc \in [CPU -> Slot \cup {NULL}]
    BY Zenon, HasTypeOK DEF TypeOK, CPUOK
  <2>4. QED BY Zenon, <1>e, <2>1, <2>2, <2>3, OffCPU, HasOneCPU, HasCPUInv
<1>3. StackInUse'
  BY HasStackInUse, HasForkInv DEF ForkFail, StackInUse, ForkInv
<1>4. NoLostTick' /\ NoLostChild' /\ KilledNotInWait'
  <2>1. NoNewSleeper
    BY Zenon, <1>e DEF ForkFail, NoNewSleeper
  <2>2. UNCHANGED <<parent, ticks0, ticks>>
    BY Zenon DEF ForkFail
  <2>3. irq[BootCPU] = "wake" => irq'[BootCPU] = "wake"
    BY Zenon DEF ForkFail
  <2>4. QED BY Zenon, <2>1, <2>2, <2>3, SleepFrame, HasNoLostTick,
    HasNoLostChild, HasKilledNotInWait
<1>5. FamilyTree' /\ InitInv'
  BY HasFamilyTree, HasForkInv, HasInitInv DEF ForkFail, FamilyTree, ForkInv,
    InitInv
<1>6. CtxInv'
  BY HasCtxInv, HasForkInv DEF ForkFail, CtxInv, ForkInv
<1>7. ForkInv'
  <2>1. /\ np' = [np EXCEPT ![p] = NULL] /\ op' = [op EXCEPT ![p] = "user"]
        /\ UNCHANGED <<pid, parent, kstack, ctx>>
    BY Zenon DEF ForkFail
  <2>2. QED BY Zenon, <1>e, <2>1, ForkLeave
<1>8. TickInv'
  <2>1. SameSleep
    BY Zenon, SlotTypes DEF ForkFail, SameSleep
  <2>2. UNCHANGED <<ticks0, proc, irq, tlock, ticks>>
    BY Zenon DEF ForkFail
  <2>3. QED BY Zenon, <2>1, <2>2, TickFrame, HasTickInv
<1>9. UNCHANGED <<ctx, proc, irq, lock, tlock>>
  BY Zenon DEF ForkFail
<1>10. QED BY Zenon, <1>1, <1>2, <1>3, <1>4, <1>5, <1>6, <1>7, <1>8, <1>9,
  Frames, Parts, Whole

\* allocproc() finds no slot.
LEMMA ForkFullInv ==
  ASSUME IInv, NEW c \in CPU, NEW p \in Slot, ForkFull(c, p)
  PROVE  IInv'
<1> USE DEF table, thread, cpu, clock
<1>1. TypeOK'
  BY Zenon, TypeFrames, HasTypeOK DEF ForkFull, TypeOK, Ops, ThreadOK
<1>2. StackInUse'
  <2>1. SameStack
    BY Zenon, SlotTypes DEF ForkFull, SameStack
  <2>2. UNCHANGED <<kstack, np, proc>>
    BY Zenon DEF ForkFull
  <2>3. QED BY Zenon, <2>1, <2>2, StackFrame, HasStackInUse
<1>3. CtxInv'
  BY HasCtxInv DEF ForkFull, CtxInv
<1>4. ForkInv'
  <2>1. SameFork
    BY Zenon, SlotTypes DEF ForkFull, SameFork
  <2>2. UNCHANGED <<pid, parent, kstack, np>>
    BY Zenon DEF ForkFull
  <2>3. QED BY Zenon, <2>1, <2>2, SlotTypes, ForkFrame, HasForkInv
<1>5. TickInv'
  <2>1. SameSleep
    BY Zenon, SlotTypes DEF ForkFull, SameSleep
  <2>2. UNCHANGED <<ticks0, proc, irq, tlock, ticks>>
    BY Zenon DEF ForkFull
  <2>3. QED BY Zenon, <2>1, <2>2, TickFrame, HasTickInv
<1>6. InitInv'
  BY HasInitInv DEF ForkFull, InitInv
<1>7. UNCHANGED <<state, pid, parent, killed, chan, ctx, ticks0, proc, irq,
                  lock, tlock, ticks>>
  BY Zenon DEF ForkFull
<1>8. QED BY Zenon, <1>1, <1>2, <1>3, <1>4, <1>5, <1>6, <1>7, Frames, Parts,
  Whole
=============================================================================
