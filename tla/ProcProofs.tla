----------------------------- MODULE ProcProofs -----------------------------
(***************************************************************************)
(* The last part of the proof that IInv is preserved by every step (the    *)
(* steps of wait, kill and set_priority) and the theorems: the safety      *)
(* properties of Proc hold for every number of CPUs, slots, pids,          *)
(* priorities and ticks.                                                   *)
(***************************************************************************)
EXTENDS ProcCallProofs

\* wait() frees the first zombie child: no CPU executes it and nobody
\* names it as a parent.
LEMMA WaitReapInv ==
  ASSUME IInv, NEW c \in CPU, NEW p \in Slot, WaitReap(c, p)
  PROVE  IInv'
<1> USE DEF table, thread, cpu, clock
<1>0. /\ state \in [Slot -> States] /\ pid \in [Slot -> Nat]
      /\ parent \in [Slot -> Slot \cup {NULL}] /\ kstack \in [Slot -> BOOLEAN]
      /\ killed \in [Slot -> BOOLEAN] /\ np \in [Slot -> Slot \cup {NULL}]
      /\ chan \in [Slot -> Slot \cup {NULL, Ticks}]
      /\ op \in [Slot -> Ops] /\ ctx \in [Slot -> Ctxs]
      /\ proc \in [CPU -> Slot \cup {NULL}] /\ nextpid \in Nat
  BY Zenon, HasTypeOK DEF TypeOK, TableOK, ThreadOK, CPUOK
<1>1. PICK q \in Slot :
       /\ q \in Zombies(p)
       /\ state' = [state EXCEPT ![q] = "UNUSED"]
       /\ pid' = [pid EXCEPT ![q] = 0]
       /\ parent' = [parent EXCEPT ![q] = NULL]
       /\ killed' = [killed EXCEPT ![q] = FALSE]
       /\ kstack' = [kstack EXCEPT ![q] = FALSE]
       /\ op' = [op EXCEPT ![p] = "user", ![q] = "user"]
       /\ ctx' = [ctx EXCEPT ![p] = "none", ![q] = "none"]
  BY Zenon DEF WaitReap, IsFirst
<1>2. state[q] = "ZOMBIE" /\ parent[q] = p
  BY Zenon, <1>1 DEF Zombies
<1>3. state[p] = "RUNNING" /\ proc[c] = p /\ op[p] = "wait" /\ irq[c] = "none"
      /\ lock \in {NoCPU, c}
  <2>1. /\ proc[c] = p /\ op[p] = "wait" /\ irq[c] = "none" /\ p # NULL
        /\ \/ ctx[p] = "none" /\ lock = NoCPU
           \/ ctx[p] # "none" /\ state[p] = "RUNNING"
    BY SlotFacts DEF WaitReap, WaitScan
  <2>2. state[p] = "RUNNING"
    <3>1. state[p] = "RUNNING" \/ lock = c
      BY Zenon, <2>1, HasOneCPU DEF OneCPU
    <3>2. QED BY Zenon, <2>1, <3>1, ProcAssumption
  <2>3. lock \in {NoCPU, c}
    BY Zenon, <2>1, HasSchedHolding DEF SchedHolding
  <2>4. QED BY Zenon, <2>1, <2>2, <2>3
<1>4. \A d \in CPU : proc[d] # q
  <2>1. ASSUME NEW d \in CPU, proc[d] = q  PROVE  FALSE
    <3>1. lock = d
      BY Zenon, <1>2, <2>1, SlotFacts, HasOneCPU DEF OneCPU
    <3>2. d = c
      BY Zenon, <1>3, <3>1, ProcAssumption
    <3>3. QED BY Zenon, <1>2, <1>3, <2>1, <3>2
  <2>2. QED BY Zenon, <2>1
<1>5. \A r \in Slot : parent[r] # q /\ np[r] # q
  <2>1. \A r \in Slot : parent[r] # NULL => state[parent[r]] # "ZOMBIE"
    BY Zenon, HasFamilyTree DEF FamilyTree
  <2>2. \A r \in Slot : np[r] # NULL => state[np[r]] = "EMBRYO"
    BY Zenon, HasForkInv DEF ForkInv
  <2>3. QED BY Zenon, SlotFacts, <1>2, <2>1, <2>2
<1>6. UNCHANGED <<priority, counter, nextpid, np, ticks0, proc, cursor, irq,
                  tlock, ticks>>
      /\ chan' = [chan EXCEPT ![p] = NULL] /\ lock' = NoCPU
  BY Zenon DEF WaitReap
<1>7. TypeOK'
  BY Zenon, <1>1, <1>6, HasTypeOK DEF TypeOK, TableOK, ThreadOK, CPUOK,
    States, Ops, Ctxs
<1>8. StackInUse'
  <2>1. \A d \in CPU : proc'[d] # NULL => kstack'[proc'[d]]
    BY Zenon, <1>0, <1>1, <1>4, <1>6, HasStackInUse DEF StackInUse
  <2>2. ASSUME NEW r \in Slot PROVE
          kstack'[r] <=> \/ state'[r] \notin {"UNUSED", "EMBRYO"}
                         \/ \E x \in Slot : np'[x] = r /\ op'[x] = "fork2"
    <3>1. \A x \in Slot : np'[x] = r /\ op'[x] = "fork2"
                          <=> np[x] = r /\ op[x] = "fork2"
      <4>1. op[q] # "fork2"
        BY Zenon, <1>2, HasCtxInv DEF CtxInv
      <4>2. QED BY Zenon, <1>0, <1>1, <1>3, <1>6, <4>1
    <3>2. CASE r = q
      BY Zenon, <1>0, <3>1, <3>2, <1>1, <1>5
    <3>3. CASE r # q
      <4>1. kstack'[r] = kstack[r] /\ state'[r] = state[r]
        BY Zenon, <1>0, <1>1, <3>3
      <4>2. kstack[r] <=> \/ state[r] \notin {"UNUSED", "EMBRYO"}
                          \/ \E x \in Slot : np[x] = r /\ op[x] = "fork2"
        BY Zenon, HasStackInUse DEF StackInUse
      <4>3. QED BY Zenon, <3>1, <4>1, <4>2
    <3>4. QED BY Zenon, <3>2, <3>3
  <2>3. QED BY Zenon, <2>1, <2>2 DEF StackInUse
<1>9. FamilyTree'
  BY <1>0, <1>1, <1>5, SlotFacts, HasFamilyTree DEF FamilyTree
<1>10. ForkInv'
  <2>1. op[q] \notin {"fork1", "fork2"}
    BY Zenon, <1>2, HasCtxInv DEF CtxInv
  <2>2. QED BY <1>0, <1>1, <1>3, <1>5, <1>6, <2>1, HasForkInv DEF ForkInv
<1>11. TickInv'
  <2>1. op[q] = "exit"
    BY Zenon, <1>2, HasCtxInv DEF CtxInv
  <2>2. SameSleep
    BY Zenon, <1>0, <1>1, <1>3, <2>1 DEF SameSleep
  <2>3. QED BY Zenon, <1>6, <2>2, TickFrame, HasTickInv
<1>12. OneCPU'
  <2>1. \A r \in Slot : r # q => state'[r] = state[r]
    BY Zenon, <1>0, <1>1
  <2>2. ASSUME NEW d \in CPU, proc[d] # NULL  PROVE  state[proc[d]] = "RUNNING"
    <3>1. state[proc[d]] = "RUNNING" \/ lock = d
      BY Zenon, <2>2, HasOneCPU DEF OneCPU
    <3>2. lock = d => d = c
      BY Zenon, <1>3, ProcAssumption
    <3>3. QED BY Zenon, <1>3, <3>1, <3>2
  <2>3. QED BY <1>0, <1>1, <1>4, <1>6, <2>1, <2>2, HasOneCPU DEF OneCPU
<1>13. SchedHolding'
  <2>1. ASSUME NEW d \in CPU, d # c, proc[d] # NULL
        PROVE  ctx[proc[d]] = "none" /\ proc[d] # p
    <3>1. lock # d
      BY Zenon, <1>3, <2>1, ProcAssumption
    <3>2. ctx[proc[d]] = "none"
      BY Zenon, <2>1, <3>1, HasSchedHolding DEF SchedHolding
    <3>3. proc[d] # proc[c]
      BY Zenon, <2>1, HasOneCPU DEF OneCPU
    <3>4. QED BY Zenon, <1>3, <3>2, <3>3
  <2>2. QED BY <1>0, <1>1, <1>3, <1>4, <1>6, <2>1 DEF SchedHolding
<1>14. CPUInv'
  BY <1>0, <1>1, <1>4, <1>6, ProcAssumption, HasCPUInv DEF CPUInv
<1>15. CtxInv'
  BY <1>0, <1>1, <1>2, <1>3, <1>6, HasCtxInv DEF CtxInv
<1>n. \A r \in Slot : state'[r] = "SLEEPING" =>
        r # q /\ r # p /\ state[r] = "SLEEPING" /\ chan'[r] = chan[r]
                      /\ killed'[r] = killed[r]
  BY Zenon, <1>0, <1>1, <1>3, <1>6
<1>16. NoLostTick'
  BY Zenon, <1>n, <1>6, HasNoLostTick DEF NoLostTick, Elapsed
<1>17. NoLostChild' /\ KilledNotInWait'
  <2>1. KilledNotInWait'
    BY Zenon, <1>n, HasKilledNotInWait DEF KilledNotInWait
  <2>2. \A r \in Slot : r # p => Kids(r)' = Kids(r) /\ Zombies(r)' \subseteq Zombies(r)
    BY <1>0, <1>1, <1>2, SlotFacts DEF Kids, Zombies
  <2>3. ASSUME NEW r \in Slot, state'[r] = "SLEEPING", chan'[r] = r
        PROVE  Kids(r)' # {} /\ Zombies(r)' = {}
    <3>1. Kids(r) # {} /\ Zombies(r) = {} /\ r # p
      BY Zenon, <1>n, <2>3, HasNoLostChild DEF NoLostChild
    <3>2. QED BY Zenon, <2>2, <3>1
  <2>4. QED BY Zenon, <2>1, <2>3 DEF NoLostChild
<1>18. InitInv'
  BY <1>0, <1>1, <1>2, <1>3, <1>6, SlotFacts, HasInitInv DEF InitInv
<1>19. QED BY Zenon, <1>7, <1>8, <1>9, <1>10, <1>11, <1>12, <1>13, <1>14,
    <1>15, <1>16, <1>17, <1>18, Whole

\* wait() returns -1.
LEMMA WaitFailInv ==
  ASSUME IInv, NEW c \in CPU, NEW p \in Slot, WaitFail(c, p)
  PROVE  IInv'
<1> USE DEF table, thread, cpu, clock
<1>0. /\ chan \in [Slot -> Slot \cup {NULL, Ticks}]
      /\ op \in [Slot -> Ops]
      /\ ctx \in [Slot -> Ctxs]
  BY Zenon, HasTypeOK DEF TypeOK, TableOK, ThreadOK
<1>1. TypeOK'
  BY Zenon, HasTypeOK DEF WaitFail, TypeOK, Ops, Ctxs, TableOK, ThreadOK, CPUOK
<1>2. OneCPU' /\ CPUInv'
  BY SlotFacts, ProcAssumption, HasOneCPU, HasSchedHolding, HasCPUInv DEF
    WaitFail, WaitScan, OneCPU, SchedHolding, CPUInv
<1>3. StackInUse'
  <2>1. SameStack
    BY Zenon, SlotTypes DEF WaitFail, SameStack, WaitScan
  <2>2. UNCHANGED <<kstack, np, proc>>
    BY Zenon DEF WaitFail
  <2>3. QED BY Zenon, <2>1, <2>2, StackFrame, HasStackInUse
<1>4. SchedHolding'
  BY <1>0, SlotFacts, HasSchedHolding DEF WaitFail, WaitScan, SchedHolding
<1>5. NoLostTick' /\ NoLostChild' /\ KilledNotInWait'
  <2>1. NoNewSleeper
    BY Zenon, SlotTypes, HasCtxInv DEF WaitFail, NoNewSleeper, CtxInv,
      WaitScan
  <2>2. UNCHANGED <<parent, ticks0, ticks>>
    BY Zenon DEF WaitFail
  <2>3. irq[BootCPU] = "wake" => irq'[BootCPU] = "wake"
    BY Zenon DEF WaitFail
  <2>4. QED BY Zenon, <2>1, <2>2, <2>3, SleepFrame, HasNoLostTick,
    HasNoLostChild, HasKilledNotInWait
<1>6. CtxInv'
  BY <1>0, HasCtxInv DEF WaitFail, WaitScan, CtxInv
<1>7. ForkInv'
  <2>1. SameFork
    BY Zenon, SlotTypes DEF WaitFail, SameFork, WaitScan
  <2>2. UNCHANGED <<pid, parent, kstack, np>>
    BY Zenon DEF WaitFail
  <2>3. QED BY Zenon, <2>1, <2>2, SlotTypes, ForkFrame, HasForkInv
<1>8. TickInv'
  <2>1. SameSleep
    BY Zenon, SlotTypes DEF WaitFail, SameSleep, WaitScan
  <2>2. UNCHANGED <<ticks0, proc, irq, tlock, ticks>>
    BY Zenon DEF WaitFail
  <2>3. QED BY Zenon, <2>1, <2>2, TickFrame, HasTickInv
<1>9. InitInv'
  BY <1>0, SlotFacts, HasInitInv DEF WaitFail, InitInv
<1>10. UNCHANGED <<state, pid, parent>>
  BY Zenon DEF WaitFail
<1>11. QED BY Zenon, <1>1, <1>2, <1>3, <1>4, <1>5, <1>6, <1>7, <1>8, <1>9,
  <1>10, Frames, Parts, Whole

-----------------------------------------------------------------------------
(* The sleep of wait, kill and set_priority; the theorems. *)

\* wait() goes to sleep on its own slot.
LEMMA WaitSleepInv ==
  ASSUME IInv, NEW c \in CPU, NEW p \in Slot, WaitSleep(c, p)
  PROVE  IInv'
<1> USE DEF table, thread, cpu, clock
<1>0. /\ state \in [Slot -> States]
      /\ chan \in [Slot -> Slot \cup {NULL, Ticks}]
      /\ ctx \in [Slot -> Ctxs]
  BY Zenon, HasTypeOK DEF TypeOK, TableOK, ThreadOK
<1>1. TypeOK'
  BY Zenon, HasTypeOK DEF WaitSleep, TypeOK, Ctxs, States, TableOK, ThreadOK,
    CPUOK
<1>2. OneCPU' /\ CPUInv'
  BY ProcAssumption, SlotFacts, <1>0, HasOneCPU, HasSchedHolding, HasCPUInv DEF
    WaitSleep, WaitScan, OneCPU, SchedHolding, CPUInv
<1>3. StackInUse'
  <2>1. SameStack
    BY Zenon, SlotTypes, HasCtxInv DEF WaitSleep, SameStack, CtxInv, WaitScan
  <2>2. UNCHANGED <<kstack, np, proc>>
    BY Zenon DEF WaitSleep
  <2>3. QED BY Zenon, <2>1, <2>2, StackFrame, HasStackInUse
<1>4. SchedHolding'
  BY ProcAssumption, SlotFacts, HasOneCPU, HasSchedHolding, HasTickInv DEF
    WaitSleep, WaitScan, OneCPU, SchedHolding, TickInv
<1>5. NoLostTick' /\ NoLostChild' /\ KilledNotInWait'
  BY <1>0, SlotFacts, HasNoLostTick, HasNoLostChild, HasKilledNotInWait DEF
    WaitSleep, NoLostTick, Elapsed, Zombies, Kids, NoLostChild, KilledNotInWait
<1>6. FamilyTree' /\ InitInv'
  <2>1. SameTree
    BY Zenon, SlotTypes, HasCtxInv DEF WaitSleep, SameTree, Live, CtxInv,
      States, WaitScan
  <2>2. UNCHANGED <<pid, parent, nextpid, op>>
    BY Zenon DEF WaitSleep
  <2>3. QED BY Zenon, <2>1, <2>2, SlotTypes, TreeFrame, InitFrame, HasFamilyTree,
    HasInitInv
<1>7. CtxInv'
  BY <1>0, HasCtxInv DEF WaitSleep, WaitScan, CtxInv
<1>8. ForkInv'
  <2>1. SameFork
    BY Zenon, SlotTypes, HasCtxInv DEF WaitSleep, SameFork, CtxInv, WaitScan
  <2>2. UNCHANGED <<pid, parent, kstack, np>>
    BY Zenon DEF WaitSleep
  <2>3. QED BY Zenon, <2>1, <2>2, SlotTypes, ForkFrame, HasForkInv
<1>9. TickInv'
  <2>1. SameSleep
    BY Zenon, SlotTypes DEF WaitSleep, SameSleep, WaitScan
  <2>2. UNCHANGED <<ticks0, proc, irq, tlock, ticks>>
    BY Zenon DEF WaitSleep
  <2>3. QED BY Zenon, <2>1, <2>2, TickFrame, HasTickInv
<1>10. QED BY Zenon, <1>1, <1>2, <1>3, <1>4, <1>5, <1>6, <1>7, <1>8, <1>9, Whole

\* kill() marks a process and wakes it.
LEMMA KillInv ==
  ASSUME IInv, NEW c \in CPU, NEW p \in Slot, Kill(c, p)
  PROVE  IInv'
<1> USE DEF table, thread, cpu, clock
<1>0. /\ state \in [Slot -> States]
      /\ parent \in [Slot -> Slot \cup {NULL}]
      /\ killed \in [Slot -> BOOLEAN]
      /\ op \in [Slot -> Ops]
      /\ np \in [Slot -> Slot \cup {NULL}]
      /\ proc \in [CPU -> Slot \cup {NULL}]
  BY Zenon, HasTypeOK DEF TypeOK, TableOK, ThreadOK, CPUOK
<1>1. TypeOK'
  <2>1. state' \in [Slot -> States] /\ killed' \in [Slot -> BOOLEAN]
    BY <1>0, Zenon DEF Kill, KillWake, IsFirst, States
  <2>2. op' \in [Slot -> Ops]
    BY Zenon, <1>0 DEF Kill, Ops
  <2>3. QED BY Zenon, <2>1, <2>2, TypeFrames, HasTypeOK DEF Kill, TypeOK,
    TableOK, ThreadOK
<1>2. OneCPU' /\ CPUInv'
  BY <1>0, HasOneCPU, HasCPUInv DEF Kill, KillWake, IsFirst, OneCPU, CPUInv
<1>3. StackInUse'
  <2>1. SameStack
    BY Zenon, SlotTypes DEF Kill, SameStack, KillWake, IsFirst
  <2>2. UNCHANGED <<kstack, np, proc>>
    BY Zenon DEF Kill
  <2>3. QED BY Zenon, <2>1, <2>2, StackFrame, HasStackInUse
<1>4. NoLostTick' /\ NoLostChild' /\ KilledNotInWait'
  <2>1. NoNewSleeper
    BY Zenon, SlotTypes DEF Kill, NoNewSleeper, KillWake, IsFirst
  <2>2. UNCHANGED <<parent, ticks0, ticks>>
    BY Zenon DEF Kill
  <2>3. irq[BootCPU] = "wake" => irq'[BootCPU] = "wake"
    BY Zenon DEF Kill
  <2>4. QED BY Zenon, <2>1, <2>2, <2>3, SleepFrame, HasNoLostTick,
    HasNoLostChild, HasKilledNotInWait
<1>5. FamilyTree'
  <2>1. SameTree
    BY Zenon, SlotTypes DEF Kill, SameTree, Live, KillWake, IsFirst
  <2>2. UNCHANGED <<pid, parent>>
    BY Zenon DEF Kill
  <2>3. QED BY Zenon, <2>1, <2>2, SlotTypes, TreeFrame, HasFamilyTree
<1>6. CtxInv'
  BY <1>0, HasCtxInv DEF Kill, KillWake, IsFirst, CtxInv
<1>7. ForkInv'
  <2>1. SameFork
    BY Zenon, SlotTypes DEF Kill, SameFork, KillWake, IsFirst
  <2>2. UNCHANGED <<pid, parent, kstack, np>>
    BY Zenon DEF Kill
  <2>3. QED BY Zenon, <2>1, <2>2, SlotTypes, ForkFrame, HasForkInv
<1>8. TickInv'
  <2>1. SameSleep
    BY Zenon, SlotTypes DEF Kill, SameSleep
  <2>2. UNCHANGED <<ticks0, proc, irq, tlock, ticks>>
    BY Zenon DEF Kill
  <2>3. QED BY Zenon, <2>1, <2>2, TickFrame, HasTickInv
<1>9. InitInv'
  BY ZenonT(30), <1>0, SlotFacts, HasInitInv DEF Kill, KillWake, IsFirst, InitInv
<1>10. UNCHANGED <<ctx, proc, irq, lock, tlock>>
  BY Zenon DEF Kill
<1>11. QED BY Zenon, <1>1, <1>2, <1>3, <1>4, <1>5, <1>6, <1>7, <1>8, <1>9,
  <1>10, Frames, Parts, Whole

\* set_priority() changes one priority, within its range.
LEMMA SetPriorityInv ==
  ASSUME IInv, NEW c \in CPU, NEW p \in Slot, SetPriority(c, p)
  PROVE  IInv'
<1> USE DEF table, thread, cpu, clock
<1>0. /\ op \in [Slot -> Ops]
      /\ priority \in [Slot -> 1..MaxPri]
  BY Zenon, HasTypeOK DEF TypeOK, ThreadOK, TableOK
<1>1. TypeOK'
  <2>1. priority' \in [Slot -> 1..MaxPri]
    BY Zenon, <1>0 DEF SetPriority, IsFirst
  <2>2. op' \in [Slot -> Ops]
    BY Zenon, <1>0 DEF SetPriority, Ops
  <2>3. QED BY Zenon, <2>1, <2>2, TypeFrames, HasTypeOK DEF SetPriority, TypeOK,
    TableOK, ThreadOK
<1>2. StackInUse'
  <2>1. SameStack
    BY Zenon, SlotTypes DEF SetPriority, SameStack
  <2>2. UNCHANGED <<kstack, np, proc>>
    BY Zenon DEF SetPriority
  <2>3. QED BY Zenon, <2>1, <2>2, StackFrame, HasStackInUse
<1>3. CtxInv'
  BY ZenonT(30), <1>0, HasCtxInv DEF SetPriority, CtxInv
<1>4. ForkInv'
  <2>1. SameFork
    BY Zenon, SlotTypes DEF SetPriority, SameFork
  <2>2. UNCHANGED <<pid, parent, kstack, np>>
    BY Zenon DEF SetPriority
  <2>3. QED BY Zenon, <2>1, <2>2, SlotTypes, ForkFrame, HasForkInv
<1>5. TickInv'
  <2>1. SameSleep
    BY Zenon, SlotTypes DEF SetPriority, SameSleep
  <2>2. UNCHANGED <<ticks0, proc, irq, tlock, ticks>>
    BY Zenon DEF SetPriority
  <2>3. QED BY Zenon, <2>1, <2>2, TickFrame, HasTickInv
<1>6. InitInv'
  BY HasInitInv DEF SetPriority, InitInv
<1>7. UNCHANGED <<state, pid, parent, killed, chan, ctx, ticks0, proc, irq,
                  lock, tlock, ticks>>
  BY Zenon DEF SetPriority
<1>8. QED BY Zenon, <1>1, <1>2, <1>3, <1>4, <1>5, <1>6, <1>7, Frames, Parts,
  Whole

-----------------------------------------------------------------------------

\* The state userinit leaves satisfies the invariant.
LEMMA InitIInv == Init => IInv
<1> SUFFICES ASSUME Init PROVE IInv
  OBVIOUS
<1> USE ProcAssumption, NPROCAssumption, SlotFacts DEF Init
<1>1. TypeOK
  <2>1. counter \in [Slot -> IF AgeLimit = 0 THEN {0} ELSE 0..AgeLimit-1]
    OBVIOUS
  <2>2. QED BY <2>1 DEF TypeOK, TableOK, ThreadOK, CPUOK, States, Ops, Ctxs
<1>2. OneCPU /\ StackInUse /\ SchedHolding
  BY Zenon DEF OneCPU, StackInUse, SchedHolding
<1>3. NoLostTick /\ NoLostChild /\ KilledNotInWait /\ FamilyTree
  BY Zenon DEF NoLostTick, NoLostChild, KilledNotInWait, FamilyTree, NULL,
    initproc
<1>4. CtxInv /\ CPUInv /\ ForkInv
  BY Zenon DEF CtxInv, CPUInv, ForkInv
<1>5. TickInv /\ InitInv
  BY DEF TickInv, InitInv
<1>6. QED BY Zenon, <1>1, <1>2, <1>3, <1>4, <1>5 DEF IInv

\* Every step of Proc preserves the invariant.
LEMMA NextIInv == IInv /\ [Next]_vars => IInv'
<1> SUFFICES ASSUME IInv, [Next]_vars PROVE IInv'
  OBVIOUS
<1>1. ASSUME NEW c \in CPU, Sched(c) \/ Timer(c) \/ Trap(c)
      PROVE  IInv'
  BY Zenon, <1>1, SchedEnterInv, SchedDispatchInv, SchedReleaseInv, TimerInv,
     TimerTickInv, TimerWakeInv, TimerReturnInv DEF Sched, Trap
<1>2. ASSUME NEW c \in CPU, NEW p \in Slot, Syscall(c, p) \/ Switch(c, p)
      PROVE  IInv'
  BY Zenon, <1>2, SyscallInv, SwtchInv, ResumeInv, YieldInv DEF Switch
<1>3. ASSUME NEW c \in CPU, NEW p \in Slot, Call(c, p)
      PROVE  IInv'
  <2>1. CASE Fork(c, p)
    BY Zenon, <2>1, ForkAllocInv, ForkFullInv, ForkFailInv, ForkInitInv,
      ForkRunInv
    DEF Fork
  <2>2. CASE Wait(c, p)
    BY Zenon, <2>2, WaitReapInv, WaitFailInv, WaitSleepInv DEF Wait
  <2>3. CASE Sleeping(c, p)
    BY Zenon, <2>3, SysSleepInv, SysSleepTestInv, SleepInv, SleepWokenInv,
       SleepRelockInv DEF Sleeping
  <2>4. CASE Exit(c, p) \/ Kill(c, p) \/ SetPriority(c, p)
    BY Zenon, <2>4, ExitInv, KillInv, SetPriorityInv
  <2>5. QED BY Zenon, <1>3, <2>1, <2>2, <2>3, <2>4 DEF Call
<1>4. CASE UNCHANGED vars
  BY Zenon, <1>4, TypeFrames, Frames
  DEF vars, table, thread, cpu, clock, IInv, TypeOK
<1>5. QED BY Zenon, <1>1, <1>2, <1>3, <1>4 DEF Next

\* The inductive invariant holds in every reachable state of the process
\* table.
THEOREM IInvHolds == Spec => []IInv
<1>1. QED BY InitIInv, NextIInv, PTL DEF Spec

\* Every variable keeps its type; in particular priorities stay in their
\* range whatever set_priority and aging do.
THEOREM TypeCorrect == Spec => []TypeOK
<1>1. IInv => TypeOK
  BY Zenon DEF IInv
<1>2. QED BY <1>1, IInvHolds, PTL

\* No process executes on two CPUs, and RUNNING means executing: scheduler(),
\* sched(), yield(), sleep() and exit() keep p->state and c->proc together.
THEOREM OneCPUHolds == Spec => []OneCPU
<1>1. IInv => OneCPU
  BY Zenon DEF IInv
<1>2. QED BY <1>1, IInvHolds, PTL

\* wait() never frees a kernel stack that a CPU executes on, and whatever the
\* scheduler may dispatch has one.
THEOREM StackInUseHolds == Spec => []StackInUse
<1>1. IInv => StackInUse
  BY Zenon DEF IInv
<1>2. QED BY <1>1, IInvHolds, PTL

\* The panics of sched() never happen.
THEOREM SchedHoldingHolds == Spec => []SchedHolding
<1>1. IInv => SchedHolding
  BY Zenon DEF IInv
<1>2. QED BY <1>1, IInvHolds, PTL

\* No wakeup is lost: neither the one of the timer trap for sys_sleep(), nor
\* the one of exit() for wait(), nor the one of kill() for wait().
THEOREM NoLostWakeupHolds == Spec => []NoLostWakeup
<1>1. IInv => NoLostWakeup
  BY Zenon DEF IInv, NoLostWakeup
<1>2. QED BY <1>1, IInvHolds, PTL

\* fork(), exit() and wait() keep the tree of processes: everyone has a live
\* parent, older than itself, and a pid of its own.
THEOREM FamilyTreeHolds == Spec => []FamilyTree
<1>1. IInv => FamilyTree
  BY Zenon DEF IInv
<1>2. QED BY <1>1, IInvHolds, PTL

\* Only the scheduler starts a process on an idle CPU, and it picks one of
\* the highest priority.
THEOREM NoInversionHolds == Spec => NoInversion
<1> DEFINE Started(c) == proc[c] = NULL /\ proc'[c] # NULL =>
             \A r \in Runnable(state) : priority[r] <= priority[proc'[c]]
<1>1. ASSUME IInv, [Next]_vars, NEW c \in CPU
      PROVE  Started(c)
  <2>1. ASSUME NEW d \in CPU, SchedDispatch(d)
        PROVE  Started(c)
    <3>1. PICK f \in Slot, q \in Slot : /\ IsHighest(f, state, priority, q)
                                        /\ proc' = [proc EXCEPT ![d] = q]
      BY <2>1, Zenon DEF SchedDispatch
    <3>2. proc \in [CPU -> Slot \cup {NULL}] /\ priority \in [Slot -> 1..MaxPri]
      BY Zenon, <1>1 DEF IInv, TypeOK, TableOK, CPUOK
    <3>3. \A r \in Runnable(state) : priority[r] <= priority[q]
      BY <3>1, <3>2 DEF IsHighest, Runnable
    <3>4. proc[c] = NULL /\ proc'[c] # NULL => proc'[c] = q
      BY Zenon, <3>1, <3>2
    <3>5. QED BY Zenon, <3>3, <3>4
  <2>2. ASSUME NEW d \in CPU, NEW p \in Slot, Swtch(d, p)
        PROVE  Started(c)
    BY Zenon, <1>1, <2>2 DEF Swtch, IInv, TypeOK, CPUOK
  <2>3. CASE UNCHANGED proc
    BY Zenon, <2>3
  <2>4. UNCHANGED proc \/ (\E d \in CPU : SchedDispatch(d))
          \/ (\E d \in CPU, p \in Slot : Swtch(d, p))
    <3>1. CASE UNCHANGED vars
      BY Zenon, <3>1 DEF vars, cpu
    <3>2. ASSUME NEW d \in CPU, SchedEnter(d) \/ SchedRelease(d)
                   \/ Timer(d) \/ Trap(d)
          PROVE  UNCHANGED proc
      BY Zenon, <3>2 DEF SchedEnter, SchedRelease, Timer, Trap, TimerTick,
        TimerWake, TimerReturn
    <3>3. ASSUME NEW d \in CPU, NEW p \in Slot, Syscall(d, p)
                   \/ Call(d, p) \/ Resume(d, p) \/ Yield(d, p)
          PROVE  UNCHANGED proc
      BY <3>3, Zenon DEF cpu, Syscall, Call, Resume, Yield, Fork, ForkAlloc,
        ForkFull, ForkFail, ForkInit, ForkRun, Exit, Wait, WaitReap,
        WaitFail, WaitSleep, Kill, SetPriority, Sleeping, SysSleep,
        SysSleepTest, Sleep, SleepWoken, SleepRelock
    <3>4. QED BY Zenon, <1>1, <3>1, <3>2, <3>3 DEF Next, Sched, Switch
  <2>5. QED BY Zenon, <2>1, <2>2, <2>3, <2>4
<1>2. IInv /\ [Next]_vars =>
        [\A c \in CPU : proc[c] = NULL /\ proc'[c] # NULL =>
           \A r \in Runnable(state) : priority[r] <= priority[proc'[c]]]_vars
  BY Zenon, <1>1
<1>3. QED BY <1>2, IInvHolds, PTL DEF Spec, NoInversion
=============================================================================
