--------------------------- MODULE ProcSchedProofs --------------------------
(***************************************************************************)
(* The first part of the proof that IInv, the inductive invariant of Proc, *)
(* is preserved by every step: frame lemmas for the conjuncts whose        *)
(* variables an action leaves alone, and the steps of the scheduler, exit, *)
(* the timer trap, yield and the entry to system calls.  One lemma per     *)
(* action, one step per conjunct the action can disturb.                   *)
(***************************************************************************)
EXTENDS ProcInv, TLAPS

\* Slots are not NULL, and neither NULL nor a slot is the channel &ticks.
LEMMA SlotFacts ==
  NULL \notin Slot /\ Ticks \notin Slot /\ Ticks # NULL /\ initproc \in Slot
  BY NPROCAssumption DEF NULL, Ticks, initproc, Slot

\* The invariant gives its conjuncts.
LEMMA Parts ==
  IInv => /\ TypeOK /\ OneCPU /\ StackInUse /\ SchedHolding
          /\ NoLostTick /\ NoLostChild /\ KilledNotInWait /\ FamilyTree
          /\ CtxInv /\ CPUInv /\ ForkInv /\ TickInv /\ InitInv
  BY Zenon DEF IInv
\* Every variable has its type.
LEMMA HasTypeOK == IInv => TypeOK
  BY Zenon, Parts
\* A process is RUNNING if and only if one CPU executes it.
LEMMA HasOneCPU == IInv => OneCPU
  BY Zenon, Parts
\* What runs, or may be dispatched, has a kernel stack.
LEMMA HasStackInUse == IInv => StackInUse
  BY Zenon, Parts
\* sched() is entered as its panics demand.
LEMMA HasSchedHolding == IInv => SchedHolding
  BY Zenon, Parts
\* No wakeup of sys_sleep() is lost.
LEMMA HasNoLostTick == IInv => NoLostTick
  BY Zenon, Parts
\* No wakeup of wait() by exit() is lost.
LEMMA HasNoLostChild == IInv => NoLostChild
  BY Zenon, Parts
\* No wakeup of wait() by kill() is lost.
LEMMA HasKilledNotInWait == IInv => KilledNotInWait
  BY Zenon, Parts
\* Everyone has a live parent and a pid of its own.
LEMMA HasFamilyTree == IInv => FamilyTree
  BY Zenon, Parts
\* Where a process switched away, by its state.
LEMMA HasCtxInv == IInv => CtxInv
  BY Zenon, Parts
\* What a CPU does with the lock, by what it runs.
LEMMA HasCPUInv == IInv => CPUInv
  BY Zenon, Parts
\* The EMBRYO belongs to one fork().
LEMMA HasForkInv == IInv => ForkInv
  BY Zenon, Parts
\* Who holds tickslock, and the time sys_sleep() noted.
LEMMA HasTickInv == IInv => TickInv
  BY Zenon, Parts
\* initproc stays, and pids are below nextpid.
LEMMA HasInitInv == IInv => InitInv
  BY Zenon, Parts
\* The conjuncts after a step make up the invariant after it.
LEMMA Whole ==
  ASSUME TypeOK', OneCPU', StackInUse', SchedHolding',
         NoLostTick', NoLostChild', KilledNotInWait', FamilyTree',
         CtxInv', CPUInv', ForkInv', TickInv', InitInv'
  PROVE  IInv'
  BY Zenon DEF IInv

\* The types hold on while the variables do not change.
LEMMA TypeFrames ==
  /\ TableOK /\ UNCHANGED table => TableOK'
  /\ ThreadOK /\ UNCHANGED thread => ThreadOK'
  /\ CPUOK /\ UNCHANGED <<cpu, lock, clock>> => CPUOK'
<1>1. TableOK /\ UNCHANGED table => TableOK'
  BY Zenon DEF TableOK, table
<1>2. ThreadOK /\ UNCHANGED thread => ThreadOK'
  BY Zenon DEF ThreadOK, thread
<1>3. CPUOK /\ UNCHANGED <<cpu, lock, clock>> => CPUOK'
  BY Zenon DEF CPUOK, cpu, clock
<1>4. QED BY Zenon, <1>1, <1>2, <1>3

\* The other conjuncts of the invariant hold on while the variables they read
\* do not change.
LEMMA Frames ==
  /\ OneCPU /\ UNCHANGED <<state, proc, lock>> => OneCPU'
  /\ StackInUse /\ UNCHANGED <<state, kstack, op, np, proc>> => StackInUse'
  /\ SchedHolding /\ UNCHANGED <<ctx, proc, irq, lock, tlock>> => SchedHolding'
  /\ NoLostTick /\ UNCHANGED <<state, chan, ticks0, irq, ticks>> => NoLostTick'
  /\ NoLostChild /\ UNCHANGED <<state, parent, chan>> => NoLostChild'
  /\ KilledNotInWait /\ UNCHANGED <<state, killed, chan>> => KilledNotInWait'
  /\ FamilyTree /\ UNCHANGED <<state, pid, parent>> => FamilyTree'
  /\ CtxInv /\ UNCHANGED <<state, chan, op, ctx>> => CtxInv'
  /\ CPUInv /\ UNCHANGED <<state, ctx, proc, irq, lock>> => CPUInv'
  /\ ForkInv /\ UNCHANGED <<state, pid, parent, kstack, op, ctx, np>> => ForkInv'
  /\ TickInv /\ UNCHANGED <<op, ctx, ticks0, proc, irq, tlock, ticks>> => TickInv'
  /\ InitInv /\ UNCHANGED <<state, pid, parent, nextpid, op>> => InitInv'
<1>1. OneCPU /\ UNCHANGED <<state, proc, lock>> => OneCPU'
  BY Zenon DEF OneCPU
<1>2. StackInUse /\ UNCHANGED <<state, kstack, op, np, proc>> => StackInUse'
  BY DEF StackInUse
<1>3. SchedHolding /\ UNCHANGED <<ctx, proc, irq, lock, tlock>> => SchedHolding'
  BY Zenon DEF SchedHolding
<1>4. NoLostTick /\ UNCHANGED <<state, chan, ticks0, irq, ticks>> => NoLostTick'
  BY Zenon DEF NoLostTick, Elapsed
<1>5. NoLostChild /\ UNCHANGED <<state, parent, chan>> => NoLostChild'
  BY Zenon DEF NoLostChild, Kids, Zombies
<1>6. KilledNotInWait /\ UNCHANGED <<state, killed, chan>> => KilledNotInWait'
  BY Zenon DEF KilledNotInWait
<1>7. FamilyTree /\ UNCHANGED <<state, pid, parent>> => FamilyTree'
  BY Zenon DEF FamilyTree
<1>8. CtxInv /\ UNCHANGED <<state, chan, op, ctx>> => CtxInv'
  BY ZenonT(30) DEF CtxInv
<1>9. CPUInv /\ UNCHANGED <<state, ctx, proc, irq, lock>> => CPUInv'
  BY Zenon DEF CPUInv
<1>10. ForkInv /\ UNCHANGED <<state, pid, parent, kstack, op, ctx, np>> => ForkInv'
  BY DEF ForkInv
<1>11. TickInv /\ UNCHANGED <<op, ctx, ticks0, proc, irq, tlock, ticks>> => TickInv'
  BY DEF TickInv, Elapsed
<1>12. InitInv /\ UNCHANGED <<state, pid, parent, nextpid, op>> => InitInv'
  BY Zenon DEF InitInv
<1>13. QED BY Zenon, <1>1, <1>2, <1>3, <1>4, <1>5, <1>6, <1>7, <1>8, <1>9,
    <1>10, <1>11, <1>12

-----------------------------------------------------------------------------
(* Steps that change what a conjunct reads without disturbing it. *)

\* No step of the loop of sys_sleep() starts or ends.
SameSleep ==
  \A q \in Slot :
    /\ op'[q] = "sleep1" /\ ctx'[q] = "none" <=> op[q] = "sleep1" /\ ctx[q] = "none"
    /\ op'[q] = "sleep2" /\ ctx'[q] = "none" <=> op[q] = "sleep2" /\ ctx[q] = "none"
\* Every fork() stays where it is, and its EMBRYO too.
SameFork ==
  \A q \in Slot : /\ op'[q] = "fork1" <=> op[q] = "fork1"
                  /\ op'[q] = "fork2" <=> op[q] = "fork2"
                  /\ state[q] = "EMBRYO" => state'[q] = "EMBRYO" /\ ctx'[q] = ctx[q]
\* Every slot that must have a kernel stack must have had one.
SameStack ==
  \A q \in Slot : /\ op'[q] = "fork2" <=> op[q] = "fork2"
                  /\ state'[q] \in {"UNUSED", "EMBRYO"} <=> state[q] \in {"UNUSED", "EMBRYO"}
\* Only processes that have been started and have not exited change state.
Live == {"SLEEPING", "RUNNABLE", "RUNNING"}
SameTree ==
  \A q \in Slot : state'[q] = state[q] \/ (state[q] \in Live /\ state'[q] \in Live)
\* Nobody falls asleep or exits, and no sleeper is killed.
NoNewSleeper ==
  \A q \in Slot :
    /\ state'[q] = "ZOMBIE" <=> state[q] = "ZOMBIE"
    /\ state'[q] = "SLEEPING" =>
         state[q] = "SLEEPING" /\ chan'[q] = chan[q] /\ killed'[q] = killed[q]

\* tickslock stays with its holder.
LEMMA TickFrame ==
  ASSUME TickInv, SameSleep, UNCHANGED <<ticks0, proc, irq, tlock, ticks>>
  PROVE  TickInv'
<1>1. \A q \in Slot : op'[q] \in {"sleep1", "sleep2"} /\ ctx'[q] = "none"
                      <=> op[q] \in {"sleep1", "sleep2"} /\ ctx[q] = "none"
  BY Zenon DEF SameSleep
<1>2. \A q \in Slot : op'[q] = "sleep2" /\ ctx'[q] = "none"
                      <=> op[q] = "sleep2" /\ ctx[q] = "none"
  BY Zenon DEF SameSleep
<1>3. \A q \in Slot : Elapsed(q)' = Elapsed(q)
  BY Zenon DEF Elapsed
<1>4. \A q \in Slot : op'[q] = "sleep2" /\ ctx'[q] = "none" => Elapsed(q)' < SleepTicks
  BY Zenon, <1>2, <1>3 DEF TickInv
<1>5. \A c \in CPU, q \in Slot :
        proc'[c] = q /\ ctx'[q] = "none" /\ op'[q] \in {"sleep1", "sleep2"} =>
          tlock' = c /\ irq'[c] = "none"
  <2>1. \A c \in CPU, q \in Slot :
          proc[c] = q /\ ctx[q] = "none" /\ op[q] \in {"sleep1", "sleep2"} =>
            tlock = c /\ irq[c] = "none"
    BY Zenon DEF TickInv
  <2>2. QED BY Zenon, <1>1, <2>1
<1>6. ASSUME NEW c \in CPU, tlock' = c
      PROVE  \/ irq'[c] = "wake"
             \/ irq'[c] = "none" /\ \E q \in Slot :
                  proc'[c] = q /\ ctx'[q] = "none" /\ op'[q] \in {"sleep1", "sleep2"}
  <2>1. \/ irq[c] = "wake"
        \/ irq[c] = "none" /\ \E q \in Slot :
             proc[c] = q /\ ctx[q] = "none" /\ op[q] \in {"sleep1", "sleep2"}
    BY Zenon, <1>6 DEF TickInv
  <2>2. QED BY Zenon, <2>1, <1>1
<1>7. \A c \in CPU : /\ irq'[c] \in {"tick", "wake"} => c = BootCPU
                     /\ irq'[c] = "wake" => tlock' = c
  BY Zenon DEF TickInv
<1>8. QED BY Zenon, <1>4, <1>5, <1>6, <1>7 DEF TickInv

\* The EMBRYO stays with its fork().
LEMMA ForkFrame ==
  ASSUME ForkInv, SameFork, np \in [Slot -> Slot \cup {NULL}],
         UNCHANGED <<pid, parent, kstack, np>>
  PROVE  ForkInv'
<1>1. \A q \in Slot : op'[q] \in {"fork1", "fork2"} <=> op[q] \in {"fork1", "fork2"}
  BY Zenon DEF SameFork
<1>2. ASSUME NEW q \in Slot, np[q] # NULL
      PROVE  state'[np[q]] = "EMBRYO" /\ ctx'[np[q]] = ctx[np[q]]
  <2>1. np[q] \in Slot
    BY Zenon, <1>2
  <2>2. state[np[q]] = "EMBRYO"
    BY Zenon, <1>2 DEF ForkInv
  <2>3. QED BY Zenon, <2>1, <2>2 DEF SameFork
<1>3. \A q \in Slot : np'[q] # NULL <=> op'[q] \in {"fork1", "fork2"}
  BY Zenon, <1>1 DEF ForkInv
<1>4. \A q \in Slot : np'[q] # NULL => state'[np'[q]] = "EMBRYO" /\ pid'[q] < pid'[np'[q]]
  BY Zenon, <1>2 DEF ForkInv
<1>5. \A q \in Slot : op'[q] = "fork1" => ctx'[np'[q]] = "none"
  <2>1. ASSUME NEW q \in Slot, op'[q] = "fork1"  PROVE  ctx'[np'[q]] = "none"
    <3>1. op[q] = "fork1" /\ np[q] # NULL
      BY Zenon, <2>1, <1>3 DEF SameFork
    <3>2. ctx[np[q]] = "none"
      BY Zenon, <3>1 DEF ForkInv
    <3>3. QED BY Zenon, <3>1, <3>2, <1>2
  <2>2. QED BY Zenon, <2>1
<1>6. \A q \in Slot : op'[q] = "fork2" => parent'[np'[q]] = q /\ ctx'[np'[q]] = "forkret"
  <2>1. ASSUME NEW q \in Slot, op'[q] = "fork2"
        PROVE  parent'[np'[q]] = q /\ ctx'[np'[q]] = "forkret"
    <3>1. op[q] = "fork2" /\ np[q] # NULL
      BY Zenon, <2>1, <1>3 DEF SameFork
    <3>2. parent[np[q]] = q /\ ctx[np[q]] = "forkret"
      BY Zenon, <3>1 DEF ForkInv
    <3>3. QED BY Zenon, <3>1, <3>2, <1>2
  <2>2. QED BY Zenon, <2>1
<1>7. \A q, r \in Slot : np'[q] # NULL /\ np'[q] = np'[r] => q = r
  <2>1. \A q, r \in Slot : np[q] # NULL /\ np[q] = np[r] => q = r
    BY Zenon DEF ForkInv
  <2>2. QED BY Zenon, <2>1
<1>8. \A q \in Slot : ~kstack'[q] => parent'[q] = NULL
  BY Zenon DEF ForkInv
<1>9. QED BY Zenon, <1>3, <1>4, <1>5, <1>6, <1>7, <1>8 DEF ForkInv

\* The kernel stacks stay in use.
LEMMA StackFrame ==
  ASSUME StackInUse, SameStack, UNCHANGED <<kstack, np, proc>>
  PROVE  StackInUse'
<1>1. \A q \in Slot : (\E r \in Slot : np'[r] = q /\ op'[r] = "fork2")
                      <=> (\E r \in Slot : np[r] = q /\ op[r] = "fork2")
  BY Zenon DEF SameStack
<1>2. \A q \in Slot : state'[q] \in {"UNUSED", "EMBRYO"} <=> state[q] \in {"UNUSED", "EMBRYO"}
  BY Zenon DEF SameStack
<1>3. \A c \in CPU : proc'[c] # NULL => kstack'[proc'[c]]
  BY Zenon DEF StackInUse
<1>4. \A q \in Slot :
        kstack'[q] <=> \/ state'[q] \notin {"UNUSED", "EMBRYO"}
                       \/ \E r \in Slot : np'[r] = q /\ op'[r] = "fork2"
  <2>1. \A q \in Slot :
          kstack[q] <=> \/ state[q] \notin {"UNUSED", "EMBRYO"}
                        \/ \E r \in Slot : np[r] = q /\ op[r] = "fork2"
    BY Zenon DEF StackInUse
  <2>2. QED BY ZenonT(30), <1>1, <1>2, <2>1
<1>5. QED BY Zenon, <1>3, <1>4 DEF StackInUse

\* Parents stay alive.
LEMMA TreeFrame ==
  ASSUME FamilyTree, SameTree, parent \in [Slot -> Slot \cup {NULL}],
         UNCHANGED <<pid, parent>>
  PROVE  FamilyTree'
<1>1. \A q \in Slot :
        /\ state'[q] = "UNUSED" <=> state[q] = "UNUSED"
        /\ state'[q] \in {"UNUSED", "EMBRYO"} <=> state[q] \in {"UNUSED", "EMBRYO"}
        /\ state'[q] \in {"UNUSED", "EMBRYO", "ZOMBIE"}
             <=> state[q] \in {"UNUSED", "EMBRYO", "ZOMBIE"}
  BY Zenon DEF SameTree, Live
<1>2. QED BY Zenon, <1>1 DEF FamilyTree

\* init stays alive, and the pids below nextpid.
LEMMA InitFrame ==
  ASSUME InitInv, SameTree, UNCHANGED <<pid, parent, nextpid, op>>
  PROVE  InitInv'
<1>1. \A q \in Slot :
        /\ state'[q] = "UNUSED" <=> state[q] = "UNUSED"
        /\ state'[q] \in {"UNUSED", "EMBRYO"} <=> state[q] \in {"UNUSED", "EMBRYO"}
  BY Zenon DEF SameTree, Live
<1>2. QED BY Zenon, <1>1, SlotFacts DEF InitInv

\* Whoever sleeps still waits for a wakeup that will come.
LEMMA SleepFrame ==
  ASSUME NoLostTick, NoLostChild, KilledNotInWait, NoNewSleeper,
         irq[BootCPU] = "wake" => irq'[BootCPU] = "wake",
         UNCHANGED <<parent, ticks0, ticks>>
  PROVE  NoLostTick' /\ NoLostChild' /\ KilledNotInWait'
<1>1. NoLostTick'
  BY Zenon DEF NoLostTick, NoNewSleeper, Elapsed
<1>2. NoLostChild'
  <2>1. \A q \in Slot : Kids(q)' = Kids(q) /\ Zombies(q)' = Zombies(q)
    BY Zenon DEF Kids, Zombies, NoNewSleeper
  <2>2. QED BY Zenon, <2>1 DEF NoLostChild, NoNewSleeper
<1>3. KilledNotInWait'
  BY Zenon DEF KilledNotInWait, NoNewSleeper
<1>4. QED BY Zenon, <1>1, <1>2, <1>3

-----------------------------------------------------------------------------
(* The steps. *)

\* The types of the variables a process is described by.
LEMMA SlotTypes ==
  IInv => /\ state \in [Slot -> States] /\ parent \in [Slot -> Slot \cup {NULL}]
          /\ killed \in [Slot -> BOOLEAN] /\ chan \in [Slot -> Slot \cup {NULL, Ticks}]
          /\ op \in [Slot -> Ops] /\ ctx \in [Slot -> Ctxs]
          /\ np \in [Slot -> Slot \cup {NULL}]
  BY Zenon, HasTypeOK DEF TypeOK, TableOK, ThreadOK

\* scheduler() hands its CPU and ptable.lock to the process it picked.
LEMMA SchedDispatchInv ==
  ASSUME IInv, NEW c \in CPU, SchedDispatch(c)
  PROVE  IInv'
<1> USE DEF table, thread, cpu, clock
<1>0. /\ state \in [Slot -> States]
      /\ proc \in [CPU -> Slot \cup {NULL}]
  BY Zenon, HasTypeOK DEF TypeOK, TableOK, CPUOK
<1>1. TypeOK'
  BY TypeFrames, HasTypeOK DEF SchedDispatch, TypeOK, States, CPUOK, TableOK
<1>2. OneCPU' /\ CPUInv'
  BY <1>0, SlotFacts, HasOneCPU, HasCtxInv, HasCPUInv DEF SchedDispatch,
    IsHighest, Runnable, OneCPU, CPUInv, CtxInv
<1>3. StackInUse'
  BY HasStackInUse DEF SchedDispatch, IsHighest, Runnable, StackInUse
<1>4. SchedHolding'
  BY SlotFacts, HasSchedHolding, HasTickInv DEF SchedDispatch, SchedHolding,
    TickInv
<1>5. NoLostTick' /\ NoLostChild' /\ KilledNotInWait'
  <2>1. NoNewSleeper
    BY Zenon, SlotTypes DEF SchedDispatch, NoNewSleeper, IsHighest, Runnable
  <2>2. UNCHANGED <<parent, ticks0, ticks>>
    BY Zenon DEF SchedDispatch
  <2>3. irq[BootCPU] = "wake" => irq'[BootCPU] = "wake"
    BY Zenon DEF SchedDispatch
  <2>4. QED BY Zenon, <2>1, <2>2, <2>3, SleepFrame, HasNoLostTick,
    HasNoLostChild, HasKilledNotInWait
<1>6. FamilyTree' /\ InitInv'
  <2>1. SameTree
    BY Zenon, SlotTypes DEF SchedDispatch, SameTree, Live, IsHighest, Runnable
  <2>2. UNCHANGED <<pid, parent, nextpid, op>>
    BY Zenon DEF SchedDispatch
  <2>3. QED BY Zenon, <2>1, <2>2, SlotTypes, TreeFrame, InitFrame, HasFamilyTree,
    HasInitInv
<1>7. CtxInv'
  BY HasCtxInv DEF SchedDispatch, IsHighest, Runnable, CtxInv
<1>8. ForkInv'
  <2>1. SameFork
    BY Zenon, SlotTypes DEF SchedDispatch, SameFork, IsHighest, Runnable
  <2>2. UNCHANGED <<pid, parent, kstack, np>>
    BY Zenon DEF SchedDispatch
  <2>3. QED BY Zenon, <2>1, <2>2, SlotTypes, ForkFrame, HasForkInv
<1>9. TickInv'
  BY SlotFacts, HasCtxInv, HasTickInv DEF SchedDispatch, IsHighest, Runnable,
    TickInv, CtxInv, Elapsed
<1>10. QED BY Zenon, <1>1, <1>2, <1>3, <1>4, <1>5, <1>6, <1>7, <1>8, <1>9, Whole

\* sched() gives the CPU back to the scheduler, lock held.
LEMMA SwtchInv ==
  ASSUME IInv, NEW c \in CPU, NEW p \in Slot, Swtch(c, p)
  PROVE  IInv'
<1> USE DEF table, thread, cpu, clock
<1>1. TypeOK'
  <2>1. p + 1 \in 1..NPROC+1
    BY NPROCAssumption DEF Slot
  <2>2. counter' \in [Slot -> IF AgeLimit = 0 THEN {0} ELSE 0..AgeLimit-1]
    <3>1. CASE AgeLimit = 0
      BY <3>1, HasTypeOK DEF Swtch, Age, TypeOK, TableOK
    <3>2. CASE AgeLimit # 0
      <4>1. counter \in [Slot -> 0..AgeLimit-1]
        BY Zenon, <3>2, HasTypeOK DEF TypeOK, TableOK
      <4>2. counter' \in [Slot -> 0..AgeLimit-1]
        BY <3>2, <4>1, ProcAssumption DEF Swtch, Age
      <4>3. QED BY Zenon, <3>2, <4>2
    <3>3. QED BY Zenon, <3>1, <3>2
  <2>3. priority' \in [Slot -> 1..MaxPri]
    BY ProcAssumption, HasTypeOK DEF Swtch, Age, TypeOK, TableOK, Older
  <2>4. QED BY Zenon, <2>1, <2>2, <2>3, TypeFrames, HasTypeOK DEF Swtch, After,
    TypeOK, TableOK, CPUOK
<1>2. OneCPU' /\ CPUInv'
  BY HasOneCPU, HasCPUInv DEF Swtch, OneCPU, CPUInv
<1>3. StackInUse'
  BY HasStackInUse DEF Swtch, StackInUse
<1>4. SchedHolding'
  BY HasSchedHolding DEF Swtch, SchedHolding
<1>5. TickInv'
  BY SlotFacts, HasTickInv DEF Swtch, TickInv, Elapsed
<1>6. UNCHANGED <<state, pid, parent, killed, chan, kstack, nextpid, op, ctx,
                  np, ticks0, irq, ticks>>
  BY Zenon DEF Swtch
<1>7. QED BY Zenon, <1>1, <1>2, <1>3, <1>4, <1>5, <1>6, Frames, Parts, Whole

\* forkret() and yield() release the lock the scheduler handed over.
LEMMA ResumeInv ==
  ASSUME IInv, NEW c \in CPU, NEW p \in Slot, Resume(c, p)
  PROVE  IInv'
<1> USE DEF table, thread, cpu, clock
<1>0. ctx \in [Slot -> Ctxs]
  BY Zenon, HasTypeOK DEF TypeOK, ThreadOK
<1>1. TypeOK'
  BY Zenon, TypeFrames, HasTypeOK DEF Resume, TypeOK, Ctxs, CPUOK, ThreadOK
<1>2. OneCPU' /\ CPUInv'
  BY SlotFacts, ProcAssumption, HasOneCPU, HasSchedHolding, HasCPUInv DEF
    Resume, OneCPU, SchedHolding, CPUInv
<1>3. SchedHolding'
  BY <1>0, SlotFacts, HasSchedHolding DEF Resume, SchedHolding
<1>4. CtxInv'
  BY HasCtxInv DEF Resume, CtxInv
<1>5. ForkInv'
  <2>1. SameFork
    BY Zenon, SlotTypes DEF Resume, SameFork
  <2>2. UNCHANGED <<pid, parent, kstack, np>>
    BY Zenon DEF Resume
  <2>3. QED BY Zenon, <2>1, <2>2, SlotTypes, ForkFrame, HasForkInv
<1>6. TickInv'
  <2>1. SameSleep
    <3>1. ctx' = [ctx EXCEPT ![p] = "none"] /\ op' = op /\ ctx[p] # "none"
      BY Zenon DEF Resume
    <3>2. op[p] \notin {"sleep1", "sleep2"}
      BY Zenon, HasCtxInv DEF Resume, CtxInv
    <3>3. QED BY Zenon, <1>0, <3>1, <3>2 DEF SameSleep
  <2>2. UNCHANGED <<ticks0, proc, irq, tlock, ticks>>
    BY Zenon DEF Resume
  <2>3. QED BY Zenon, <2>1, <2>2, TickFrame, HasTickInv
<1>7. UNCHANGED <<state, pid, parent, killed, chan, kstack, nextpid, op, np,
                  ticks0, proc, irq, ticks>>
  BY Zenon DEF Resume
<1>8. QED BY Zenon, <1>1, <1>2, <1>3, <1>4, <1>5, <1>6, <1>7, Frames, Parts,
  Whole

\* scheduler() takes ptable.lock for a round over the table.
LEMMA SchedEnterInv ==
  ASSUME IInv, NEW c \in CPU, SchedEnter(c)
  PROVE  IInv'
<1> USE DEF table, thread, cpu, clock
<1>1. TypeOK'
  BY NPROCAssumption, TypeFrames, HasTypeOK DEF SchedEnter, TypeOK, CPUOK
<1>2. OneCPU' /\ CPUInv'
  BY ProcAssumption, HasOneCPU, HasCPUInv DEF SchedEnter, OneCPU, CPUInv
<1>3. SchedHolding'
  BY Zenon, ProcAssumption, HasSchedHolding DEF SchedEnter, SchedHolding
<1>4. UNCHANGED <<state, pid, parent, killed, chan, kstack, nextpid, op, ctx,
                  np, ticks0, proc, irq, tlock, ticks>>
  BY Zenon DEF SchedEnter
<1>5. QED BY Zenon, <1>1, <1>2, <1>3, <1>4, Frames, Parts, Whole

\* scheduler() ends a round and releases ptable.lock.
LEMMA SchedReleaseInv ==
  ASSUME IInv, NEW c \in CPU, SchedRelease(c)
  PROVE  IInv'
<1> USE DEF table, thread, cpu, clock
<1>1. TypeOK'
  BY NPROCAssumption, TypeFrames, HasTypeOK DEF SchedRelease, TypeOK, CPUOK
<1>2. OneCPU' /\ CPUInv'
  BY ProcAssumption, HasOneCPU, HasCPUInv DEF SchedRelease, OneCPU, CPUInv
<1>3. SchedHolding'
  BY Zenon, HasSchedHolding DEF SchedRelease, SchedHolding
<1>4. UNCHANGED <<state, pid, parent, killed, chan, kstack, nextpid, op, ctx,
                  np, ticks0, proc, irq, tlock, ticks>>
  BY Zenon DEF SchedRelease
<1>5. QED BY Zenon, <1>1, <1>2, <1>3, <1>4, Frames, Parts, Whole

\* exit() wakes the parent, hands the children to init, becomes a ZOMBIE.
LEMMA ExitInv ==
  ASSUME IInv, NEW c \in CPU, NEW p \in Slot, Exit(c, p)
  PROVE  IInv'
<1> USE DEF table, thread, cpu, clock
<1>0. /\ state \in [Slot -> States]
      /\ pid \in [Slot -> Nat]
      /\ parent \in [Slot -> Slot \cup {NULL}]
      /\ nextpid \in Nat
      /\ ctx \in [Slot -> Ctxs]
      /\ np \in [Slot -> Slot \cup {NULL}]
      /\ proc \in [CPU -> Slot \cup {NULL}]
  BY Zenon, HasTypeOK DEF TypeOK, TableOK, ThreadOK, CPUOK
<1>r. state[p] = "RUNNING" /\ p # initproc
  BY Zenon, SlotFacts, ProcAssumption, HasOneCPU, HasInitInv DEF Exit, Exec,
    OneCPU, InitInv
<1>m. /\ state'[p] = "ZOMBIE" /\ UNCHANGED <<pid, killed, chan, ticks0, irq, ticks>>
      /\ \A q \in Slot : q # p =>
           state'[q] = state[q] \/ (state[q] = "SLEEPING" /\ state'[q] = "RUNNABLE")
  <2>1. \A q \in Woken(p) : state[q] = "SLEEPING"
    BY Zenon DEF Woken, Sleepers
  <2>2. /\ state' = [q \in Slot |-> IF q = p THEN "ZOMBIE"
                                  ELSE IF q \in Woken(p) THEN "RUNNABLE" ELSE state[q]]
        /\ UNCHANGED <<pid, killed, chan, ticks0, irq, ticks>>
    BY Zenon DEF Exit
  <2>3. QED BY Zenon, <2>1, <2>2
<1>1. TypeOK'
  BY Zenon, SlotFacts, HasTypeOK DEF Exit, TypeOK, Ctxs, States, TableOK,
    ThreadOK, CPUOK
<1>2. OneCPU' /\ CPUInv'
  BY <1>0, ProcAssumption, HasOneCPU, HasCPUInv DEF Exit, Exec, Woken, Sleepers,
    OneCPU, CPUInv
<1>3. StackInUse'
  <2>1. SameStack
    BY Zenon, SlotTypes, HasCtxInv DEF Exit, SameStack, CtxInv, Exec, Woken,
      Sleepers
  <2>2. UNCHANGED <<kstack, np, proc>>
    BY Zenon DEF Exit
  <2>3. QED BY Zenon, <2>1, <2>2, StackFrame, HasStackInUse
<1>4. SchedHolding'
  BY ProcAssumption, HasOneCPU, HasSchedHolding, HasTickInv DEF Exit, Exec,
    OneCPU, SchedHolding, TickInv
<1>5. NoLostTick' /\ NoLostChild' /\ KilledNotInWait'
  <2>1. NoLostTick'
    BY Zenon, <1>m, HasNoLostTick DEF NoLostTick, Elapsed
  <2>2. KilledNotInWait'
    BY Zenon, <1>m, HasKilledNotInWait DEF KilledNotInWait
  <2>3. NoLostChild'
    BY <1>0, HasNoLostChild, HasFamilyTree, HasCtxInv, HasInitInv DEF Exit, Exec,
      Woken, Kids, Sleepers, NoLostChild, CtxInv, FamilyTree, InitInv, Zombies
  <2>4. QED BY Zenon, <2>1, <2>2, <2>3
<1>6. FamilyTree' /\ InitInv'
  <2>1. FamilyTree'
    <3>1. \A q \in Slot : parent'[q] = IF parent[q] = p THEN initproc ELSE parent[q]
      BY Zenon DEF Exit, Kids
    <3>2. \A q \in Slot \ {initproc} :
            state'[q] \notin {"UNUSED", "EMBRYO"} => parent'[q] # NULL
      <4>1. \A q \in Slot \ {initproc} :
              state[q] \notin {"UNUSED", "EMBRYO"} => parent[q] # NULL
        BY Zenon, HasFamilyTree DEF FamilyTree
      <4>2. QED BY Zenon, <1>m, <1>r, <3>1, <4>1, SlotFacts
    <3>3. ASSUME NEW q \in Slot, parent'[q] # NULL
          PROVE  /\ state'[parent'[q]] \notin {"UNUSED", "EMBRYO", "ZOMBIE"}
                 /\ pid'[parent'[q]] < pid'[q]
      <4>1. ASSUME NEW r \in Slot, state[r] \notin {"UNUSED", "EMBRYO", "ZOMBIE"}, r # p
            PROVE  state'[r] \notin {"UNUSED", "EMBRYO", "ZOMBIE"}
        BY Zenon, <1>m, <4>1
      <4>2. parent[q] # NULL => /\ state[parent[q]] \notin {"UNUSED", "EMBRYO", "ZOMBIE"}
                                /\ pid[parent[q]] < pid[q]
        BY Zenon, HasFamilyTree DEF FamilyTree
      <4>3. CASE parent[q] = p
        <5>1. state[initproc] \notin {"UNUSED", "EMBRYO", "ZOMBIE"}
          BY Zenon, SlotFacts, HasInitInv, HasCtxInv DEF InitInv, CtxInv
        <5>2. pid[initproc] = 1 /\ 1 < pid[p] /\ pid[p] < pid[q]
          BY <1>r, <4>2, <4>3, SlotFacts, HasInitInv DEF InitInv
        <5>3. pid[initproc] < pid[q]
          BY <1>0, <5>2
        <5>4. QED BY Zenon, <1>m, <1>r, <3>1, <4>1, <4>3, <5>1, <5>3, SlotFacts
      <4>4. CASE parent[q] # p
        <5>1. parent'[q] = parent[q] /\ parent[q] # NULL
          BY Zenon, <3>1, <3>3, <4>4
        <5>2. parent[q] \in Slot
          BY Zenon, <1>0, <5>1
        <5>3. QED BY Zenon, <1>m, <4>1, <4>2, <4>4, <5>1, <5>2
      <4>5. QED BY Zenon, <4>3, <4>4
    <3>4. \A q, r \in Slot :
            state'[q] # "UNUSED" /\ state'[r] # "UNUSED" /\ pid'[q] = pid'[r] => q = r
      <4>1. \A q, r \in Slot :
              state[q] # "UNUSED" /\ state[r] # "UNUSED" /\ pid[q] = pid[r] => q = r
        BY Zenon, HasFamilyTree DEF FamilyTree
      <4>2. \A q \in Slot : state'[q] # "UNUSED" => state[q] # "UNUSED"
        BY Zenon, <1>m, <1>r
      <4>3. QED BY <1>m, <4>1, <4>2
    <3>5. QED BY Zenon, <3>2, <3>3, <3>4 DEF FamilyTree
  <2>2. InitInv'
    BY <1>0, <1>m, <1>r, SlotFacts, HasInitInv DEF Exit, Kids, InitInv
  <2>3. QED BY Zenon, <2>1, <2>2
<1>7. CtxInv'
  <2>1. /\ op' = op /\ op[p] = "exit" /\ ctx'[p] = "exit" /\ chan[p] = NULL
        /\ \A q \in Slot : q # p => ctx'[q] = ctx[q]
    BY Zenon, <1>0, HasCtxInv DEF Exit, Exec, CtxInv
  <2>2. QED BY <1>m, <2>1, HasCtxInv DEF CtxInv
<1>8. ForkInv'
  BY <1>0, SlotFacts, HasCtxInv, HasForkInv DEF Exit, Woken, Kids, Sleepers,
    ForkInv, CtxInv
<1>9. TickInv'
  <2>1. SameSleep
    BY Zenon, SlotTypes DEF Exit, SameSleep, Exec
  <2>2. UNCHANGED <<ticks0, proc, irq, tlock, ticks>>
    BY Zenon DEF Exit
  <2>3. QED BY Zenon, <2>1, <2>2, TickFrame, HasTickInv
<1>10. QED BY Zenon, <1>1, <1>2, <1>3, <1>4, <1>5, <1>6, <1>7, <1>8, <1>9, Whole

\* yield() makes the process RUNNABLE and enters sched().
LEMMA YieldInv ==
  ASSUME IInv, NEW c \in CPU, NEW p \in Slot, Yield(c, p)
  PROVE  IInv'
<1> USE DEF table, thread, cpu, clock
<1>0. /\ state \in [Slot -> States]
      /\ ctx \in [Slot -> Ctxs]
      /\ irq \in [CPU -> {"none", "tick", "wake", "yield"}]
  BY Zenon, HasTypeOK DEF TypeOK, TableOK, ThreadOK, CPUOK
<1>r. state[p] = "RUNNING" /\ p # NULL
  BY Zenon, SlotFacts, ProcAssumption, HasOneCPU DEF Yield, OneCPU
<1>1. TypeOK'
  BY Zenon, HasTypeOK DEF Yield, TypeOK, Ctxs, States, TableOK, ThreadOK, CPUOK
<1>2. OneCPU' /\ CPUInv'
  BY ProcAssumption, <1>0, HasOneCPU, HasCPUInv DEF Yield, OneCPU, CPUInv
<1>3. StackInUse'
  <2>1. SameStack
    BY Zenon, SlotTypes, <1>r DEF Yield, SameStack
  <2>2. UNCHANGED <<kstack, np, proc>>
    BY Zenon DEF Yield
  <2>3. QED BY Zenon, <2>1, <2>2, StackFrame, HasStackInUse
<1>4. SchedHolding'
  BY <1>0, ProcAssumption, HasOneCPU, HasSchedHolding, HasTickInv DEF Yield,
    OneCPU, SchedHolding, TickInv
<1>5. NoLostTick' /\ NoLostChild' /\ KilledNotInWait'
  <2>1. NoNewSleeper
    BY Zenon, SlotTypes, <1>r DEF Yield, NoNewSleeper
  <2>2. UNCHANGED <<parent, ticks0, ticks>>
    BY Zenon DEF Yield
  <2>3. irq[BootCPU] = "wake" => irq'[BootCPU] = "wake"
    <3>1. irq[c] = "yield" /\ irq' = [irq EXCEPT ![c] = "none"]
      BY Zenon DEF Yield
    <3>2. QED BY Zenon, <1>0, <3>1, ProcAssumption
  <2>4. QED BY Zenon, <2>1, <2>2, <2>3, SleepFrame, HasNoLostTick,
    HasNoLostChild, HasKilledNotInWait
<1>6. FamilyTree' /\ InitInv'
  <2>1. SameTree
    BY Zenon, SlotTypes, <1>r DEF Yield, SameTree, Live
  <2>2. UNCHANGED <<pid, parent, nextpid, op>>
    BY Zenon DEF Yield
  <2>3. QED BY Zenon, <2>1, <2>2, SlotTypes, TreeFrame, InitFrame, HasFamilyTree,
    HasInitInv
<1>7. CtxInv'
  BY <1>0, SlotFacts, HasSchedHolding, HasCtxInv, HasTickInv DEF Yield, CtxInv,
    SchedHolding, TickInv
<1>8. ForkInv'
  <2>1. SameFork
    BY Zenon, SlotTypes, <1>r DEF Yield, SameFork
  <2>2. UNCHANGED <<pid, parent, kstack, np>>
    BY Zenon DEF Yield
  <2>3. QED BY Zenon, <2>1, <2>2, SlotTypes, ForkFrame, HasForkInv
<1>9. TickInv'
  BY HasTickInv DEF Yield, TickInv, Elapsed
<1>10. QED BY Zenon, <1>1, <1>2, <1>3, <1>4, <1>5, <1>6, <1>7, <1>8, <1>9, Whole

\* trap() calls wakeup(&ticks) and releases tickslock.
LEMMA TimerWakeInv ==
  ASSUME IInv, NEW c \in CPU, TimerWake(c)
  PROVE  IInv'
<1> USE DEF table, thread, cpu, clock
<1>0. /\ state \in [Slot -> States]
      /\ parent \in [Slot -> Slot \cup {NULL}]
      /\ np \in [Slot -> Slot \cup {NULL}]
      /\ proc \in [CPU -> Slot \cup {NULL}]
      /\ irq \in [CPU -> {"none", "tick", "wake", "yield"}]
  BY Zenon, HasTypeOK DEF TypeOK, TableOK, ThreadOK, CPUOK
<1>1. TypeOK'
  BY Zenon, TypeFrames, HasTypeOK DEF TimerWake, TypeOK, States, TableOK, CPUOK
<1>2. OneCPU' /\ CPUInv'
  BY <1>0, HasOneCPU, HasCPUInv DEF TimerWake, Sleepers, OneCPU, CPUInv
<1>3. StackInUse'
  BY ZenonT(30), HasStackInUse DEF TimerWake, Sleepers, StackInUse
<1>4. SchedHolding'
  BY Zenon, ProcAssumption, HasSchedHolding DEF TimerWake, SchedHolding
<1>5. NoLostTick' /\ NoLostChild' /\ KilledNotInWait'
  BY Zenon, HasNoLostTick, HasNoLostChild, HasKilledNotInWait DEF TimerWake,
    Sleepers, NoLostTick, NoLostChild, Kids, Zombies, KilledNotInWait
<1>6. FamilyTree' /\ InitInv'
  <2>1. SameTree
    BY Zenon, SlotTypes DEF TimerWake, SameTree, Live, Sleepers
  <2>2. UNCHANGED <<pid, parent, nextpid, op>>
    BY Zenon DEF TimerWake
  <2>3. QED BY Zenon, <2>1, <2>2, SlotTypes, TreeFrame, InitFrame, HasFamilyTree,
    HasInitInv
<1>7. CtxInv'
  BY ZenonT(30), HasCtxInv DEF TimerWake, Sleepers, CtxInv
<1>8. ForkInv'
  <2>1. SameFork
    BY Zenon, SlotTypes DEF TimerWake, SameFork, Sleepers
  <2>2. UNCHANGED <<pid, parent, kstack, np>>
    BY Zenon DEF TimerWake
  <2>3. QED BY Zenon, <2>1, <2>2, SlotTypes, ForkFrame, HasForkInv
<1>9. TickInv'
  BY <1>0, ProcAssumption, HasTickInv DEF TimerWake, TickInv, Elapsed
<1>10. QED BY Zenon, <1>1, <1>2, <1>3, <1>4, <1>5, <1>6, <1>7, <1>8, <1>9, Whole

\* trap() increments ticks under tickslock.
LEMMA TimerTickInv ==
  ASSUME IInv, NEW c \in CPU, TimerTick(c)
  PROVE  IInv'
<1> USE DEF table, thread, cpu, clock
<1>0. irq \in [CPU -> {"none", "tick", "wake", "yield"}]
  BY Zenon, HasTypeOK DEF TypeOK, CPUOK
<1>1. TypeOK'
  BY ProcAssumption, TypeFrames, HasTypeOK DEF TimerTick, TypeOK, CPUOK
<1>2. SchedHolding'
  BY HasSchedHolding DEF TimerTick, SchedHolding
<1>3. NoLostTick'
  BY ZenonT(30), <1>0, HasNoLostTick, HasTickInv DEF TimerTick, NoLostTick, TickInv
<1>4. CPUInv'
  BY HasCPUInv DEF TimerTick, CPUInv
<1>5. TickInv'
  <2>1. ASSUME NEW q \in Slot, op[q] = "sleep2", ctx[q] = "none"
        PROVE  FALSE
    <3>1. state[q] = "RUNNING"
      BY Zenon, <2>1, HasTypeOK, HasCtxInv DEF CtxInv, TypeOK, TableOK, States
    <3>2. PICK d \in CPU : proc[d] = q
      BY Zenon, <3>1, HasOneCPU DEF OneCPU
    <3>3. tlock = d
      BY ZenonT(30), <2>1, <3>2, HasTickInv DEF TickInv
    <3>4. QED BY Zenon, <3>3, ProcAssumption DEF TimerTick
  <2>2. QED BY <2>1, ProcAssumption, HasTypeOK, HasTickInv DEF TimerTick,
    TickInv, TypeOK, CPUOK
<1>6. UNCHANGED <<state, pid, parent, killed, chan, kstack, nextpid, op, ctx,
                  np, proc, lock>>
  BY Zenon DEF TimerTick
<1>7. QED BY Zenon, <1>1, <1>2, <1>3, <1>4, <1>5, <1>6, Frames, Parts, Whole

\* A timer interrupt arrives on a CPU that holds no spinlock.
LEMMA TimerInv ==
  ASSUME IInv, NEW c \in CPU, Timer(c)
  PROVE  IInv'
<1> USE DEF table, thread, cpu, clock
<1>1. TypeOK'
  BY Zenon, TypeFrames, HasTypeOK DEF Timer, TypeOK, CPUOK
<1>2. SchedHolding'
  BY HasSchedHolding DEF Timer, IntrOn, SchedHolding
<1>3. NoLostTick'
  BY HasNoLostTick DEF Timer, IntrOn, NoLostTick, Elapsed
<1>4. CPUInv'
  BY HasCPUInv DEF Timer, IntrOn, CPUInv
<1>5. TickInv'
  BY HasTickInv DEF Timer, IntrOn, TickInv, Elapsed
<1>6. UNCHANGED <<state, pid, parent, killed, chan, kstack, nextpid, op, ctx,
                  np, proc, lock>>
  BY Zenon DEF Timer
<1>7. QED BY Zenon, <1>1, <1>2, <1>3, <1>4, <1>5, <1>6, Frames, Parts, Whole

\* trap() returns without yield().
LEMMA TimerReturnInv ==
  ASSUME IInv, NEW c \in CPU, TimerReturn(c)
  PROVE  IInv'
<1> USE DEF table, thread, cpu, clock
<1>0. /\ op \in [Slot -> Ops]
      /\ irq \in [CPU -> {"none", "tick", "wake", "yield"}]
  BY Zenon, HasTypeOK DEF TypeOK, ThreadOK, CPUOK
<1>1. TypeOK'
  <2>1. /\ op' \in [Slot -> Ops]
        /\ irq' \in [CPU -> {"none", "tick", "wake", "yield"}]
    BY Zenon, <1>0 DEF TimerReturn, Ops
  <2>2. TableOK'
    BY Zenon, TypeFrames, HasTypeOK DEF TimerReturn, TypeOK
  <2>3. ThreadOK' /\ CPUOK'
    BY Zenon, <2>1, HasTypeOK DEF TimerReturn, TypeOK, ThreadOK, CPUOK
  <2>4. QED BY Zenon, <2>2, <2>3 DEF TypeOK
<1>2. StackInUse'
  <2>1. SameStack
    BY Zenon, SlotTypes DEF TimerReturn, SameStack
  <2>2. UNCHANGED <<kstack, np, proc>>
    BY Zenon DEF TimerReturn
  <2>3. QED BY Zenon, <2>1, <2>2, StackFrame, HasStackInUse
<1>3. SchedHolding'
  BY HasSchedHolding DEF TimerReturn, SchedHolding
<1>4. NoLostTick'
  BY HasNoLostTick DEF TimerReturn, NoLostTick, Elapsed
<1>5. CtxInv'
  BY <1>0, SlotFacts, HasSchedHolding, HasCtxInv, HasCPUInv DEF TimerReturn,
    CtxInv, CPUInv, SchedHolding
<1>6. CPUInv'
  BY HasCPUInv DEF TimerReturn, CPUInv
<1>7. ForkInv'
  <2>1. SameFork
    BY Zenon, SlotTypes DEF TimerReturn, SameFork
  <2>2. UNCHANGED <<pid, parent, kstack, np>>
    BY Zenon DEF TimerReturn
  <2>3. QED BY Zenon, <2>1, <2>2, SlotTypes, ForkFrame, HasForkInv
<1>8. TickInv'
  BY <1>0, HasTickInv DEF TimerReturn, TickInv, Elapsed
<1>9. InitInv'
  BY Zenon, <1>0, SlotFacts, HasInitInv DEF TimerReturn, InitInv
<1>10. UNCHANGED <<state, pid, parent, killed, chan, proc, lock>>
  BY Zenon DEF TimerReturn
<1>11. QED BY Zenon, <1>1, <1>2, <1>3, <1>4, <1>5, <1>6, <1>7, <1>8, <1>9,
  <1>10, Frames, Parts, Whole

\* A process enters a system call, or exits because it was killed.
LEMMA SyscallInv ==
  ASSUME IInv, NEW c \in CPU, NEW p \in Slot, Syscall(c, p)
  PROVE  IInv'
<1> USE DEF table, thread, cpu, clock
<1>0. op \in [Slot -> Ops]
  BY Zenon, HasTypeOK DEF TypeOK, ThreadOK
<1>1. TypeOK'
  BY ProcAssumption, TypeFrames, HasTypeOK DEF Syscall, TypeOK, Ops, Ctxs,
    States, ThreadOK
<1>2. StackInUse'
  <2>1. SameStack
    BY ZenonT(30), SlotTypes, ProcAssumption DEF Syscall, SameStack
  <2>2. UNCHANGED <<kstack, np, proc>>
    BY Zenon DEF Syscall
  <2>3. QED BY Zenon, <2>1, <2>2, StackFrame, HasStackInUse
<1>3. CtxInv'
  BY <1>0, SlotFacts, HasCtxInv, HasCPUInv DEF Syscall, Exec, CtxInv, CPUInv
<1>4. ForkInv'
  <2>1. SameFork
    BY Zenon, SlotTypes, ProcAssumption DEF Syscall, SameFork
  <2>2. UNCHANGED <<pid, parent, kstack, np>>
    BY Zenon DEF Syscall
  <2>3. QED BY Zenon, <2>1, <2>2, SlotTypes, ForkFrame, HasForkInv
<1>5. TickInv'
  <2>1. SameSleep
    BY Zenon, SlotTypes, ProcAssumption DEF Syscall, SameSleep
  <2>2. UNCHANGED <<ticks0, proc, irq, tlock, ticks>>
    BY Zenon DEF Syscall
  <2>3. QED BY Zenon, <2>1, <2>2, TickFrame, HasTickInv
<1>6. InitInv'
  BY Zenon, <1>0, SlotFacts, HasInitInv DEF Syscall, InitInv
<1>7. UNCHANGED <<state, pid, parent, killed, chan, ctx, ticks0, proc, irq,
                  lock, tlock, ticks>>
  BY Zenon DEF Syscall
<1>8. QED BY Zenon, <1>1, <1>2, <1>3, <1>4, <1>5, <1>6, <1>7, Frames, Parts,
  Whole
=============================================================================
