-------------------------------- MODULE Proc --------------------------------
(***************************************************************************)
(* The process table of proc.c: fork, exit, wait, kill, set_priority,      *)
(* yield, sleep and wakeup, the per-CPU scheduler, the timer trap of       *)
(* trap.c and sys_sleep, on several CPUs that share ptable.lock.           *)
(*                                                                         *)
(* A critical section that starts with acquire(&ptable.lock) and ends with *)
(* release in the same function is one step, enabled while the lock is     *)
(* free.  A section that crosses swtch is split: the process takes the     *)
(* lock and changes its state, Swtch gives the CPU (and the lock) to the   *)
(* scheduler, SchedDispatch gives both to another process, and that        *)
(* process releases the lock when it resumes.                              *)
(***************************************************************************)
EXTENDS Pick

CONSTANTS
  CPU,          \* the CPUs
  BootCPU,      \* cpuid() = 0, the one that counts ticks
  NoCPU,        \* holder of a free spinlock
  MaxPid,       \* bound: no fork once nextpid passes it
  TickMod,      \* ticks is an unsigned counter modulo TickMod
  SleepTicks,   \* the argument of sys_sleep
  Syscalls,     \* the system calls the programs of this instance make
  PidArgs,      \* the pids programs pass to kill and set_priority
  NewPriorities,\* the priorities programs ask for
  Default,      \* the priority allocproc gives, 5
  MaxPri,       \* the highest priority, 20
  AgeLimit      \* turns until a process ages in proc_3.c, 50; 0: no aging

ASSUME ProcAssumption ==
  /\ BootCPU \in CPU
  /\ NoCPU \notin CPU
  /\ MaxPid \in Nat
  /\ TickMod \in Nat \ {0}
  /\ SleepTicks \in Nat
  /\ Syscalls \subseteq {"fork", "exit", "wait", "kill", "setpri", "sleep"}
  /\ PidArgs \subseteq Nat
  /\ NewPriorities \subseteq Nat
  /\ MaxPri \in Nat
  /\ Default \in 1..MaxPri
  /\ AgeLimit \in Nat

VARIABLES
  \* struct proc
  state, pid, parent, killed, chan, kstack, priority, counter, nextpid,
  \* the kernel threads: op is what a process executes, ctx the caller of
  \* sched() it is inside of, np and ticks0 are locals of fork and sys_sleep
  op, ctx, np, ticks0,
  \* struct cpu: c->proc, the loop variable of scheduler(), the timer trap
  proc, cursor, irq,
  \* ptable.lock, tickslock and ticks
  lock, tlock, ticks

table  == <<state, pid, parent, killed, chan, kstack, priority, counter,
            nextpid>>
thread == <<op, ctx, np, ticks0>>
cpu    == <<proc, cursor, irq>>
clock  == <<tlock, ticks>>
vars   == <<table, thread, cpu, lock, clock>>

NULL     == 0                 \* the null struct proc *
initproc == 1                 \* userinit runs first and gets the first slot
Ticks    == NPROC + 1         \* the channel &ticks

Ops  == {"user", "fork", "fork1", "fork2", "exit", "wait", "kill", "setpri",
         "sleep", "sleep1", "sleep2", "sleep3"}
Ctxs == {"none", "forkret", "yield", "wait", "sleep", "exit"}

TableOK ==
  /\ state \in [Slot -> States]
  /\ pid \in [Slot -> Nat]
  /\ parent \in [Slot -> Slot \cup {NULL}]
  /\ killed \in [Slot -> BOOLEAN]
  /\ chan \in [Slot -> Slot \cup {NULL, Ticks}]
  /\ kstack \in [Slot -> BOOLEAN]
  /\ priority \in [Slot -> 1..MaxPri]
  /\ counter \in [Slot -> IF AgeLimit = 0 THEN {0} ELSE 0..AgeLimit-1]
  /\ nextpid \in Nat

ThreadOK ==
  /\ op \in [Slot -> Ops]
  /\ ctx \in [Slot -> Ctxs]
  /\ np \in [Slot -> Slot \cup {NULL}]
  /\ ticks0 \in [Slot -> 0..TickMod-1]

CPUOK ==
  /\ proc \in [CPU -> Slot \cup {NULL}]
  /\ cursor \in [CPU -> 1..NPROC+1]
  /\ irq \in [CPU -> {"none", "tick", "wake", "yield"}]
  /\ lock \in CPU \cup {NoCPU}
  /\ tlock \in CPU \cup {NoCPU}
  /\ ticks \in 0..TickMod-1

TypeOK == TableOK /\ ThreadOK /\ CPUOK

\* userinit has run: the first slot holds init, about to start in forkret.
Init ==
  /\ state = [p \in Slot |-> IF p = initproc THEN "RUNNABLE" ELSE "UNUSED"]
  /\ pid = [p \in Slot |-> IF p = initproc THEN 1 ELSE 0]
  /\ parent = [p \in Slot |-> NULL]
  /\ killed = [p \in Slot |-> FALSE]
  /\ chan = [p \in Slot |-> NULL]
  /\ kstack = [p \in Slot |-> p = initproc]
  /\ priority = [p \in Slot |-> Default]
  /\ counter = [p \in Slot |-> 0]
  /\ nextpid = 2
  /\ op = [p \in Slot |-> "user"]
  /\ ctx = [p \in Slot |-> IF p = initproc THEN "forkret" ELSE "none"]
  /\ np = [p \in Slot |-> NULL]
  /\ ticks0 = [p \in Slot |-> 0]
  /\ proc = [c \in CPU |-> NULL]
  /\ cursor = [c \in CPU |-> 1]
  /\ irq = [c \in CPU |-> "none"]
  /\ lock = NoCPU
  /\ tlock = NoCPU
  /\ ticks = 0

\* q is the first slot of S in table order, the one a scan stops at.
IsFirst(q, S) == q \in S /\ \A r \in S : q <= r

\* CPU c executes process p outside sched() and outside the timer trap.
Exec(c, p) == proc[c] = p /\ ctx[p] = "none" /\ irq[c] = "none"

\* A version of IntrOn in which acquire leaves interrupts on.
IntrOn_noPushcli(c) == irq[c] = "none"

\* Interrupts are on: pushcli has disabled them under every spinlock.
IntrOn(c) == irq[c] = "none" /\ lock # c /\ tlock # c

\* The processes wakeup1(ch) makes RUNNABLE.
Sleepers(ch) == {q \in Slot : state[q] = "SLEEPING" /\ chan[q] = ch}

-----------------------------------------------------------------------------
(* scheduler() *)

SchedEnter(c) ==
  /\ proc[c] = NULL /\ irq[c] = "none" /\ lock = NoCPU
  /\ lock' = c
  /\ cursor' = [cursor EXCEPT ![c] = 1]
  /\ UNCHANGED <<table, thread, proc, irq, clock>>

SchedDispatch(c) ==
  /\ proc[c] = NULL /\ irq[c] = "none" /\ lock = c
  /\ \E f, q \in Slot :
       /\ IsFirst(f, {r \in Runnable(state) : cursor[c] <= r})
       /\ IsHighest(f, state, priority, q)
       /\ proc' = [proc EXCEPT ![c] = q]
       /\ state' = [state EXCEPT ![q] = "RUNNING"]
  /\ UNCHANGED <<pid, parent, killed, chan, kstack, priority, counter, nextpid,
                 thread, cursor, irq, lock, clock>>

SchedRelease(c) ==
  /\ proc[c] = NULL /\ irq[c] = "none" /\ lock = c
  /\ \A r \in Runnable(state) : r < cursor[c]
  /\ lock' = NoCPU
  /\ cursor' = [cursor EXCEPT ![c] = 1]
  /\ UNCHANGED <<table, thread, proc, irq, clock>>

\* A version of Older without aging.
Older_never(q) == priority[q]

Older(q) == IF priority[q] < MaxPri THEN priority[q] + 1 ELSE priority[q]

\* The aging loop of proc_3.c: every RUNNABLE or RUNNING process counts the
\* turn, and gains a priority each time it has counted AgeLimit of them.
Age ==
  LET up(q)  == AgeLimit > 0 /\ state[q] \in {"RUNNABLE", "RUNNING"}
      top(q) == up(q) /\ counter[q] + 1 = AgeLimit
  IN /\ counter' = [q \in Slot |-> IF top(q) THEN 0
                                   ELSE IF up(q) THEN counter[q] + 1
                                   ELSE counter[q]]
     /\ priority' = [q \in Slot |-> IF top(q) THEN Older(q)
                                    ELSE priority[q]]

\* A version of After in which the scheduler starts over after every process.
After_restart(p) == 1

\* The p++ of the scheduler's loop, p being the process that just ran.
After(p) == p + 1

\* swtch in sched(): the CPU goes back to its scheduler, which goes on with
\* the slot after p.  ptable.lock stays held.
Swtch(c, p) ==
  /\ proc[c] = p /\ ctx[p] # "none" /\ state[p] # "RUNNING"
  /\ proc' = [proc EXCEPT ![c] = NULL]
  /\ cursor' = [cursor EXCEPT ![c] = After(p)]
  /\ Age
  /\ UNCHANGED <<state, pid, parent, killed, chan, kstack, nextpid,
                 thread, irq, lock, clock>>

\* The scheduler has switched to p, which finds itself in forkret or behind
\* sched() in yield: both release ptable.lock.
Resume(c, p) ==
  /\ proc[c] = p /\ ctx[p] \in {"forkret", "yield"} /\ state[p] = "RUNNING"
  /\ lock' = NoCPU
  /\ ctx' = [ctx EXCEPT ![p] = "none"]
  /\ UNCHANGED <<table, op, np, ticks0, cpu, clock>>

-----------------------------------------------------------------------------
(* System call entry, and the check of p->killed on the way to user space *)

Syscall(c, p) ==
  /\ Exec(c, p) /\ op[p] = "user"
  /\ \/ killed[p] /\ p # initproc /\ op' = [op EXCEPT ![p] = "exit"]
     \/ ~killed[p] /\ \E s \in Syscalls :
          /\ s = "exit" => p # initproc
          /\ op' = [op EXCEPT ![p] = s]
  /\ UNCHANGED <<table, ctx, np, ticks0, cpu, lock, clock>>

\* allocproc under the lock: the first UNUSED slot becomes an EMBRYO.
ForkAlloc(c, p) ==
  /\ Exec(c, p) /\ op[p] = "fork" /\ lock = NoCPU
  /\ \E q \in Slot :
       /\ IsFirst(q, {r \in Slot : state[r] = "UNUSED"})
       /\ nextpid <= MaxPid
       /\ state' = [state EXCEPT ![q] = "EMBRYO"]
       /\ pid' = [pid EXCEPT ![q] = nextpid]
       /\ priority' = [priority EXCEPT ![q] = Default]
       /\ counter' = [counter EXCEPT ![q] = 0]
       /\ np' = [np EXCEPT ![p] = q]
  /\ nextpid' = nextpid + 1
  /\ op' = [op EXCEPT ![p] = "fork1"]
  /\ UNCHANGED <<parent, killed, chan, kstack, ctx, ticks0, cpu, lock, clock>>

\* allocproc finds no UNUSED slot (or the bound on pids is reached).
ForkFull(c, p) ==
  /\ Exec(c, p) /\ op[p] = "fork" /\ lock = NoCPU
  /\ nextpid > MaxPid \/ \A r \in Slot : state[r] # "UNUSED"
  /\ op' = [op EXCEPT ![p] = "user"]
  /\ UNCHANGED <<table, ctx, np, ticks0, cpu, lock, clock>>

\* kalloc fails in allocproc, or copyuvm fails in fork, which then frees the
\* kernel stack: the slot is given back by a store made without the lock.
ForkFail(c, p) ==
  /\ Exec(c, p) /\ op[p] = "fork1"
  /\ state' = [state EXCEPT ![np[p]] = "UNUSED"]
  /\ np' = [np EXCEPT ![p] = NULL]
  /\ op' = [op EXCEPT ![p] = "user"]
  /\ UNCHANGED <<pid, parent, killed, chan, kstack, priority, counter, nextpid,
                 ctx, ticks0, cpu, lock, clock>>

\* The child gets a kernel stack whose context is forkret, and its parent;
\* no lock is held.
ForkInit(c, p) ==
  /\ Exec(c, p) /\ op[p] = "fork1"
  /\ kstack' = [kstack EXCEPT ![np[p]] = TRUE]
  /\ parent' = [parent EXCEPT ![np[p]] = p]
  /\ ctx' = [ctx EXCEPT ![np[p]] = "forkret"]
  /\ op' = [op EXCEPT ![p] = "fork2", ![np[p]] = "user"]
  /\ UNCHANGED <<state, pid, killed, chan, priority, counter, nextpid,
                 np, ticks0, cpu, lock, clock>>

ForkRun(c, p) ==
  /\ Exec(c, p) /\ op[p] = "fork2" /\ lock = NoCPU
  /\ state' = [state EXCEPT ![np[p]] = "RUNNABLE"]
  /\ np' = [np EXCEPT ![p] = NULL]
  /\ op' = [op EXCEPT ![p] = "user"]
  /\ UNCHANGED <<pid, parent, killed, chan, kstack, priority, counter, nextpid,
                 ctx, ticks0, cpu, lock, clock>>

-----------------------------------------------------------------------------
(* exit, wait, kill, set_priority *)

\* A version of Kids in which exit passes over children that are zombies.
Kids_alive(p) == {q \in Slot : parent[q] = p /\ state[q] # "ZOMBIE"}

Kids(p) == {q \in Slot : parent[q] = p}

\* A version of Woken in which exit does not wake the parent.
Woken_notParent(p) == IF \E q \in Kids(p) : state[q] = "ZOMBIE"
                      THEN Sleepers(initproc) ELSE {}

Woken(p) == Sleepers(parent[p]) \cup
            IF \E q \in Kids(p) : state[q] = "ZOMBIE"
            THEN Sleepers(initproc) ELSE {}

\* From acquire to sched(): wake the parent, give the children to init and
\* wake it if one is a zombie, become one.  The lock stays held.
Exit(c, p) ==
  /\ Exec(c, p) /\ op[p] = "exit" /\ lock = NoCPU
  /\ state' = [q \in Slot |-> IF q = p THEN "ZOMBIE"
                              ELSE IF q \in Woken(p) THEN "RUNNABLE"
                              ELSE state[q]]
  /\ parent' = [q \in Slot |-> IF q \in Kids(p) THEN initproc ELSE parent[q]]
  /\ ctx' = [ctx EXCEPT ![p] = "exit"]
  /\ lock' = c
  /\ UNCHANGED <<pid, killed, chan, kstack, priority, counter, nextpid,
                 op, np, ticks0, cpu, clock>>

\* A version of WaitScan in which wait does not take the lock.
WaitScan_unlocked(c, p) ==
  /\ proc[c] = p /\ op[p] = "wait" /\ irq[c] = "none"
  /\ ctx[p] = "none" \/ (ctx[p] = "wait" /\ state[p] = "RUNNING")

\* The caller of wait holds the lock for a scan of the table: it has just
\* entered wait, or sched() has just returned inside sleep.
WaitScan(c, p) ==
  /\ proc[c] = p /\ op[p] = "wait" /\ irq[c] = "none"
  /\ \/ ctx[p] = "none" /\ lock = NoCPU
     \/ ctx[p] = "wait" /\ state[p] = "RUNNING"

Zombies(p) == {q \in Slot : parent[q] = p /\ state[q] = "ZOMBIE"}

\* The first zombie child is freed, its kernel stack first.
WaitReap(c, p) ==
  /\ WaitScan(c, p)
  /\ \E q \in Slot :
       /\ IsFirst(q, Zombies(p))
       /\ state' = [state EXCEPT ![q] = "UNUSED"]
       /\ pid' = [pid EXCEPT ![q] = 0]
       /\ parent' = [parent EXCEPT ![q] = NULL]
       /\ killed' = [killed EXCEPT ![q] = FALSE]
       /\ kstack' = [kstack EXCEPT ![q] = FALSE]
       /\ op' = [op EXCEPT ![p] = "user", ![q] = "user"]
       /\ ctx' = [ctx EXCEPT ![p] = "none", ![q] = "none"]
  /\ chan' = [chan EXCEPT ![p] = NULL]
  /\ lock' = NoCPU
  /\ UNCHANGED <<priority, counter, nextpid, np, ticks0, cpu, clock>>

\* No children, or killed: return -1.
WaitFail(c, p) ==
  /\ WaitScan(c, p) /\ Zombies(p) = {}
  /\ killed[p] \/ Kids(p) = {}
  /\ chan' = [chan EXCEPT ![p] = NULL]
  /\ op' = [op EXCEPT ![p] = "user"]
  /\ ctx' = [ctx EXCEPT ![p] = "none"]
  /\ lock' = NoCPU
  /\ UNCHANGED <<state, pid, parent, killed, kstack, priority, counter, nextpid,
                 np, ticks0, cpu, clock>>

\* sleep(curproc, &ptable.lock) up to sched().
WaitSleep(c, p) ==
  /\ WaitScan(c, p) /\ Zombies(p) = {}
  /\ ~killed[p] /\ Kids(p) # {}
  /\ chan' = [chan EXCEPT ![p] = p]
  /\ state' = [state EXCEPT ![p] = "SLEEPING"]
  /\ ctx' = [ctx EXCEPT ![p] = "wait"]
  /\ lock' = c
  /\ UNCHANGED <<pid, parent, killed, kstack, priority, counter, nextpid,
                 op, np, ticks0, cpu, clock>>

KillWake(s) == IF s = "SLEEPING" THEN "RUNNABLE" ELSE s

\* kill(k) and set_priority(k, v) act on the first slot whose pid is k,
\* whatever its state.
Kill(c, p) ==
  /\ Exec(c, p) /\ op[p] = "kill" /\ lock = NoCPU
  /\ \E k \in PidArgs :
       \/ (\A q \in Slot : pid[q] # k) /\ UNCHANGED <<killed, state>>
       \/ \E q \in Slot :
            /\ IsFirst(q, {r \in Slot : pid[r] = k})
            /\ killed' = [killed EXCEPT ![q] = TRUE]
            /\ state' = [state EXCEPT ![q] = KillWake(@)]
  /\ op' = [op EXCEPT ![p] = "user"]
  /\ UNCHANGED <<pid, parent, chan, kstack, priority, counter, nextpid,
                 ctx, np, ticks0, cpu, lock, clock>>

SetPriority(c, p) ==
  /\ Exec(c, p) /\ op[p] = "setpri" /\ lock = NoCPU
  /\ \E k \in PidArgs, v \in NewPriorities :
       \/ (v \notin 1..MaxPri \/ \A q \in Slot : pid[q] # k)
            /\ UNCHANGED priority
       \/ \E q \in Slot :
            /\ v \in 1..MaxPri /\ IsFirst(q, {r \in Slot : pid[r] = k})
            /\ priority' = [priority EXCEPT ![q] = v]
  /\ op' = [op EXCEPT ![p] = "user"]
  /\ UNCHANGED <<state, pid, parent, killed, chan, kstack, counter, nextpid,
                 ctx, np, ticks0, cpu, lock, clock>>

-----------------------------------------------------------------------------
(* sys_sleep: a caller of sleep with a lock of its own *)

SysSleep(c, p) ==
  /\ Exec(c, p) /\ op[p] = "sleep" /\ tlock = NoCPU
  /\ tlock' = c
  /\ ticks0' = [ticks0 EXCEPT ![p] = ticks]
  /\ op' = [op EXCEPT ![p] = "sleep1"]
  /\ UNCHANGED <<table, ctx, np, cpu, lock, ticks>>

Elapsed(p) == (ticks + TickMod - ticks0[p]) % TickMod

\* A version of SleepOver in which sys_sleep does not look at p->killed.
SleepOver_notKilled(p) == Elapsed(p) >= SleepTicks

\* The loop of sys_sleep ends, by its condition or by p->killed, which it
\* reads without ptable.lock.
SleepOver(p) == Elapsed(p) >= SleepTicks \/ killed[p]

SysSleepTest(c, p) ==
  /\ Exec(c, p) /\ op[p] = "sleep1"
  /\ \/ /\ SleepOver(p)
        /\ tlock' = NoCPU
        /\ op' = [op EXCEPT ![p] = "user"]
        /\ ticks0' = [ticks0 EXCEPT ![p] = 0]
     \/ /\ ~SleepOver(p)
        /\ op' = [op EXCEPT ![p] = "sleep2"]
        /\ UNCHANGED <<tlock, ticks0>>
  /\ UNCHANGED <<table, ctx, np, cpu, lock, ticks>>

\* sleep(&ticks, &tickslock) up to sched(): take ptable.lock, only then
\* release tickslock.
Sleep(c, p) ==
  /\ Exec(c, p) /\ op[p] = "sleep2" /\ lock = NoCPU
  /\ lock' = c
  /\ tlock' = NoCPU
  /\ chan' = [chan EXCEPT ![p] = Ticks]
  /\ state' = [state EXCEPT ![p] = "SLEEPING"]
  /\ ctx' = [ctx EXCEPT ![p] = "sleep"]
  /\ UNCHANGED <<pid, parent, killed, kstack, priority, counter, nextpid,
                 op, np, ticks0, cpu, ticks>>

\* sched() returns inside sleep: release ptable.lock, go for tickslock.
SleepWoken(c, p) ==
  /\ proc[c] = p /\ ctx[p] = "sleep" /\ state[p] = "RUNNING"
  /\ chan' = [chan EXCEPT ![p] = NULL]
  /\ lock' = NoCPU
  /\ ctx' = [ctx EXCEPT ![p] = "none"]
  /\ op' = [op EXCEPT ![p] = "sleep3"]
  /\ UNCHANGED <<state, pid, parent, killed, kstack, priority, counter, nextpid,
                 np, ticks0, cpu, clock>>

SleepRelock(c, p) ==
  /\ Exec(c, p) /\ op[p] = "sleep3" /\ tlock = NoCPU
  /\ tlock' = c
  /\ op' = [op EXCEPT ![p] = "sleep1"]
  /\ UNCHANGED <<table, ctx, np, ticks0, cpu, lock, ticks>>

-----------------------------------------------------------------------------
(* The timer interrupt in trap() *)

Timer(c) ==
  /\ IntrOn(c)
  /\ irq' = [irq EXCEPT ![c] = IF c = BootCPU THEN "tick" ELSE "yield"]
  /\ UNCHANGED <<table, thread, proc, cursor, lock, clock>>

TimerTick(c) ==
  /\ irq[c] = "tick" /\ tlock = NoCPU
  /\ tlock' = c
  /\ ticks' = (ticks + 1) % TickMod
  /\ irq' = [irq EXCEPT ![c] = "wake"]
  /\ UNCHANGED <<table, thread, proc, cursor, lock>>

TimerWake(c) ==
  /\ irq[c] = "wake" /\ lock = NoCPU
  /\ state' = [q \in Slot |-> IF q \in Sleepers(Ticks) THEN "RUNNABLE"
                              ELSE state[q]]
  /\ tlock' = NoCPU
  /\ irq' = [irq EXCEPT ![c] = "yield"]
  /\ UNCHANGED <<pid, parent, killed, chan, kstack, priority, counter, nextpid,
                 thread, proc, cursor, lock, ticks>>

\* The trap came while the scheduler was running, or while a killed process
\* was in user space, which then exits.
TimerReturn(c) ==
  /\ irq[c] = "yield"
  /\ \/ proc[c] = NULL /\ UNCHANGED op
     \/ \E p \in Slot \ {initproc} :
          /\ proc[c] = p /\ op[p] = "user" /\ killed[p]
          /\ op' = [op EXCEPT ![p] = "exit"]
  /\ irq' = [irq EXCEPT ![c] = "none"]
  /\ UNCHANGED <<table, ctx, np, ticks0, proc, cursor, lock, clock>>

\* yield(): RUNNABLE again, and into sched() with the lock.
Yield(c, p) ==
  /\ irq[c] = "yield" /\ proc[c] = p /\ lock = NoCPU
  /\ ~(op[p] = "user" /\ killed[p])
  /\ state' = [state EXCEPT ![p] = "RUNNABLE"]
  /\ ctx' = [ctx EXCEPT ![p] = "yield"]
  /\ lock' = c
  /\ irq' = [irq EXCEPT ![c] = "none"]
  /\ UNCHANGED <<pid, parent, killed, chan, kstack, priority, counter, nextpid,
                 op, np, ticks0, proc, cursor, clock>>

-----------------------------------------------------------------------------

Sched(c) == SchedEnter(c) \/ SchedDispatch(c) \/ SchedRelease(c)

Fork(c, p) == \/ ForkAlloc(c, p) \/ ForkFull(c, p) \/ ForkFail(c, p)
              \/ ForkInit(c, p) \/ ForkRun(c, p)

Wait(c, p) == WaitReap(c, p) \/ WaitFail(c, p) \/ WaitSleep(c, p)

Sleeping(c, p) == \/ SysSleep(c, p) \/ SysSleepTest(c, p) \/ Sleep(c, p)
                  \/ SleepWoken(c, p) \/ SleepRelock(c, p)

Trap(c) == TimerTick(c) \/ TimerWake(c) \/ TimerReturn(c)

Call(c, p) == \/ Fork(c, p) \/ Exit(c, p) \/ Wait(c, p)
              \/ Kill(c, p) \/ SetPriority(c, p) \/ Sleeping(c, p)

Switch(c, p) == Swtch(c, p) \/ Resume(c, p) \/ Yield(c, p)

Next ==
  \E c \in CPU :
    \/ Sched(c) \/ Timer(c) \/ Trap(c)
    \/ \E p \in Slot : Syscall(c, p) \/ Call(c, p) \/ Switch(c, p)

Spec == Init /\ [][Next]_vars

\* A trap and a switch run to their end; a pending timer interrupt is taken
\* when interrupts come on again; the time between two of them is long enough
\* for a step of the scheduler or of the system call a process is in.
\* Programs need not make calls.
Fairness ==
  \A c \in CPU :
    /\ SF_vars(Sched(c)) /\ SF_vars(Timer(c))
    /\ WF_vars(Trap(c) \/ \E p \in Slot : Switch(c, p))
    /\ \A p \in Slot : SF_vars(Call(c, p))

FairSpec == Spec /\ Fairness

-----------------------------------------------------------------------------
(* Properties *)

\* A process executes on at most one CPU, RUNNING means that some CPU
\* executes it, and a CPU executes a process in another state only on the
\* way through sched(), with ptable.lock held.  (scheduler, sched, yield,
\* sleep and exit change p->state and c->proc in different functions.)
OneCPU ==
  /\ \A c, d \in CPU : proc[c] # NULL /\ proc[c] = proc[d] => c = d
  /\ \A p \in Slot : state[p] = "RUNNING" => \E c \in CPU : proc[c] = p
  /\ \A c \in CPU : proc[c] # NULL =>
       state[proc[c]] = "RUNNING" \/ lock = c

\* The kernel stack a CPU is executing on is never freed: wait() frees the
\* stack of a ZOMBIE that is still on its way out of exit() only once the
\* scheduler has left it; and every process that can be dispatched has one.
StackInUse ==
  /\ \A c \in CPU : proc[c] # NULL => kstack[proc[c]]
  /\ \A p \in Slot :
       kstack[p] <=> \/ state[p] \notin {"UNUSED", "EMBRYO"}
                     \/ \E q \in Slot : np[q] = p /\ op[q] = "fork2"

\* The panics of sched(): whoever is inside sched(), before or after swtch,
\* runs on the CPU that holds ptable.lock, and holds no other spinlock.
SchedHolding ==
  \A c \in CPU : proc[c] # NULL /\ ctx[proc[c]] # "none" =>
    lock = c /\ tlock # c /\ irq[c] = "none"

\* A process that sleeps on &ticks although its time is up has not missed the
\* wakeup: the timer trap holds tickslock and is about to call wakeup.
NoLostTick ==
  \A p \in Slot :
    state[p] = "SLEEPING" /\ chan[p] = Ticks /\ Elapsed(p) >= SleepTicks =>
      irq[BootCPU] = "wake"

\* A process that sleeps in wait() has a child and no zombie among its
\* children: exit() never slips between the scan of the table and the sleep.
NoLostChild ==
  \A p \in Slot :
    state[p] = "SLEEPING" /\ chan[p] = p =>
      Kids(p) # {} /\ Zombies(p) = {}

\* A killed process does not sleep in wait(): kill() and the test of
\* p->killed in wait() are both made under ptable.lock.
KilledNotInWait ==
  \A p \in Slot : state[p] = "SLEEPING" /\ chan[p] = p => ~killed[p]

\* No wakeup is lost, on &ticks, in wait() or by a kill().
NoLostWakeup == NoLostTick /\ NoLostChild /\ KilledNotInWait

\* Every process that has been started, except init, has a parent that is
\* alive to wait for it; a parent is older than its children, so that the
\* chain of parents ends at init; live processes have different pids.
FamilyTree ==
  /\ \A p \in Slot \ {initproc} :
       state[p] \notin {"UNUSED", "EMBRYO"} => parent[p] # NULL
  /\ \A p \in Slot : parent[p] # NULL =>
       /\ state[parent[p]] \notin {"UNUSED", "EMBRYO", "ZOMBIE"}
       /\ pid[parent[p]] < pid[p]
  /\ \A p, q \in Slot :
       state[p] # "UNUSED" /\ state[q] # "UNUSED" /\ pid[p] = pid[q] => p = q

\* The scheduler never starts a process while one of a higher priority is
\* RUNNABLE, whatever set_priority, wakeups and the position of its loop
\* variable did in between.
NoInversion ==
  [][\A c \in CPU : proc[c] = NULL /\ proc'[c] # NULL =>
       \A r \in Runnable(state) : priority[r] <= priority[proc'[c]]]_vars

\* "Kill the process with the given pid" (kill): a slot that becomes a new
\* process does not start out killed.
BornAlive ==
  [][\A p \in Slot :
       state[p] = "UNUSED" /\ state'[p] = "EMBRYO" => ~killed'[p]]_vars

\* With equal priorities every RUNNABLE process gets a CPU: the scheduler's
\* loop goes round the table.
RunnableRuns ==
  \A p \in Slot : state[p] = "RUNNABLE" ~> state[p] = "RUNNING"

\* The process with pid n has been killed and has not exited.
KilledAlive(n) ==
  \E p \in Slot \ {initproc} :
    pid[p] = n /\ killed[p] /\ state[p] \notin {"UNUSED", "ZOMBIE"}

\* A killed process exits, wherever kill() found it: in user space, in a
\* system call, about to sleep, or asleep.
KilledExits == \A n \in PidArgs : KilledAlive(n) ~> ~KilledAlive(n)
=============================================================================
