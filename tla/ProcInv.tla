------------------------------ MODULE ProcInv -------------------------------
(***************************************************************************)
(* The inductive invariant behind the safety properties of Proc.           *)
(***************************************************************************)
EXTENDS Proc

\* What state, op and chan say of a process goes with the caller of sched()
\* it is inside of.
CtxInv ==
  \A p \in Slot :
    /\ state[p] = "RUNNABLE" => ctx[p] \in {"forkret", "yield", "wait", "sleep"}
    /\ state[p] = "SLEEPING" => ctx[p] \in {"wait", "sleep"}
    /\ state[p] = "ZOMBIE" <=> ctx[p] = "exit"
    /\ state[p] = "UNUSED" => ctx[p] = "none" /\ op[p] = "user"
    /\ state[p] = "EMBRYO" => ctx[p] \in {"none", "forkret"} /\ op[p] = "user"
    /\ ctx[p] = "forkret" => op[p] = "user"
    /\ ctx[p] = "yield" => op[p] \notin {"sleep1", "sleep2"}
    /\ ctx[p] = "wait" => op[p] = "wait"
    /\ ctx[p] = "sleep" => op[p] = "sleep2"
    /\ ctx[p] = "exit" => op[p] = "exit"
    /\ ctx[p] = "wait" => chan[p] = p
    /\ ctx[p] = "sleep" => chan[p] = Ticks
    /\ ctx[p] \notin {"wait", "sleep"} => chan[p] = NULL

\* A CPU with ptable.lock is in its scheduler or in sched(), outside traps; a
\* CPU executes only processes that have been started.
CPUInv ==
  /\ \A c \in CPU : lock = c =>
       irq[c] = "none" /\ (proc[c] # NULL => ctx[proc[c]] # "none")
  /\ \A c \in CPU : proc[c] # NULL =>
       state[proc[c]] \notin {"UNUSED", "EMBRYO"}

\* fork() owns the EMBRYO it is making, and only its second half has given
\* it a kernel stack and a parent.
ForkInv ==
  /\ \A p \in Slot : np[p] # NULL <=> op[p] \in {"fork1", "fork2"}
  /\ \A p \in Slot : np[p] # NULL =>
       state[np[p]] = "EMBRYO" /\ pid[p] < pid[np[p]]
  /\ \A p, q \in Slot : np[p] # NULL /\ np[p] = np[q] => p = q
  /\ \A p \in Slot : op[p] = "fork1" => ctx[np[p]] = "none"
  /\ \A p \in Slot : op[p] = "fork2" =>
       parent[np[p]] = p /\ ctx[np[p]] = "forkret"
  /\ \A q \in Slot : ~kstack[q] => parent[q] = NULL

\* tickslock is held by the timer trap between the increment and wakeup, or
\* by a process inside the loop of sys_sleep, whose time is not up when it
\* has decided to sleep.
TickInv ==
  /\ \A c \in CPU : irq[c] \in {"tick", "wake"} => c = BootCPU
  /\ \A c \in CPU : irq[c] = "wake" => tlock = c
  /\ \A c \in CPU, p \in Slot :
       proc[c] = p /\ ctx[p] = "none" /\ op[p] \in {"sleep1", "sleep2"} =>
         tlock = c /\ irq[c] = "none"
  /\ \A c \in CPU : tlock = c =>
       \/ irq[c] = "wake"
       \/ irq[c] = "none" /\ \E p \in Slot :
            proc[c] = p /\ ctx[p] = "none" /\ op[p] \in {"sleep1", "sleep2"}
  /\ \A p \in Slot : op[p] = "sleep2" /\ ctx[p] = "none" =>
       Elapsed(p) < SleepTicks

\* init never exits; pids are handed out in order.
InitInv ==
  /\ op[initproc] # "exit" /\ parent[initproc] = NULL /\ pid[initproc] = 1
  /\ state[initproc] \notin {"UNUSED", "EMBRYO"}
  /\ nextpid > 1
  /\ \A p \in Slot : pid[p] < nextpid
  /\ \A p \in Slot \ {initproc} : state[p] # "UNUSED" => pid[p] > 1

\* The conjunction of the safety properties and of the facts above that they
\* rest on: what every step of scheduler(), of the traps and of the system
\* calls preserves, from any state in which it holds.
IInv ==
  /\ TypeOK
  /\ OneCPU /\ StackInUse /\ SchedHolding
  /\ NoLostTick /\ NoLostChild /\ KilledNotInWait /\ FamilyTree
  /\ CtxInv /\ CPUInv /\ ForkInv /\ TickInv /\ InitInv
=============================================================================
