------------------------------ MODULE Spinlock ------------------------------
(***************************************************************************)
(* Spin locks and the nesting of interrupt disabling (spinlock.c), on CPUs *)
(* that take interrupts whose handlers use the same locks.  A CPU runs the *)
(* top of a stack of at most two frames: kernel code, and a handler that   *)
(* interrupted it.  Locks are acquired in increasing order, as the kernel  *)
(* does, and released in any order.                                        *)
(***************************************************************************)
EXTENDS Integers, FiniteSets, Sequences

CONSTANTS CPUs, Locks       \* CPUs are positive, 0 is no CPU

ASSUME SpinAssumption == CPUs \subseteq Nat \ {0} /\ Locks \subseteq Nat

VARIABLES lock,             \* locked and cpu of each lock
          cpu               \* interrupt flag, ncli, intena and frames of each CPU

svars == <<lock, cpu>>

\* A frame: where it is, the lock it works on, the locks it holds, pushcli's eflags.
NewFrame == [pc |-> "run", lk |-> 0, held |-> {}, fl |-> FALSE]

SpinInit ==
  /\ lock = [l \in Locks |-> [locked |-> FALSE, cpu |-> 0]]
  /\ cpu = [c \in CPUs |-> [if |-> TRUE, ncli |-> 0, intena |-> FALSE, frames |-> <<NewFrame>>]]

Top(c) == cpu[c].frames[Len(cpu[c].frames)]
SetTop(r, f) == [r EXCEPT !.frames[Len(r.frames)] = f]
To(c, pc) == [Top(c) EXCEPT !.pc = pc]
HeldBy(c) == UNION {cpu[c].frames[k].held : k \in DOMAIN cpu[c].frames}

holding(c, l) == lock[l].locked /\ lock[l].cpu = c

\* acquire, up to the readeflags of pushcli.
StartAcquire(c, l) ==
  /\ Top(c).pc = "run" /\ \A h \in Top(c).held : h < l
  /\ cpu' = [cpu EXCEPT ![c] = SetTop(@, [Top(c) EXCEPT !.pc = "cli", !.lk = l, !.fl = cpu[c].if])]
  /\ UNCHANGED lock

\* The CPU after the rest of pushcli, and a version that saves the flag each time.
pushcli_each(r, fl) == [r EXCEPT !.if = FALSE, !.intena = fl, !.ncli = @ + 1]
pushcli(r, fl) == [r EXCEPT !.if = FALSE, !.intena = IF r.ncli = 0 THEN fl ELSE @, !.ncli = @ + 1]

DisableInterrupts(c) ==
  /\ Top(c).pc = "cli"
  /\ cpu' = [cpu EXCEPT ![c] = SetTop(pushcli(@, Top(c).fl), To(c, "check"))]
  /\ UNCHANGED lock

\* The test that the CPU does not hold the lock already; acquire panics if it does.
CheckNotHeld(c) ==
  /\ Top(c).pc = "check" /\ ~holding(c, Top(c).lk)
  /\ cpu' = [cpu EXCEPT ![c] = SetTop(@, To(c, "xchg"))]
  /\ UNCHANGED lock

\* A round of the spin that gets the lock.
xchg(c, l) == lock[l].locked = FALSE /\ lock' = [lock EXCEPT ![l].locked = TRUE]

Spin(c) ==
  /\ Top(c).pc = "xchg"
  /\ xchg(c, Top(c).lk)
  /\ cpu' = [cpu EXCEPT ![c] = SetTop(@, [To(c, "record") EXCEPT !.held = @ \cup {Top(c).lk}])]

RecordCPU(c) ==
  /\ Top(c).pc = "record"
  /\ lock' = [lock EXCEPT ![Top(c).lk].cpu = c]
  /\ cpu' = [cpu EXCEPT ![c] = SetTop(@, To(c, "run"))]

\* release: it panics unless the CPU holds the lock.
Release(c, l) ==
  /\ Top(c).pc = "run" /\ l \in Top(c).held
  /\ holding(c, l)
  /\ lock' = [lock EXCEPT ![l].cpu = 0]
  /\ cpu' = [cpu EXCEPT ![c] = SetTop(@, [To(c, "unlock") EXCEPT !.lk = l])]

Unlock(c) ==
  /\ Top(c).pc = "unlock"
  /\ lock' = [lock EXCEPT ![Top(c).lk].locked = FALSE]
  /\ cpu' = [cpu EXCEPT ![c] = SetTop(@, [To(c, "sti") EXCEPT !.held = @ \ {Top(c).lk}])]

popcli(r) == [r EXCEPT !.ncli = @ - 1, !.if = IF r.ncli = 1 /\ r.intena THEN TRUE ELSE @]

EnableInterrupts(c) ==
  /\ Top(c).pc = "sti"
  /\ cpu' = [cpu EXCEPT ![c] = SetTop(popcli(@), To(c, "run"))]
  /\ UNCHANGED lock

\* An interrupt, when the CPU's flag allows it, and the return from it.
Interrupt(c) ==
  /\ cpu[c].if /\ Len(cpu[c].frames) = 1
  /\ cpu' = [cpu EXCEPT ![c].if = FALSE, ![c].frames = Append(@, NewFrame)]
  /\ UNCHANGED lock

Iret(c) ==
  /\ Len(cpu[c].frames) = 2 /\ Top(c).pc = "run" /\ Top(c).held = {}
  /\ cpu' = [cpu EXCEPT ![c].if = TRUE, ![c].frames = <<Head(@)>>]
  /\ UNCHANGED lock

SpinNext ==
  \E c \in CPUs :
    \/ \E l \in Locks : StartAcquire(c, l) \/ Release(c, l)
    \/ DisableInterrupts(c) \/ CheckNotHeld(c) \/ Spin(c) \/ RecordCPU(c)
    \/ Unlock(c) \/ EnableInterrupts(c) \/ Interrupt(c) \/ Iret(c)

SpinSpec == SpinInit /\ [][SpinNext]_svars

-----------------------------------------------------------------------------
\* A lock is held by one frame of one CPU, and is free when no frame holds it: xchg lets
\* in one CPU, and release opens the lock to the next.
LockExclusive ==
  \A l \in Locks :
    Cardinality({h \in CPUs \X (1..2) : h[2] <= Len(cpu[h[1]].frames) /\ l \in cpu[h[1]].frames[h[2]].held})
      = IF lock[l].locked THEN 1 ELSE 0

\* acquire never finds its own CPU in the lock and release always does, although
\* holding reads the lock while other CPUs change it: the two panics are unreachable,
\* and no handler waits for a lock that the code it interrupted holds.
HoldingExact ==
  \A c \in CPUs : /\ Top(c).pc = "check" => ~holding(c, Top(c).lk) /\ Top(c).lk \notin HeldBy(c)
                  /\ Top(c).pc = "run" => \A l \in Top(c).held : holding(c, l)

\* pushcli and popcli match: interrupts are off while a lock is held, and on again in
\* kernel code that has released its locks, in whatever order it did.
InterruptsBack ==
  \A c \in CPUs : /\ HeldBy(c) # {} => ~cpu[c].if
                  /\ Len(cpu[c].frames) = 1 /\ Top(c).pc = "run" /\ HeldBy(c) = {}
                       => cpu[c].if /\ cpu[c].ncli = 0

\* acquire and release: one owner, known to holding(), with interrupts off for as long.
LocksExact == LockExclusive /\ HoldingExact /\ InterruptsBack
=============================================================================
