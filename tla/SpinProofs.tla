----------------------------- MODULE SpinProofs -----------------------------
(***************************************************************************)
(* acquire and release exclude, for all sets of CPUs and of locks, with    *)
(* interrupt handlers that take locks too.  The invariant relates ncli, the*)
(* interrupt flag and the saved flag of a CPU to the locks its running     *)
(* frame holds, and the fields of a lock to the frame that holds it.       *)
(***************************************************************************)
EXTENDS Spinlock, FiniteSetTheorems, TLAPS

\* Where a frame can be in acquire and release, and the types of frames and CPUs.
Points == {"run", "cli", "check", "xchg", "record", "unlock", "sti"}
Frame == [pc : Points, lk : Locks \cup {0}, held : SUBSET Locks, fl : BOOLEAN]

Cpu == [if : BOOLEAN, ncli : Nat, intena : BOOLEAN, frames : Seq(Frame)]

\* The frames of a CPU: kernel code, and a handler on top of it.
Depth(c) == Len(cpu[c].frames)
Base(c) == cpu[c].frames[1]

\* The types of the locks and of the CPUs.
SpinOK ==
  /\ lock \in [Locks -> [locked : BOOLEAN, cpu : CPUs \cup {0}]]
  /\ cpu \in [CPUs -> Cpu]
  /\ \A c \in CPUs : Depth(c) \in {1, 2}

\* The frame that runs and the lock it works on.
TopInv(c) ==
  /\ IsFiniteSet(Top(c).held)
  /\ Top(c).pc # "run" => Top(c).lk \in Locks
  /\ Top(c).pc \in {"cli", "check", "xchg"} => Top(c).lk \notin Top(c).held
  /\ Top(c).pc \in {"record", "unlock"} => Top(c).lk \in Top(c).held

\* ncli counts the locks the frame holds, and the one it is about to take or has given back.
CliInv(c) ==
  cpu[c].ncli = Cardinality(Top(c).held) + IF Top(c).pc \in {"check", "xchg", "sti"} THEN 1 ELSE 0

\* The interrupt flag, what pushcli saved of it, and the frame a handler has interrupted.
FlagInv(c) ==
  /\ Depth(c) = 1 => /\ cpu[c].if <=> cpu[c].ncli = 0
                     /\ cpu[c].ncli > 0 => cpu[c].intena
                     /\ Top(c).pc = "cli" => (Top(c).fl <=> cpu[c].ncli = 0)
  /\ Depth(c) = 2 => /\ ~cpu[c].if /\ (cpu[c].ncli > 0 => ~cpu[c].intena)
                     /\ Top(c).pc = "cli" => ~Top(c).fl
                     /\ Base(c).held = {} /\ Base(c).pc \in {"run", "cli"}
                     /\ Base(c).pc = "cli" => Base(c).lk \in Locks /\ Base(c).fl

CpuInv(c) == TopInv(c) /\ CliInv(c) /\ FlagInv(c)

\* Who holds a lock, and when the lock says so.
OwnerInv ==
  \A l \in Locks :
    /\ lock[l].locked <=> \E c \in CPUs : l \in Top(c).held
    /\ \A c, d \in CPUs : l \in Top(c).held /\ l \in Top(d).held => c = d
    /\ \A c \in CPUs : lock[l].cpu = c <=> /\ l \in Top(c).held
                                           /\ ~(Top(c).pc \in {"record", "unlock"} /\ Top(c).lk = l)

\* The inductive invariant: it says of every CPU which locks the running frame holds and
\* what ncli and the flag are, and of every lock which CPU its fields name.
SpinInv == SpinOK /\ (\A c \in CPUs : CpuInv(c)) /\ OwnerInv

\* One or two frames: the frame the CPU runs is the last, and replacing it
\* leaves the other.
LEMMA LastFrame ==
  ASSUME NEW S, NEW s \in Seq(S), Len(s) \in {1, 2}, NEW f \in S
  PROVE  /\ s[1] \in S /\ s[Len(s)] \in S
         /\ [s EXCEPT ![Len(s)] = f] \in Seq(S) /\ Len([s EXCEPT ![Len(s)] = f]) = Len(s)
         /\ [s EXCEPT ![Len(s)] = f][Len(s)] = f
         /\ Len(s) = 2 => [s EXCEPT ![Len(s)] = f][1] = s[1]
<1>1. Len(s) \in Nat /\ DOMAIN s = 1..Len(s) /\ \A i \in 1..Len(s) : s[i] \in S
  OBVIOUS
<1>2. 1 \in 1..Len(s) /\ Len(s) \in 1..Len(s)
  BY <1>1
<1>3. s[1] \in S /\ s[Len(s)] \in S
  BY Zenon, <1>1, <1>2
<1> DEFINE t == [s EXCEPT ![Len(s)] = f]
<1>4. t = [i \in 1..Len(s) |-> IF i = Len(s) THEN f ELSE s[i]]
  BY <1>1, Zenon
<1>5. t \in [1..Len(s) -> S]
  BY <1>1, <1>4, Zenon
<1>6. t \in Seq(S) /\ Len(t) = Len(s)
  BY <1>1, <1>5
<1> HIDE DEF t
<1>7. t[Len(s)] = f /\ (Len(s) = 2 => t[1] = s[1])
  BY <1>2, <1>4
<1>8. QED BY Zenon, <1>3, <1>6, <1>7 DEF t

\* The stack of a handler's frame on the frame it interrupted.
LEMMA PushFrame ==
  ASSUME NEW S, NEW x \in S, NEW s \in Seq(S), Len(s) = 1
  PROVE  /\ Append(s, x) \in Seq(S) /\ Len(Append(s, x)) = 2
         /\ Append(s, x)[2] = x /\ Append(s, x)[1] = s[1]
OBVIOUS

\* The types of a CPU and of the frame it runs.
LEMMA CpuTypes ==
  ASSUME SpinInv, NEW c \in CPUs
  PROVE  /\ cpu[c] \in Cpu /\ Depth(c) \in {1, 2} /\ Top(c) \in Frame /\ Base(c) \in Frame
         /\ cpu[c].if \in BOOLEAN /\ cpu[c].ncli \in Nat /\ cpu[c].intena \in BOOLEAN
         /\ cpu[c].frames \in Seq(Frame)
         /\ Top(c).pc \in Points /\ Top(c).lk \in Locks \cup {0} /\ Top(c).held \in SUBSET Locks
         /\ Top(c).fl \in BOOLEAN
         /\ CpuInv(c)
<1>1. cpu[c] \in Cpu /\ Depth(c) \in {1, 2} /\ CpuInv(c)
  BY Zenon DEF SpinInv, SpinOK
<1>2. /\ cpu[c].if \in BOOLEAN /\ cpu[c].ncli \in Nat /\ cpu[c].intena \in BOOLEAN
      /\ cpu[c].frames \in Seq(Frame)
  BY Zenon, <1>1 DEF Cpu
<1>3. Top(c) \in Frame /\ Base(c) \in Frame
  BY <1>1, <1>2, LastFrame DEF Top, Base, Depth
<1>4. QED BY Zenon, <1>1, <1>2, <1>3 DEF Frame

\* A step of a CPU that replaces the frame it runs and leaves the one below alone.
LEMMA SetTopIs ==
  ASSUME SpinInv, NEW c \in CPUs, NEW r \in Cpu, r.frames = cpu[c].frames, NEW f \in Frame,
         cpu' = [cpu EXCEPT ![c] = SetTop(r, f)]
  PROVE  /\ cpu' \in [CPUs -> Cpu] /\ \A d \in CPUs : Depth(d)' = Depth(d)
         /\ Top(c)' = f /\ (Depth(c) = 2 => Base(c)' = Base(c))
         /\ cpu'[c].if = r.if /\ cpu'[c].ncli = r.ncli /\ cpu'[c].intena = r.intena
         /\ \A d \in CPUs : d # c => cpu'[d] = cpu[d] /\ Top(d)' = Top(d)
<1> DEFINE s == cpu[c].frames
           t == [s EXCEPT ![Len(s)] = f]
<1>0. cpu \in [CPUs -> Cpu] /\ s \in Seq(Frame) /\ Len(s) \in {1, 2}
  BY Zenon, CpuTypes DEF SpinInv, SpinOK, Depth
<1>1. t \in Seq(Frame) /\ Len(t) = Len(s) /\ t[Len(s)] = f /\ (Len(s) = 2 => t[1] = s[1])
  BY <1>0, LastFrame
<1>2. SetTop(r, f) = [r EXCEPT !.frames = t]
  BY Zenon DEF SetTop
<1> HIDE DEF t
<1>3. /\ SetTop(r, f) \in Cpu /\ SetTop(r, f).frames = t /\ SetTop(r, f).if = r.if
      /\ SetTop(r, f).ncli = r.ncli /\ SetTop(r, f).intena = r.intena
  BY Zenon, <1>1, <1>2 DEF Cpu
<1>4. /\ cpu' \in [CPUs -> Cpu] /\ cpu'[c] = SetTop(r, f) /\ cpu'[c].frames = t
      /\ \A d \in CPUs : d # c => cpu'[d] = cpu[d]
  BY Zenon, <1>0, <1>3
<1>5. Depth(c)' = Depth(c) /\ Top(c)' = f /\ (Depth(c) = 2 => Base(c)' = Base(c))
  BY Zenon, <1>1, <1>4 DEF Depth, Top, Base
<1>6. \A d \in CPUs : d # c => Depth(d)' = Depth(d) /\ Top(d)' = Top(d)
  BY Zenon, <1>4 DEF Depth, Top
<1>7. QED BY Zenon, <1>3, <1>4, <1>5, <1>6

\* The invariant of the other CPUs.
LEMMA OthersSame ==
  ASSUME SpinInv, NEW d \in CPUs, cpu'[d] = cpu[d]
  PROVE  CpuInv(d)'
<1>1. CpuInv(d)
  BY Zenon DEF SpinInv
<1>2. Top(d)' = Top(d) /\ Depth(d)' = Depth(d) /\ Base(d)' = Base(d)
  BY Zenon DEF Top, Depth, Base
<1>3. QED BY Zenon, <1>1, <1>2 DEF CpuInv, TopInv, CliInv, FlagInv

\* What a step of one CPU has to show.
LEMMA StepInv ==
  ASSUME SpinInv, NEW c \in CPUs, cpu' \in [CPUs -> Cpu], \A d \in CPUs : Depth(d)' \in {1, 2},
         \A d \in CPUs : d # c => cpu'[d] = cpu[d],
         lock' \in [Locks -> [locked : BOOLEAN, cpu : CPUs \cup {0}]],
         CpuInv(c)', OwnerInv'
  PROVE  SpinInv'
<1>1. SpinOK'
  BY Zenon DEF SpinOK
<1>2. \A d \in CPUs : CpuInv(d)'
  BY Zenon, OthersSame
<1>3. QED BY Zenon, <1>1, <1>2 DEF SpinInv

\* A step that changes neither the locks nor who holds them.
LEMMA OwnerSame ==
  ASSUME SpinInv, NEW c \in CPUs, lock' = lock, Top(c)'.held = Top(c).held,
         Top(c).pc \notin {"record", "unlock"}, Top(c)'.pc \notin {"record", "unlock"},
         \A d \in CPUs : d # c => Top(d)' = Top(d)
  PROVE  OwnerInv' /\ lock' \in [Locks -> [locked : BOOLEAN, cpu : CPUs \cup {0}]]
<1>1. \A d \in CPUs : Top(d)'.held = Top(d).held
  OBVIOUS
<1>2. \A d \in CPUs, l \in Locks : (Top(d)'.pc \in {"record", "unlock"} /\ Top(d)'.lk = l)
                                     <=> (Top(d).pc \in {"record", "unlock"} /\ Top(d).lk = l)
  OBVIOUS
<1>3. QED BY <1>1, <1>2 DEF SpinInv, SpinOK, OwnerInv

\* acquire's first steps: they touch the frame only.
LEMMA StartAcquireInv ==
  ASSUME SpinInv, NEW c \in CPUs, NEW l \in Locks, StartAcquire(c, l)
  PROVE  SpinInv'
<1> DEFINE f == [Top(c) EXCEPT !.pc = "cli", !.lk = l, !.fl = cpu[c].if]
<1>0. cpu' = [cpu EXCEPT ![c] = SetTop(cpu[c], f)] /\ lock' = lock /\ Top(c).pc = "run"
  BY Zenon DEF StartAcquire, SpinInv, SpinOK
<1>1. f \in Frame /\ f.pc = "cli" /\ f.lk = l /\ f.held = Top(c).held /\ f.fl = cpu[c].if
  BY CpuTypes, Zenon DEF Frame, Points
<1>2. l \notin Top(c).held
  BY CpuTypes, SpinAssumption DEF StartAcquire
<1> HIDE DEF f
<1>3. cpu[c] \in Cpu
  BY Zenon, CpuTypes
<1>4. /\ cpu' \in [CPUs -> Cpu] /\ \A d \in CPUs : Depth(d)' = Depth(d)
      /\ Top(c)' = f /\ (Depth(c) = 2 => Base(c)' = Base(c))
      /\ cpu'[c].if = cpu[c].if /\ cpu'[c].ncli = cpu[c].ncli /\ cpu'[c].intena = cpu[c].intena
      /\ \A d \in CPUs : d # c => cpu'[d] = cpu[d] /\ Top(d)' = Top(d)
  BY <1>0, <1>1, <1>3, SetTopIs, Zenon
<1>5. TopInv(c)' /\ CliInv(c)'
  BY Zenon, <1>0, <1>1, <1>2, <1>4, CpuTypes DEF CpuInv, TopInv, CliInv
<1>6. FlagInv(c)'
  BY <1>0, <1>1, <1>4, CpuTypes DEF CpuInv, FlagInv
<1>7. OwnerInv' /\ lock' \in [Locks -> [locked : BOOLEAN, cpu : CPUs \cup {0}]]
  BY Zenon, <1>0, <1>1, <1>4, OwnerSame
<1>8. QED BY Zenon, <1>4, <1>5, <1>6, <1>7, StepInv, CpuTypes DEF CpuInv

\* The cli of pushcli: the flag is saved by the outermost pushcli only.
LEMMA DisableInv ==
  ASSUME SpinInv, NEW c \in CPUs, DisableInterrupts(c)
  PROVE  SpinInv'
<1> DEFINE f == To(c, "check")
           r == pushcli(cpu[c], Top(c).fl)
<1>0. cpu' = [cpu EXCEPT ![c] = SetTop(r, f)] /\ lock' = lock /\ Top(c).pc = "cli"
  BY Zenon DEF DisableInterrupts, SpinInv, SpinOK
<1>1. f \in Frame /\ f.pc = "check" /\ f.lk = Top(c).lk /\ f.held = Top(c).held /\ f.fl = Top(c).fl
  BY Zenon, CpuTypes DEF Frame, Points, To
<1>2. /\ r \in Cpu /\ r.frames = cpu[c].frames /\ r.if = FALSE /\ r.ncli = cpu[c].ncli + 1
      /\ r.intena = IF cpu[c].ncli = 0 THEN Top(c).fl ELSE cpu[c].intena
  <2>1. /\ cpu[c] \in Cpu /\ cpu[c].ncli + 1 \in Nat
        /\ (IF cpu[c].ncli = 0 THEN Top(c).fl ELSE cpu[c].intena) \in BOOLEAN
    BY CpuTypes
  <2>2. QED BY <2>1, Zenon DEF Cpu, pushcli
<1> HIDE DEF f, r
<1>3. /\ cpu' \in [CPUs -> Cpu] /\ \A d \in CPUs : Depth(d)' = Depth(d)
      /\ Top(c)' = f /\ (Depth(c) = 2 => Base(c)' = Base(c))
      /\ cpu'[c].if = r.if /\ cpu'[c].ncli = r.ncli /\ cpu'[c].intena = r.intena
      /\ \A d \in CPUs : d # c => cpu'[d] = cpu[d] /\ Top(d)' = Top(d)
  BY <1>0, <1>1, <1>2, SetTopIs, Zenon
<1>4. TopInv(c)'
  BY Zenon, <1>0, <1>1, <1>3, CpuTypes DEF CpuInv, TopInv
<1>5. CliInv(c)'
  <2>1. Cardinality(Top(c).held) \in Nat /\ cpu[c].ncli = Cardinality(Top(c).held) + 0
    BY Zenon, <1>0, CpuTypes, FS_CardinalityType DEF CpuInv, TopInv, CliInv
  <2>2. QED BY <2>1, <1>1, <1>2, <1>3 DEF CliInv
<1>6. FlagInv(c)'
  BY <1>0, <1>1, <1>2, <1>3, CpuTypes DEF CpuInv, FlagInv
<1>7. OwnerInv' /\ lock' \in [Locks -> [locked : BOOLEAN, cpu : CPUs \cup {0}]]
  BY Zenon, <1>0, <1>1, <1>3, OwnerSame
<1>8. QED BY Zenon, <1>3, <1>4, <1>6, <1>7, <1>5, StepInv, CpuTypes DEF CpuInv

\* acquire's test of holding() passes: the lock is not held by this CPU.
LEMMA CheckInv ==
  ASSUME SpinInv, NEW c \in CPUs, CheckNotHeld(c)
  PROVE  SpinInv'
<1> DEFINE f == To(c, "xchg")
<1>0. cpu' = [cpu EXCEPT ![c] = SetTop(cpu[c], f)] /\ lock' = lock /\ Top(c).pc = "check"
  BY Zenon DEF CheckNotHeld, SpinInv, SpinOK
<1>1. f \in Frame /\ f.pc = "xchg" /\ f.lk = Top(c).lk /\ f.held = Top(c).held /\ f.fl = Top(c).fl
  BY Zenon, CpuTypes DEF Frame, Points, To
<1> HIDE DEF f
<1>2. cpu[c] \in Cpu
  BY Zenon, CpuTypes
<1>3. /\ cpu' \in [CPUs -> Cpu] /\ \A d \in CPUs : Depth(d)' = Depth(d)
      /\ Top(c)' = f /\ (Depth(c) = 2 => Base(c)' = Base(c))
      /\ cpu'[c].if = cpu[c].if /\ cpu'[c].ncli = cpu[c].ncli /\ cpu'[c].intena = cpu[c].intena
      /\ \A d \in CPUs : d # c => cpu'[d] = cpu[d] /\ Top(d)' = Top(d)
  BY <1>0, <1>1, <1>2, SetTopIs, Zenon
<1>4. TopInv(c)' /\ CliInv(c)'
  BY Zenon, <1>0, <1>1, <1>3, CpuTypes DEF CpuInv, TopInv, CliInv
<1>5. FlagInv(c)'
  BY <1>0, <1>1, <1>3, CpuTypes DEF CpuInv, FlagInv
<1>6. OwnerInv' /\ lock' \in [Locks -> [locked : BOOLEAN, cpu : CPUs \cup {0}]]
  BY Zenon, <1>0, <1>1, <1>3, OwnerSame
<1>7. QED BY Zenon, <1>3, <1>4, <1>5, <1>6, StepInv, CpuTypes DEF CpuInv

\* The lock's fields after a step that sets one of them.
LEMMA LockSet ==
  ASSUME SpinInv, NEW l \in Locks, NEW r \in [locked : BOOLEAN, cpu : CPUs \cup {0}],
         lock' = [lock EXCEPT ![l] = r]
  PROVE  /\ lock' \in [Locks -> [locked : BOOLEAN, cpu : CPUs \cup {0}]]
         /\ lock'[l] = r /\ \A k \in Locks : k # l => lock'[k] = lock[k]
BY Zenon DEF SpinInv, SpinOK

\* The xchg that finds the lock free makes its CPU the only owner.
LEMMA SpinStepInv ==
  ASSUME SpinInv, NEW c \in CPUs, Spin(c)
  PROVE  SpinInv'
<1> DEFINE l == Top(c).lk
           f == [To(c, "record") EXCEPT !.held = @ \cup {l}]
           q == [lock[l] EXCEPT !.locked = TRUE]
<1>0. /\ cpu' = [cpu EXCEPT ![c] = SetTop(cpu[c], f)] /\ Top(c).pc = "xchg"
      /\ lock[l].locked = FALSE /\ lock' = [lock EXCEPT ![l] = q]
  BY Zenon DEF Spin, xchg, SpinInv, SpinOK
<1>1. l \in Locks /\ l \notin Top(c).held /\ IsFiniteSet(Top(c).held)
  BY Zenon, <1>0, CpuTypes DEF CpuInv, TopInv
<1>2. f \in Frame /\ f.pc = "record" /\ f.lk = l /\ f.held = Top(c).held \cup {l} /\ f.fl = Top(c).fl
  BY <1>1, CpuTypes, Zenon DEF Frame, Points, To
<1>3. q \in [locked : BOOLEAN, cpu : CPUs \cup {0}] /\ q.locked = TRUE /\ q.cpu = lock[l].cpu
  BY <1>1, Zenon DEF SpinInv, SpinOK
<1> HIDE DEF f, q, l
<1>4. /\ lock' \in [Locks -> [locked : BOOLEAN, cpu : CPUs \cup {0}]]
      /\ lock'[l] = q /\ \A k \in Locks : k # l => lock'[k] = lock[k]
  BY <1>0, <1>3, <1>1, LockSet, Zenon
<1>5. cpu[c] \in Cpu
  BY Zenon, CpuTypes
<1>6. /\ cpu' \in [CPUs -> Cpu] /\ \A d \in CPUs : Depth(d)' = Depth(d)
      /\ Top(c)' = f /\ (Depth(c) = 2 => Base(c)' = Base(c))
      /\ cpu'[c].if = cpu[c].if /\ cpu'[c].ncli = cpu[c].ncli /\ cpu'[c].intena = cpu[c].intena
      /\ \A d \in CPUs : d # c => cpu'[d] = cpu[d] /\ Top(d)' = Top(d)
  BY <1>0, <1>2, <1>5, SetTopIs, Zenon
<1>7. TopInv(c)'
  BY <1>0, <1>2, <1>6, <1>1, FS_AddElement DEF TopInv
<1>8. CliInv(c)'
  <2>1. cpu[c].ncli = Cardinality(Top(c).held) + 1
    BY Zenon, <1>0, CpuTypes DEF CpuInv, CliInv
  <2>2. Cardinality(f.held) = Cardinality(Top(c).held) + 1 /\ Cardinality(f.held) \in Nat
    BY <1>2, <1>1, FS_AddElement, FS_CardinalityType
  <2>3. cpu'[c].ncli = Cardinality(f.held) + 0 /\ f.pc = "record"
    BY <2>1, <2>2, <1>2, <1>6
  <2>4. QED BY Zenon, <2>3, <1>6 DEF CliInv
<1>9. FlagInv(c)'
  BY <1>0, <1>2, <1>6, CpuTypes DEF CpuInv, FlagInv
<1>10. OwnerInv'
  <2>1. \A d \in CPUs : l \notin Top(d).held /\ lock[l].cpu # d
    BY <1>0, <1>1 DEF SpinInv, OwnerInv
  <2>2. \A d \in CPUs : (l \in Top(d)'.held) <=> d = c
    BY Zenon, <2>1, <1>2, <1>6
  <2>3. \A k \in Locks \ {l}, d \in CPUs :
          /\ k \in Top(d)'.held <=> k \in Top(d).held
          /\ (Top(d)'.pc \in {"record", "unlock"} /\ Top(d)'.lk = k)
               <=> (Top(d).pc \in {"record", "unlock"} /\ Top(d).lk = k)
    BY Zenon, <1>0, <1>2, <1>6
  <2>4. \A k \in Locks : k # l => lock'[k] = lock[k]
    BY Zenon, <1>4
  <2>5. lock'[l].locked = TRUE /\ lock'[l].cpu = lock[l].cpu /\ Top(c)'.pc = "record" /\ Top(c)'.lk = l
    BY Zenon, <1>2, <1>3, <1>6, <1>4
  <2>6. QED BY <2>1, <2>2, <2>3, <2>4, <2>5 DEF SpinInv, OwnerInv
<1>11. QED BY Zenon, <1>6, <1>7, <1>9, <1>10, <1>4, <1>8, StepInv, CpuTypes DEF CpuInv

\* acquire writes the lock's cpu: from now on holding() finds it.
LEMMA RecordInv ==
  ASSUME SpinInv, NEW c \in CPUs, RecordCPU(c)
  PROVE  SpinInv'
<1> DEFINE l == Top(c).lk
           f == To(c, "run")
           q == [lock[l] EXCEPT !.cpu = c]
<1>0. /\ cpu' = [cpu EXCEPT ![c] = SetTop(cpu[c], f)] /\ Top(c).pc = "record"
      /\ lock' = [lock EXCEPT ![l] = q]
  BY Zenon DEF RecordCPU, SpinInv, SpinOK
<1>1. l \in Locks /\ l \in Top(c).held /\ IsFiniteSet(Top(c).held)
  BY Zenon, <1>0, CpuTypes DEF CpuInv, TopInv
<1>2. f \in Frame /\ f.pc = "run" /\ f.lk = l /\ f.held = Top(c).held /\ f.fl = Top(c).fl
  BY Zenon, <1>1, CpuTypes DEF Frame, Points, To
<1>3. q \in [locked : BOOLEAN, cpu : CPUs \cup {0}] /\ q.locked = lock[l].locked /\ q.cpu = c
  BY Zenon, <1>1 DEF SpinInv, SpinOK
<1> HIDE DEF f, q, l
<1>4. /\ lock' \in [Locks -> [locked : BOOLEAN, cpu : CPUs \cup {0}]]
      /\ lock'[l] = q /\ \A k \in Locks : k # l => lock'[k] = lock[k]
  BY <1>0, <1>3, <1>1, LockSet, Zenon
<1>5. cpu[c] \in Cpu
  BY Zenon, CpuTypes
<1>6. /\ cpu' \in [CPUs -> Cpu] /\ \A d \in CPUs : Depth(d)' = Depth(d)
      /\ Top(c)' = f /\ (Depth(c) = 2 => Base(c)' = Base(c))
      /\ cpu'[c].if = cpu[c].if /\ cpu'[c].ncli = cpu[c].ncli /\ cpu'[c].intena = cpu[c].intena
      /\ \A d \in CPUs : d # c => cpu'[d] = cpu[d] /\ Top(d)' = Top(d)
  BY <1>0, <1>2, <1>5, SetTopIs, Zenon
<1>7. TopInv(c)' /\ CliInv(c)'
  BY Zenon, <1>0, <1>2, <1>6, <1>1, CpuTypes DEF CpuInv, TopInv, CliInv
<1>8. FlagInv(c)'
  BY <1>0, <1>2, <1>6, CpuTypes DEF CpuInv, FlagInv
<1>9. OwnerInv'
  <2>1. \A d \in CPUs : l \in Top(d).held <=> d = c
    BY Zenon, <1>1 DEF SpinInv, OwnerInv
  <2>2. \A k \in Locks, d \in CPUs : k \in Top(d)'.held <=> k \in Top(d).held
    BY Zenon, <1>2, <1>6
  <2>3. \A k \in Locks \ {l}, d \in CPUs :
          (Top(d)'.pc \in {"record", "unlock"} /\ Top(d)'.lk = k)
               <=> (Top(d).pc \in {"record", "unlock"} /\ Top(d).lk = k)
    BY Zenon, <1>0, <1>2, <1>6 DEF l
  <2>4. \A k \in Locks : k # l => lock'[k] = lock[k]
    BY Zenon, <1>4
  <2>5. lock'[l].locked = lock[l].locked /\ lock'[l].cpu = c /\ Top(c)'.pc = "run"
    BY Zenon, <1>2, <1>3, <1>6, <1>4
  <2>6. QED BY <2>1, <2>2, <2>3, <2>4, <2>5 DEF SpinInv, OwnerInv
<1>10. QED BY Zenon, <1>6, <1>7, <1>8, <1>9, <1>4, StepInv, CpuTypes DEF CpuInv

\* release clears the lock's cpu, which it found with holding(), before it opens the lock.
LEMMA ReleaseInv ==
  ASSUME SpinInv, NEW c \in CPUs, NEW l \in Locks, Release(c, l)
  PROVE  SpinInv'
<1> DEFINE f == [To(c, "unlock") EXCEPT !.lk = l]
           q == [lock[l] EXCEPT !.cpu = 0]
<1>0. /\ cpu' = [cpu EXCEPT ![c] = SetTop(cpu[c], f)] /\ Top(c).pc = "run" /\ l \in Top(c).held
      /\ lock' = [lock EXCEPT ![l] = q]
  BY Zenon DEF Release, SpinInv, SpinOK
<1>1. f \in Frame /\ f.pc = "unlock" /\ f.lk = l /\ f.held = Top(c).held /\ f.fl = Top(c).fl
  BY CpuTypes, Zenon DEF Frame, Points, To
<1>2. q \in [locked : BOOLEAN, cpu : CPUs \cup {0}] /\ q.locked = lock[l].locked /\ q.cpu = 0
  BY Zenon DEF SpinInv, SpinOK
<1> HIDE DEF f, q
<1>3. /\ lock' \in [Locks -> [locked : BOOLEAN, cpu : CPUs \cup {0}]]
      /\ lock'[l] = q /\ \A k \in Locks : k # l => lock'[k] = lock[k]
  BY <1>0, <1>2, LockSet, Zenon
<1>4. cpu[c] \in Cpu
  BY Zenon, CpuTypes
<1>5. /\ cpu' \in [CPUs -> Cpu] /\ \A d \in CPUs : Depth(d)' = Depth(d)
      /\ Top(c)' = f /\ (Depth(c) = 2 => Base(c)' = Base(c))
      /\ cpu'[c].if = cpu[c].if /\ cpu'[c].ncli = cpu[c].ncli /\ cpu'[c].intena = cpu[c].intena
      /\ \A d \in CPUs : d # c => cpu'[d] = cpu[d] /\ Top(d)' = Top(d)
  BY <1>0, <1>1, <1>4, SetTopIs, Zenon
<1>6. TopInv(c)' /\ CliInv(c)'
  BY Zenon, <1>0, <1>1, <1>5, CpuTypes DEF CpuInv, TopInv, CliInv
<1>7. FlagInv(c)'
  BY <1>0, <1>1, <1>5, CpuTypes DEF CpuInv, FlagInv
<1>8. OwnerInv'
  <2>1. \A d \in CPUs : (l \in Top(d).held <=> d = c) /\ d # 0
    BY Zenon, <1>0, SpinAssumption DEF SpinInv, OwnerInv
  <2>2. \A k \in Locks, d \in CPUs : k \in Top(d)'.held <=> k \in Top(d).held
    BY Zenon, <1>1, <1>5
  <2>3. \A k \in Locks \ {l}, d \in CPUs :
          (Top(d)'.pc \in {"record", "unlock"} /\ Top(d)'.lk = k)
               <=> (Top(d).pc \in {"record", "unlock"} /\ Top(d).lk = k)
    BY Zenon, <1>0, <1>1, <1>5
  <2>4. \A k \in Locks : k # l => lock'[k] = lock[k]
    BY Zenon, <1>3
  <2>5. /\ lock'[l].locked = lock[l].locked /\ lock'[l].cpu = 0
        /\ Top(c)'.pc = "unlock" /\ Top(c)'.lk = l
    BY Zenon, <1>1, <1>2, <1>5, <1>3
  <2>6. QED BY <2>1, <2>2, <2>3, <2>4, <2>5 DEF SpinInv, OwnerInv
<1>9. QED BY Zenon, <1>5, <1>6, <1>7, <1>8, <1>3, StepInv, CpuTypes DEF CpuInv

\* The store that opens the lock: no CPU holds it.
LEMMA UnlockInv ==
  ASSUME SpinInv, NEW c \in CPUs, Unlock(c)
  PROVE  SpinInv'
<1> DEFINE l == Top(c).lk
           f == [To(c, "sti") EXCEPT !.held = @ \ {l}]
           q == [lock[l] EXCEPT !.locked = FALSE]
<1>0. /\ cpu' = [cpu EXCEPT ![c] = SetTop(cpu[c], f)] /\ Top(c).pc = "unlock"
      /\ lock' = [lock EXCEPT ![l] = q]
  BY Zenon DEF Unlock, SpinInv, SpinOK
<1>1. l \in Locks /\ l \in Top(c).held /\ IsFiniteSet(Top(c).held)
  BY Zenon, <1>0, CpuTypes DEF CpuInv, TopInv
<1>2. f \in Frame /\ f.pc = "sti" /\ f.lk = l /\ f.held = Top(c).held \ {l} /\ f.fl = Top(c).fl
  BY <1>1, CpuTypes, Zenon DEF Frame, Points, To
<1>3. q \in [locked : BOOLEAN, cpu : CPUs \cup {0}] /\ q.locked = FALSE /\ q.cpu = lock[l].cpu
  BY <1>1, Zenon DEF SpinInv, SpinOK
<1>4. \A d \in CPUs : (l \in Top(d).held <=> d = c) /\ lock[l].cpu # d
  BY <1>0, <1>1 DEF SpinInv, OwnerInv
<1> HIDE DEF f, q, l
<1>5. /\ lock' \in [Locks -> [locked : BOOLEAN, cpu : CPUs \cup {0}]]
      /\ lock'[l] = q /\ \A k \in Locks : k # l => lock'[k] = lock[k]
  BY <1>0, <1>3, <1>1, LockSet, Zenon
<1>6. cpu[c] \in Cpu
  BY Zenon, CpuTypes
<1>7. /\ cpu' \in [CPUs -> Cpu] /\ \A d \in CPUs : Depth(d)' = Depth(d)
      /\ Top(c)' = f /\ (Depth(c) = 2 => Base(c)' = Base(c))
      /\ cpu'[c].if = cpu[c].if /\ cpu'[c].ncli = cpu[c].ncli /\ cpu'[c].intena = cpu[c].intena
      /\ \A d \in CPUs : d # c => cpu'[d] = cpu[d] /\ Top(d)' = Top(d)
  BY <1>0, <1>2, <1>6, SetTopIs, Zenon
<1>8. TopInv(c)'
  BY <1>0, <1>2, <1>7, <1>1, FS_RemoveElement DEF TopInv
<1>9. CliInv(c)'
  <2>1. cpu[c].ncli = Cardinality(Top(c).held) + 0
    BY Zenon, <1>0, CpuTypes DEF CpuInv, CliInv
  <2>2. /\ Cardinality(f.held) = Cardinality(Top(c).held) - 1
        /\ Cardinality(f.held) \in Nat /\ Cardinality(Top(c).held) \in Nat
    BY <1>2, <1>1, FS_RemoveElement, FS_CardinalityType
  <2>3. cpu'[c].ncli = Cardinality(f.held) + 1 /\ f.pc = "sti"
    BY <2>1, <2>2, <1>2, <1>7
  <2>4. QED BY Zenon, <2>3, <1>7 DEF CliInv
<1>10. FlagInv(c)'
  BY <1>0, <1>2, <1>7, CpuTypes DEF CpuInv, FlagInv
<1>11. OwnerInv'
  <2>1. \A d \in CPUs : l \notin Top(d)'.held
    BY Zenon, <1>2, <1>7, <1>4
  <2>2. \A k \in Locks \ {l}, d \in CPUs :
          /\ k \in Top(d)'.held <=> k \in Top(d).held
          /\ (Top(d)'.pc \in {"record", "unlock"} /\ Top(d)'.lk = k)
               <=> (Top(d).pc \in {"record", "unlock"} /\ Top(d).lk = k)
    BY Zenon, <1>0, <1>2, <1>7 DEF l
  <2>3. \A k \in Locks : k # l => lock'[k] = lock[k]
    BY Zenon, <1>5
  <2>4. lock'[l].locked = FALSE /\ lock'[l].cpu = lock[l].cpu
    BY Zenon, <1>3, <1>5
  <2>5. QED BY <1>4, <2>1, <2>2, <2>3, <2>4 DEF SpinInv, OwnerInv
<1>12. QED BY Zenon, <1>7, <1>8, <1>10, <1>11, <1>5, <1>9, StepInv, CpuTypes DEF CpuInv

\* popcli: the flag comes back with the last popcli, if it was on at the first pushcli.
LEMMA EnableInv ==
  ASSUME SpinInv, NEW c \in CPUs, EnableInterrupts(c)
  PROVE  SpinInv'
<1> DEFINE f == To(c, "run")
           r == popcli(cpu[c])
<1>0. cpu' = [cpu EXCEPT ![c] = SetTop(r, f)] /\ lock' = lock /\ Top(c).pc = "sti"
  BY Zenon DEF EnableInterrupts, SpinInv, SpinOK
<1>1. f \in Frame /\ f.pc = "run" /\ f.lk = Top(c).lk /\ f.held = Top(c).held /\ f.fl = Top(c).fl
  BY Zenon, CpuTypes DEF Frame, Points, To
<1>2. Cardinality(Top(c).held) \in Nat /\ cpu[c].ncli = Cardinality(Top(c).held) + 1
  BY Zenon, <1>0, CpuTypes, FS_CardinalityType DEF CpuInv, TopInv, CliInv
<1>3. /\ r \in Cpu /\ r.frames = cpu[c].frames /\ r.ncli = cpu[c].ncli - 1
      /\ r.if = (IF cpu[c].ncli = 1 /\ cpu[c].intena THEN TRUE ELSE cpu[c].if)
      /\ r.intena = cpu[c].intena
  <2>1. cpu[c] \in Cpu /\ cpu[c].ncli - 1 \in Nat
    BY <1>2, CpuTypes
  <2>2. cpu[c].if \in BOOLEAN
    BY Zenon, CpuTypes
  <2>3. (IF cpu[c].ncli = 1 /\ cpu[c].intena THEN TRUE ELSE cpu[c].if) \in BOOLEAN
    BY <2>2, Zenon
  <2>4. QED BY <2>1, <2>3, Zenon DEF Cpu, popcli
<1> HIDE DEF f, r
<1>4. /\ cpu' \in [CPUs -> Cpu] /\ \A d \in CPUs : Depth(d)' = Depth(d)
      /\ Top(c)' = f /\ (Depth(c) = 2 => Base(c)' = Base(c))
      /\ cpu'[c].if = r.if /\ cpu'[c].ncli = r.ncli /\ cpu'[c].intena = r.intena
      /\ \A d \in CPUs : d # c => cpu'[d] = cpu[d] /\ Top(d)' = Top(d)
  BY <1>0, <1>1, <1>3, SetTopIs, Zenon
<1>5. TopInv(c)'
  BY Zenon, <1>0, <1>1, <1>4, CpuTypes DEF CpuInv, TopInv
<1>6. CliInv(c)'
  BY <1>1, <1>3, <1>4, <1>2 DEF CliInv
<1>7. FlagInv(c)'
  <2>1. cpu[c].ncli \in Nat /\ cpu[c].ncli > 0 /\ ~cpu[c].if /\ (Depth(c) = 1 <=> cpu[c].intena)
    BY <1>2, CpuTypes DEF CpuInv, FlagInv
  <2>2. r.if <=> (cpu[c].ncli = 1 /\ cpu[c].intena)
    BY <2>1, <1>3, Zenon
  <2>3. Depth(c) = 1 => (r.if <=> r.ncli = 0)
    BY <2>1, <2>2, <1>3
  <2>4. Depth(c) = 2 => ~r.if /\ ~r.intena
    BY <2>1, <2>2, <1>3
  <2>5. QED BY Zenon, <2>1, <2>3, <2>4, <1>1, <1>3, <1>4, CpuTypes DEF CpuInv, FlagInv
<1>8. OwnerInv' /\ lock' \in [Locks -> [locked : BOOLEAN, cpu : CPUs \cup {0}]]
  BY Zenon, <1>0, <1>1, <1>4, OwnerSame
<1>9. QED BY Zenon, <1>4, <1>5, <1>7, <1>8, <1>6, StepInv, CpuTypes DEF CpuInv

\* An interrupt pushes a handler's frame on code that holds no lock.
LEMMA InterruptInv ==
  ASSUME SpinInv, NEW c \in CPUs, Interrupt(c)
  PROVE  SpinInv'
<1> DEFINE s == cpu[c].frames
           t == Append(s, NewFrame)
           r == [cpu[c] EXCEPT !.if = FALSE, !.frames = t]
<1>0. cpu' = [cpu EXCEPT ![c] = r] /\ lock' = lock /\ cpu[c].if /\ Len(s) = 1 /\ cpu \in [CPUs -> Cpu]
  BY Zenon DEF Interrupt, SpinInv, SpinOK
<1>1. NewFrame \in Frame /\ NewFrame.pc = "run" /\ NewFrame.held = {}
  BY Zenon DEF NewFrame, Frame, Points
<1>2. s \in Seq(Frame) /\ t \in Seq(Frame) /\ Len(t) = 2 /\ t[2] = NewFrame /\ t[1] = s[1]
  BY <1>0, <1>1, CpuTypes, PushFrame
<1> HIDE DEF t
<1>3. r \in Cpu /\ r.if = FALSE /\ r.frames = t /\ r.ncli = cpu[c].ncli
  BY <1>0, <1>2, CpuTypes, Zenon DEF Cpu
<1> HIDE DEF r
<1>4. /\ cpu' \in [CPUs -> Cpu] /\ cpu'[c] = r
      /\ \A d \in CPUs : d # c => cpu'[d] = cpu[d]
  BY Zenon, <1>0, <1>3
<1>5. /\ Depth(c) = 1 /\ Depth(c)' = 2 /\ Top(c)' = NewFrame /\ Base(c)' = Top(c)
      /\ \A d \in CPUs : d # c => Top(d)' = Top(d) /\ Depth(d)' = Depth(d)
  BY <1>0, <1>2, <1>3, <1>4, Zenon DEF Depth, Top, Base
<1>6. cpu[c].ncli = 0 /\ Cardinality(Top(c).held) \in Nat /\ IsFiniteSet(Top(c).held)
  BY Zenon, <1>0, <1>5, CpuTypes, FS_CardinalityType DEF CpuInv, FlagInv, TopInv
<1>7. Top(c).held = {} /\ Top(c).pc \notin {"check", "xchg", "sti"}
  <2>1. Top(c).pc \notin {"check", "xchg", "sti"} /\ Cardinality(Top(c).held) = 0
    BY <1>6, CpuTypes DEF CpuInv, CliInv
  <2>2. QED BY Zenon, <2>1, <1>6, FS_EmptySet
<1>8. Top(c).pc \in {"run", "cli"} /\ (Top(c).pc = "cli" => Top(c).lk \in Locks /\ Top(c).fl)
  BY Zenon, <1>5, <1>6, <1>7, CpuTypes DEF CpuInv, TopInv, FlagInv, Points
<1>9. TopInv(c)'
  BY Zenon, <1>1, <1>5, FS_EmptySet DEF TopInv
<1>10. CliInv(c)'
  BY <1>1, <1>3, <1>4, <1>5, <1>6, FS_EmptySet DEF CliInv
<1>11. FlagInv(c)'
  BY <1>1, <1>3, <1>4, <1>5, <1>6, <1>7, <1>8 DEF FlagInv
<1>12. OwnerInv' /\ lock' \in [Locks -> [locked : BOOLEAN, cpu : CPUs \cup {0}]]
  BY <1>0, <1>1, <1>5, <1>7, <1>8, OwnerSame, Zenon
<1>13. \A d \in CPUs : Depth(d)' \in {1, 2}
  BY Zenon, <1>5, CpuTypes
<1>14. QED BY Zenon, <1>4, <1>9, <1>10, <1>11, <1>12, <1>13, StepInv DEF CpuInv

\* The return from a handler, which has released what it took.
LEMMA IretInv ==
  ASSUME SpinInv, NEW c \in CPUs, Iret(c)
  PROVE  SpinInv'
<1> DEFINE s == cpu[c].frames
           t == <<Head(s)>>
           r == [cpu[c] EXCEPT !.if = TRUE, !.frames = t]
<1>0. /\ cpu' = [cpu EXCEPT ![c] = r] /\ lock' = lock /\ Len(s) = 2 /\ cpu \in [CPUs -> Cpu]
      /\ Top(c).pc = "run" /\ Top(c).held = {}
  BY Zenon DEF Iret, SpinInv, SpinOK
<1>1. s \in Seq(Frame) /\ t \in Seq(Frame) /\ Len(t) = 1 /\ t[1] = s[1]
  BY <1>0, CpuTypes
<1> HIDE DEF t
<1>2. r \in Cpu /\ r.if = TRUE /\ r.frames = t /\ r.ncli = cpu[c].ncli
  BY <1>0, <1>1, CpuTypes, Zenon DEF Cpu
<1> HIDE DEF r
<1>3. /\ cpu' \in [CPUs -> Cpu] /\ cpu'[c] = r
      /\ \A d \in CPUs : d # c => cpu'[d] = cpu[d]
  BY Zenon, <1>0, <1>2
<1>4. /\ Depth(c) = 2 /\ Depth(c)' = 1 /\ Top(c)' = Base(c)
      /\ \A d \in CPUs : d # c => Top(d)' = Top(d) /\ Depth(d)' = Depth(d)
  BY <1>0, <1>1, <1>2, <1>3, Zenon DEF Depth, Top, Base
<1>5. cpu[c].ncli = 0
  <2>1. cpu[c].ncli = Cardinality(Top(c).held) + 0
    BY <1>0, CpuTypes, Zenon DEF CpuInv, CliInv
  <2>2. QED BY <2>1, <1>0, FS_EmptySet
<1>6. /\ Base(c).held = {} /\ Base(c).pc \in {"run", "cli"}
      /\ Base(c).pc = "cli" => Base(c).lk \in Locks /\ Base(c).fl
  BY Zenon, <1>4, CpuTypes DEF CpuInv, FlagInv
<1>7. TopInv(c)'
  BY Zenon, <1>4, <1>6, FS_EmptySet DEF TopInv
<1>8. CliInv(c)'
  BY <1>2, <1>3, <1>4, <1>5, <1>6, FS_EmptySet DEF CliInv
<1>9. FlagInv(c)'
  BY <1>2, <1>3, <1>4, <1>5, <1>6 DEF FlagInv
<1>10. OwnerInv' /\ lock' \in [Locks -> [locked : BOOLEAN, cpu : CPUs \cup {0}]]
  BY <1>0, <1>4, <1>6, OwnerSame, Zenon
<1>11. \A d \in CPUs : Depth(d)' \in {1, 2}
  BY Zenon, <1>4, CpuTypes
<1>12. QED BY Zenon, <1>3, <1>7, <1>8, <1>9, <1>10, <1>11, StepInv DEF CpuInv

\* At boot every CPU runs with no lock and interrupts on.
LEMMA SpinInitInv == SpinInit => SpinInv
<1> SUFFICES ASSUME SpinInit PROVE SpinInv
  OBVIOUS
<1>1. NewFrame \in Frame /\ NewFrame.pc = "run" /\ NewFrame.held = {}
  BY Zenon DEF NewFrame, Frame, Points
<1>2. \A c \in CPUs : /\ cpu[c] = [if |-> TRUE, ncli |-> 0, intena |-> FALSE, frames |-> <<NewFrame>>]
                      /\ cpu[c].frames = <<NewFrame>> /\ cpu[c].if = TRUE /\ cpu[c].ncli = 0
  BY Zenon DEF SpinInit
<1>3. <<NewFrame>> \in Seq(Frame) /\ Len(<<NewFrame>>) = 1 /\ <<NewFrame>>[1] = NewFrame
  BY <1>1
<1>4. \A c \in CPUs : Depth(c) = 1 /\ Top(c) = NewFrame
  BY <1>2, <1>3, Zenon DEF Depth, Top
<1>5. SpinOK
  <2>1. \A c \in CPUs : cpu[c] \in Cpu
    <3>1. [if |-> TRUE, ncli |-> 0, intena |-> FALSE, frames |-> <<NewFrame>>] \in Cpu
      BY Zenon, <1>3 DEF Cpu
    <3>2. QED BY <1>2, <3>1, Zenon
  <2>2. QED BY <2>1, <1>4, Zenon DEF SpinInit, SpinOK
<1>6. ASSUME NEW c \in CPUs PROVE CpuInv(c)
  BY <1>1, <1>2, <1>4, FS_EmptySet DEF CpuInv, TopInv, CliInv, FlagInv
<1>7. OwnerInv
  BY <1>1, <1>4, SpinAssumption, Zenon DEF SpinInit, OwnerInv
<1>8. QED BY Zenon, <1>5, <1>6, <1>7 DEF SpinInv

\* Every step of acquire, release and an interrupt keeps the invariant.
THEOREM SpinInvHolds == SpinSpec => []SpinInv
<1>1. SpinInv /\ [SpinNext]_svars => SpinInv'
  <2> SUFFICES ASSUME SpinInv, [SpinNext]_svars PROVE SpinInv'
    OBVIOUS
  <2>1. CASE UNCHANGED svars
    <3>1. lock' = lock /\ cpu' = cpu
      BY Zenon, <2>1 DEF svars
    <3>2. \A c \in CPUs : Top(c)' = Top(c) /\ Depth(c)' = Depth(c)
      BY <3>1, Zenon DEF Top, Depth
    <3>3. SpinOK' /\ OwnerInv'
      BY <3>1, <3>2 DEF SpinInv, SpinOK, OwnerInv
    <3>4. \A c \in CPUs : CpuInv(c)'
      BY Zenon, <3>1, OthersSame
    <3>5. QED BY Zenon, <3>3, <3>4 DEF SpinInv
  <2>2. CASE SpinNext
    BY Zenon, <2>2, StartAcquireInv, ReleaseInv, DisableInv, CheckInv, SpinStepInv, RecordInv, UnlockInv,
       EnableInv, InterruptInv, IretInv DEF SpinNext
  <2>3. QED BY Zenon, <2>1, <2>2
<1>2. QED BY <1>1, SpinInitInv, PTL DEF SpinSpec

\* Only the frame that runs holds locks.
LEMMA HeldAtTop ==
  ASSUME SpinInv, NEW c \in CPUs
  PROVE  /\ \A k \in 1..2 : k <= Len(cpu[c].frames) =>
              k = Depth(c) \/ cpu[c].frames[k].held = {}
         /\ HeldBy(c) = Top(c).held
<1>1. cpu[c].frames \in Seq(Frame) /\ Depth(c) \in {1, 2} /\ (Depth(c) = 2 => Base(c).held = {})
  BY Zenon, CpuTypes DEF CpuInv, FlagInv
<1>2. DOMAIN cpu[c].frames = 1..Depth(c)
  BY <1>1 DEF Depth
<1>3. ASSUME NEW k \in 1..Depth(c) PROVE k = Depth(c) \/ cpu[c].frames[k].held = {}
  BY <1>1, <1>3 DEF Base
<1>4. Depth(c) \in 1..Depth(c) /\ cpu[c].frames[Depth(c)] = Top(c)
  <2>1. cpu[c].frames[Depth(c)] = Top(c)
    BY Zenon DEF Depth, Top
  <2>2. QED BY <2>1, <1>1
<1>5. HeldBy(c) = Top(c).held
  <2>1. ASSUME NEW l, l \in HeldBy(c) PROVE l \in Top(c).held
    BY <2>1, <1>2, <1>3, <1>4 DEF HeldBy
  <2>2. ASSUME NEW l, l \in Top(c).held PROVE l \in HeldBy(c)
    BY Zenon, <2>2, <1>2, <1>4 DEF HeldBy
  <2>3. QED BY Zenon, <2>1, <2>2
<1>6. \A k \in 1..2 : k <= Len(cpu[c].frames) => k \in 1..Depth(c)
  BY <1>1 DEF Depth
<1>7. QED BY Zenon, <1>3, <1>5, <1>6

\* The invariant gives what acquire and release promise.
LEMMA SpinExact == SpinInv => LocksExact
<1> SUFFICES ASSUME SpinInv PROVE LocksExact
  OBVIOUS
<1>1. LockExclusive
  <2> SUFFICES ASSUME NEW l \in Locks
               PROVE  Cardinality({h \in CPUs \X (1..2) : /\ h[2] <= Len(cpu[h[1]].frames)
                                                          /\ l \in cpu[h[1]].frames[h[2]].held})
                        = IF lock[l].locked THEN 1 ELSE 0
    BY Zenon DEF LockExclusive
  <2> DEFINE H == {h \in CPUs \X (1..2) : /\ h[2] <= Len(cpu[h[1]].frames)
                                          /\ l \in cpu[h[1]].frames[h[2]].held}
  <2>1. \A h \in H : h[1] \in CPUs /\ h = <<h[1], Depth(h[1])>> /\ l \in Top(h[1]).held
    <3> SUFFICES ASSUME NEW h \in H
                 PROVE  h[1] \in CPUs /\ h = <<h[1], Depth(h[1])>> /\ l \in Top(h[1]).held
      OBVIOUS
    <3>1. /\ h[1] \in CPUs /\ h[2] \in 1..2 /\ h = <<h[1], h[2]>> /\ h[2] <= Len(cpu[h[1]].frames)
          /\ l \in cpu[h[1]].frames[h[2]].held
      OBVIOUS
    <3>2. h[2] = Depth(h[1])
      BY Zenon, <3>1, HeldAtTop
    <3>3. QED BY Zenon, <3>1, <3>2 DEF Top, Depth
  <2>2. \A c \in CPUs : l \in Top(c).held => <<c, Depth(c)>> \in H
    <3> SUFFICES ASSUME NEW c \in CPUs, l \in Top(c).held PROVE <<c, Depth(c)>> \in H
      OBVIOUS
    <3>1. Depth(c) \in 1..2 /\ Depth(c) <= Len(cpu[c].frames) /\ cpu[c].frames[Depth(c)] = Top(c)
      <4>1. Depth(c) \in {1, 2}
        BY Zenon, CpuTypes
      <4>2. QED BY <4>1 DEF Depth, Top
    <3>2. QED BY Zenon, <3>1
  <2>3. CASE lock[l].locked
    <3>1. PICK c \in CPUs : l \in Top(c).held
      BY Zenon, <2>3 DEF SpinInv, OwnerInv
    <3>2. \A d \in CPUs : l \in Top(d).held => d = c
      BY Zenon, <3>1 DEF SpinInv, OwnerInv
    <3> HIDE DEF H
    <3>3. H = {<<c, Depth(c)>>}
      BY <2>1, <2>2, <3>1, <3>2, Zenon
    <3>4. Cardinality(H) = 1
      BY <3>3, FS_Singleton, Zenon
    <3>5. QED BY Zenon, <2>3, <3>4 DEF H
  <2>4. CASE ~lock[l].locked
    <3>1. \A d \in CPUs : l \notin Top(d).held
      BY Zenon, <2>4 DEF SpinInv, OwnerInv
    <3> HIDE DEF H
    <3>2. H = {}
      BY <2>1, <3>1, Zenon
    <3>3. Cardinality(H) = 0
      BY Zenon, <3>2, FS_EmptySet
    <3>4. QED BY Zenon, <2>4, <3>3 DEF H
  <2>5. QED BY Zenon, <2>3, <2>4
<1>2. HoldingExact
  <2> SUFFICES ASSUME NEW c \in CPUs
               PROVE  /\ Top(c).pc = "check" => ~holding(c, Top(c).lk) /\ Top(c).lk \notin HeldBy(c)
                      /\ Top(c).pc = "run" => \A l \in Top(c).held : holding(c, l)
    BY Zenon DEF HoldingExact
  <2>1. Top(c).pc = "check" => Top(c).lk \in Locks /\ Top(c).lk \notin Top(c).held
    BY Zenon, CpuTypes DEF CpuInv, TopInv
  <2>2. Top(c).held \subseteq Locks
    BY Zenon, CpuTypes
  <2>3. \A l \in Locks : lock[l].cpu = c => l \in Top(c).held
    BY Zenon DEF SpinInv, OwnerInv
  <2>4. \A l \in Top(c).held : Top(c).pc = "run" => lock[l].locked /\ lock[l].cpu = c
    BY Zenon, <2>2 DEF SpinInv, OwnerInv
  <2>5. QED BY Zenon, <2>1, <2>3, <2>4, HeldAtTop DEF holding
<1>3. InterruptsBack
  <2> SUFFICES ASSUME NEW c \in CPUs
               PROVE  /\ HeldBy(c) # {} => ~cpu[c].if
                      /\ Len(cpu[c].frames) = 1 /\ Top(c).pc = "run" /\ HeldBy(c) = {}
                           => cpu[c].if /\ cpu[c].ncli = 0
    BY Zenon DEF InterruptsBack
  <2>1. HeldBy(c) = Top(c).held /\ IsFiniteSet(Top(c).held) /\ Depth(c) \in {1, 2}
    BY Zenon, HeldAtTop, CpuTypes DEF CpuInv, TopInv
  <2>2. Cardinality(Top(c).held) \in Nat /\ (Cardinality(Top(c).held) = 0 <=> Top(c).held = {})
    BY Zenon, <2>1, FS_CardinalityType, FS_EmptySet
  <2>3. Top(c).held # {} => cpu[c].ncli > 0 /\ cpu[c].ncli # 0
    BY <2>2, CpuTypes DEF CpuInv, CliInv
  <2>4. Top(c).held = {} /\ Top(c).pc = "run" => cpu[c].ncli = 0
    <3> SUFFICES ASSUME Top(c).held = {}, Top(c).pc = "run" PROVE cpu[c].ncli = 0
      OBVIOUS
    <3>1. cpu[c].ncli = Cardinality(Top(c).held) + 0
      BY CpuTypes, Zenon DEF CpuInv, CliInv
    <3>2. QED BY <2>2, <3>1
  <2>5. QED BY Zenon, <2>1, <2>3, <2>4, CpuTypes DEF CpuInv, FlagInv, Depth
<1>4. QED BY Zenon, <1>1, <1>2, <1>3 DEF LocksExact

\* acquire and release keep LocksExact for every number of CPUs and of locks: one owner,
\* no panic of holding(), and interrupts off exactly as long as they have to be.
THEOREM SpinCorrect == SpinSpec => []LocksExact
  BY SpinInvHolds, SpinExact, PTL
=============================================================================
