------------------------------ MODULE SysArgs -------------------------------
(***************************************************************************)
(* Machine words at the system call boundary: how syscall.c checks the     *)
(* addresses a process passes, and how sys_sleep() counts ticks that wrap. *)
(* A word is a number below WordMod; an int is read as one two's-          *)
(* complement.  Additions and subtractions wrap.                           *)
(***************************************************************************)
EXTENDS Integers

CONSTANTS
  WordMod,      \* 2^32
  KERNBASE,     \* no process is larger
  MaxLag,       \* ticks that may pass before a woken process runs
  MaxElapsed,   \* bound: ticks during one call
  WordValues,   \* the addresses and process sizes that are tried
  IntValues     \* the ints: sizes of blocks and lengths of sleeps

ASSUME WordAssumption ==
  /\ WordMod \in Nat /\ KERNBASE \in Nat /\ MaxLag \in Nat /\ MaxElapsed \in Nat
  /\ 8 <= WordMod /\ 2 * KERNBASE <= WordMod /\ 1 <= MaxLag /\ 2 * MaxLag <= WordMod
  /\ WordValues \subseteq 0..WordMod-1
  /\ IntValues \subseteq Int /\ \A n \in IntValues : -WordMod <= 2 * n /\ 2 * n < WordMod

VARIABLES
  arg,      \* the last check: the block or string, the process' size and the verdict
  ticks,
  sl,       \* a call of sleep(): where it is, n, ticks0, killed
  elapsed,  \* ticks since the call
  lag       \* ticks since the process was woken

avars == <<arg, ticks, sl, elapsed, lag>>

Word == 0..WordMod-1
UInt(i) == IF i < 0 THEN i + WordMod ELSE i
WAdd(a, b) == IF a + b >= WordMod THEN a + b - WordMod ELSE a + b
WSub(a, b) == IF a >= b THEN a - b ELSE a - b + WordMod

NoArg == [ok |-> FALSE, addr |-> 0, len |-> 0, sz |-> 0]

ArgsInit ==
  /\ arg = NoArg
  /\ ticks \in WordValues
  /\ sl = [at |-> "user", n |-> 0, ticks0 |-> 0, killed |-> 0]
  /\ elapsed = 0 /\ lag = 0

-----------------------------------------------------------------------------
fetchint(addr, sz) == ~(addr >= sz \/ WAdd(addr, 4) > sz)

\* Is the block inside the process?
argptr(i, size, sz) == ~(size < 0 \/ i >= sz \/ WAdd(i, UInt(size)) > sz)

\* z is the address of the first NUL at or after addr.
fetchstr(addr, z, sz) == addr < sz /\ z < sz

ArgInt(addr, sz) ==
  /\ sl.at = "user" /\ arg = NoArg
  /\ arg' = [ok |-> fetchint(addr, sz), addr |-> addr, len |-> 4, sz |-> sz]
  /\ UNCHANGED <<ticks, sl, elapsed, lag>>
ArgPtr(i, size, sz) ==
  /\ sl.at = "user" /\ arg = NoArg
  /\ arg' = [ok |-> argptr(i, size, sz), addr |-> i, len |-> size, sz |-> sz]
  /\ UNCHANGED <<ticks, sl, elapsed, lag>>
ArgStr(addr, z, sz) ==
  /\ sl.at = "user" /\ arg = NoArg /\ addr <= z
  /\ arg' = [ok |-> fetchstr(addr, z, sz), addr |-> addr, len |-> z - addr + 1, sz |-> sz]
  /\ UNCHANGED <<ticks, sl, elapsed, lag>>

\* The system call returns.
ArgDone ==
  /\ arg # NoArg
  /\ arg' = NoArg
  /\ UNCHANGED <<ticks, sl, elapsed, lag>>

-----------------------------------------------------------------------------
\* Does sys_sleep() go round its loop?  The int n becomes unsigned in the comparison.
\* A version that compares the deadline instead of the difference.
Early_deadline(s, now) == now < WAdd(s.ticks0, UInt(s.n))
Early(s, now) == WSub(now, s.ticks0) < UInt(s.n)

\* The body of the loop: back after the while's test.
LoopTest(s) == [s EXCEPT !.at = IF ~Early(s, ticks) THEN "done" ELSE IF s.killed = 1 THEN "failed" ELSE "asleep"]

SleepCall(n) ==
  /\ sl.at = "user" /\ arg = NoArg
  /\ sl' = LoopTest([at |-> "user", n |-> n, ticks0 |-> ticks, killed |-> sl.killed])
  /\ elapsed' = 0 /\ lag' = 0
  /\ UNCHANGED <<arg, ticks>>

\* What the timer interrupt does to a sleeper.
WakeTicks(s) == [s EXCEPT !.at = IF @ = "asleep" THEN "woken" ELSE @]

\* The timer interrupt: ticks++ and wakeup(&ticks).
Tick ==
  /\ sl.at \in {"asleep", "woken"} => elapsed < MaxElapsed
  /\ sl.at = "woken" => lag < MaxLag
  /\ ticks' = WAdd(ticks, 1)
  /\ sl' = WakeTicks(sl)
  /\ elapsed' = IF sl.at \in {"asleep", "woken"} THEN elapsed + 1 ELSE elapsed
  /\ lag' = IF sl.at = "woken" THEN lag + 1 ELSE IF sl.at = "asleep" THEN 1 ELSE 0
  /\ UNCHANGED arg

KillSleeper ==
  /\ sl.at \in {"asleep", "woken"}
  /\ sl' = [sl EXCEPT !.killed = 1, !.at = "woken"]
  /\ lag' = IF sl.at = "woken" THEN lag ELSE 0
  /\ UNCHANGED <<arg, ticks, elapsed>>

SleepResume ==
  /\ sl.at = "woken"
  /\ sl' = LoopTest(sl)
  /\ UNCHANGED <<arg, ticks, elapsed, lag>>

SleepReturn ==
  /\ sl.at \in {"done", "failed"} /\ sl.killed = 0
  /\ sl' = [at |-> "user", n |-> 0, ticks0 |-> 0, killed |-> 0]
  /\ elapsed' = 0 /\ lag' = 0
  /\ UNCHANGED <<arg, ticks>>

ArgsNext ==
  \/ \E sz \in WordValues : sz <= KERNBASE /\
       \E addr \in WordValues : \/ ArgInt(addr, sz)
                                \/ \E size \in IntValues : ArgPtr(addr, size, sz)
                                \/ \E z \in WordValues : ArgStr(addr, z, sz)
  \/ \E n \in IntValues : SleepCall(n)
  \/ ArgDone \/ Tick \/ KillSleeper \/ SleepResume \/ SleepReturn

ArgsSpec == ArgsInit /\ [][ArgsNext]_avars

-----------------------------------------------------------------------------
\* Whatever a check accepts lies inside the process: no sum wraps past the end of the
\* address space, and no negative size passes for a small one.
ArgsInside ==
  arg.ok => 0 <= arg.addr /\ 0 <= arg.len /\ arg.addr + arg.len <= arg.sz

\* sleep(n) returns 0 only when n ticks have passed (for n < 0, as many as n is unsigned),
\* across a wrap of ticks; and with n >= 0 no process is asleep that has slept n ticks.
SleepExact ==
  /\ sl.at = "done" => elapsed >= UInt(sl.n)
  /\ sl.at = "asleep" /\ sl.n >= 0 => elapsed < sl.n

\* Arguments and sleeps survive the wrap of machine words.
ArgsRight == ArgsInside /\ SleepExact
=============================================================================
