---------------------------- MODULE SyscallTrace ----------------------------
(***************************************************************************)
(* The dispatch of system calls with the counters and the trace flag that  *)
(* syscall.c and sys_toggle share without a lock.  Each load and store of  *)
(* a shared word is a step: processes on several CPUs interleave them.     *)
(***************************************************************************)
EXTENDS Integers, FiniteSets

CONSTANTS
  Callers,
  Calls,            \* the numbers of system calls
  SYS_toggle,       \* one of them
  MaxCalls          \* bound: calls per process

\* The numbers of system calls start at 1 (syscall.h).
ASSUME TraceAssumption == Calls \subseteq Nat \ {0} /\ SYS_toggle \in Calls /\ MaxCalls \in Nat

VARIABLES counter, v_toggle,
          caller,   \* per process: where it is, the call, the value it loaded, calls left
          made,     \* calls per number: how often a count was stored
          raced,    \* the words that two processes were changing at the same time
          printed   \* the last line of the trace: call and count

tvars == <<counter, v_toggle, caller, made, raced, printed>>

FLAG == 0           \* stands for v_toggle among the words

TraceInit ==
  /\ counter = [n \in Calls |-> 0]
  /\ v_toggle = 0
  /\ caller = [p \in Callers |-> [at |-> "user", num |-> 0, val |-> 0, left |-> MaxCalls]]
  /\ made = [n \in Calls \cup {FLAG} |-> 0]
  /\ raced = {}
  /\ printed = <<>>

\* The word between whose load and store the process is.
Loaded(p) ==
  IF caller[p].at = "add" THEN {caller[p].num} ELSE IF caller[p].at = "flip" THEN {FLAG} ELSE {}
Race(p, w) == raced' = raced \cup {x \in {w} : \E q \in Callers \ {p} : w \in Loaded(q)}

LoadCounter(p, n) ==
  /\ caller[p].at = "user" /\ caller[p].left > 0
  /\ caller' = [caller EXCEPT ![p] = [at |-> "add", num |-> n, val |-> counter[n], left |-> @.left - 1]]
  /\ Race(p, n)
  /\ UNCHANGED <<counter, v_toggle, made, printed>>

\* The count that is stored, and a version that counts a call twice.
Incremented_twice(p) == caller[p].val + 2
Incremented(p) == caller[p].val + 1

StoreCounter(p) ==
  /\ caller[p].at = "add"
  /\ counter' = [counter EXCEPT ![caller[p].num] = Incremented(p)]
  /\ made' = [made EXCEPT ![caller[p].num] = @ + 1]
  /\ caller' = [caller EXCEPT ![p].at = "trace"]
  /\ UNCHANGED <<v_toggle, raced, printed>>

\* The test of v_toggle and the line of the trace.
TraceCall(p) ==
  /\ caller[p].at = "trace"
  /\ printed' = IF v_toggle = 1 THEN <<caller[p].num, counter[caller[p].num]>> ELSE printed
  /\ caller' = [caller EXCEPT ![p].at = IF caller[p].num = SYS_toggle THEN "toggle" ELSE "user"]
  /\ UNCHANGED <<counter, v_toggle, made, raced>>

LoadFlag(p) ==
  /\ caller[p].at = "toggle"
  /\ caller' = [caller EXCEPT ![p].at = "flip", ![p].val = v_toggle]
  /\ Race(p, FLAG)
  /\ UNCHANGED <<counter, v_toggle, made, printed>>

StoreFlag(p) ==
  /\ caller[p].at = "flip"
  /\ v_toggle' = 1 - caller[p].val
  /\ made' = [made EXCEPT ![FLAG] = @ + 1]
  /\ caller' = [caller EXCEPT ![p].at = "user"]
  /\ UNCHANGED <<counter, raced, printed>>

TraceNext ==
  \E p \in Callers : \/ \E n \in Calls : LoadCounter(p, n)
                     \/ StoreCounter(p) \/ TraceCall(p) \/ LoadFlag(p) \/ StoreFlag(p)

TraceSpec == TraceInit /\ [][TraceNext]_tvars

-----------------------------------------------------------------------------
\* A count is too low only after two calls changed it at the same time, and is never
\* too high; the flag tells whether the number of toggles is odd unless two toggles met.
CountsExact ==
  /\ \A n \in Calls : counter[n] <= made[n] /\ (n \notin raced => counter[n] = made[n])
  /\ v_toggle \in {0, 1}
  /\ FLAG \notin raced => v_toggle = made[FLAG] % 2
=============================================================================
