-------------------------------- MODULE Pick --------------------------------
(***************************************************************************)
(* Which process scheduler() runs next (proc.c): from the first RUNNABLE   *)
(* slot f at or after its loop variable, the RUNNABLE slot of the highest  *)
(* priority, and among equals the one met first going round the table      *)
(* from f.                                                                 *)
(***************************************************************************)
EXTENDS Naturals

CONSTANT NPROC   \* the number of slots of ptable.proc

ASSUME NPROCAssumption == NPROC \in Nat \ {0}

Slot   == 1..NPROC
States == {"UNUSED", "EMBRYO", "SLEEPING", "RUNNABLE", "RUNNING", "ZOMBIE"}

\* A version of Runnable that also takes processes that are RUNNING.
Runnable_running(st) == {p \in Slot : st[p] \in {"RUNNABLE", "RUNNING"}}

Runnable(st) == {p \in Slot : st[p] = "RUNNABLE"}

\* Going round the table from f, slot q comes before slot r.
Before(f, q, r) == \/ r < f /\ f <= q
                   \/ q < r /\ (f <= q <=> f <= r)

\* A version of IsHighest without the second loop: slots before f are not
\* looked at.
IsHighest_up(f, st, pri, q) ==
  /\ q \in Runnable(st) /\ f <= q
  /\ \A r \in Runnable(st) \ {q} :
       f <= r => pri[r] < pri[q] \/ (pri[r] = pri[q] /\ q < r)

IsHighest(f, st, pri, q) ==
  /\ q \in Runnable(st)
  /\ \A r \in Runnable(st) \ {q} :
       pri[r] < pri[q] \/ (pri[r] = pri[q] /\ Before(f, q, r))
=============================================================================
