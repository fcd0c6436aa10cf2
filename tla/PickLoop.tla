------------------------------ MODULE PickLoop ------------------------------
(***************************************************************************)
(* The two loops by which scheduler() finds highestp (proc.c), statement   *)
(* by statement, for any process table and any position p of the outer     *)
(* loop.  They compute the choice that Pick states and Proc uses.  The     *)
(* scheduler holds ptable.lock, so the table does not change.              *)
(***************************************************************************)
EXTENDS Pick

CONSTANT Priorities   \* the priorities the table may hold

ASSUME PrioritiesAssumption == Priorities \subseteq Nat

VARIABLES st, pri,    \* state and priority of every slot
          p,          \* the RUNNABLE slot the outer loop has reached
          p1, highestp, loop

table == <<st, pri, p>>
pvars == <<table, p1, highestp, loop>>

PickInit ==
  /\ st \in [Slot -> {"RUNNABLE", "RUNNING"}]
  /\ pri \in [Slot -> Priorities]
  /\ p \in Slot
  /\ st[p] = "RUNNABLE"
  /\ p1 = p
  /\ highestp = p
  /\ loop = "up"

\* A version of Visit that takes a later slot of the same priority.
Visit_last ==
  /\ highestp' = IF st[p1] = "RUNNABLE" /\ pri[p1] >= pri[highestp]
                 THEN p1 ELSE highestp
  /\ p1' = p1 + 1
  /\ UNCHANGED <<table, loop>>

\* The body both loops have.
Visit ==
  /\ highestp' = IF st[p1] = "RUNNABLE" /\ pri[p1] > pri[highestp]
                 THEN p1 ELSE highestp
  /\ p1' = p1 + 1
  /\ UNCHANGED <<table, loop>>

Up      == loop = "up" /\ p1 <= NPROC /\ Visit

UpEnd   == loop = "up" /\ p1 > NPROC /\ p1' = 1 /\ loop' = "round"
             /\ UNCHANGED <<table, highestp>>
Round   == loop = "round" /\ p1 < p /\ Visit
RoundEnd == loop = "round" /\ p1 >= p /\ loop' = "done"
             /\ UNCHANGED <<table, p1, highestp>>
PickNext == Up \/ UpEnd \/ Round \/ RoundEnd

PickSpec == PickInit /\ [][PickNext]_pvars

PickOK ==
  /\ st \in [Slot -> States]
  /\ pri \in [Slot -> Priorities]
  /\ p \in Slot
  /\ p1 \in 1..NPROC+1
  /\ highestp \in Slot
  /\ loop \in {"up", "round", "done"}

\* When the loops end, highestp is the RUNNABLE slot of the highest priority,
\* and of those the first one going round the table from p.
PicksHighest == loop = "done" => IsHighest(p, st, pri, highestp)

\* The slots the loops have seen.
Seen == {r \in Slot : IF loop = "up" THEN p <= r /\ r < p1
                      ELSE p <= r \/ r < p1} \cup {p}

\* The loop invariant: highestp is the choice among the slots seen so far.
LoopInv ==
  /\ loop = "up" => p <= p1
  /\ loop # "up" => p1 <= p
  /\ loop = "done" => p1 = p
  /\ highestp \in Seen /\ st[highestp] = "RUNNABLE"
  /\ \A r \in Seen \ {highestp} : st[r] = "RUNNABLE" =>
       pri[r] < pri[highestp] \/ (pri[r] = pri[highestp]
                                  /\ Before(p, highestp, r))
=============================================================================
