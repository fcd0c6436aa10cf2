----------------------------- MODULE LogAtomic ------------------------------
(***************************************************************************)
(* What log.c promises its callers: the blocks written between begin_op    *)
(* and end_op reach the disk all together or not at all, whenever the      *)
(* machine stops.                                                          *)
(***************************************************************************)
CONSTANTS Caller, Block, Val

VARIABLES mem,      \* what the kernel reads: the buffer cache
          durable,  \* what it would read after a crash and recovery
          active    \* the callers inside a system call

vars == <<mem, durable, active>>

Init == /\ durable \in [Block -> Val]
        /\ mem = durable
        /\ active = {}

Begin(p) == p \notin active /\ active' = active \cup {p}
              /\ UNCHANGED <<mem, durable>>

Write(p) == /\ p \in active
            /\ \E b \in Block, v \in Val : mem' = [mem EXCEPT ![b] = v]
            /\ UNCHANGED <<durable, active>>

End(p) == p \in active /\ active' = active \ {p}
            /\ UNCHANGED <<mem, durable>>

\* Only whole system calls become durable.
Commit == active = {} /\ durable' = mem /\ UNCHANGED <<mem, active>>

Crash == mem' = durable /\ active' = {} /\ UNCHANGED durable

Next == Commit \/ Crash \/ \E p \in Caller : Begin(p) \/ Write(p) \/ End(p)

Spec == Init /\ [][Next]_vars
=============================================================================
